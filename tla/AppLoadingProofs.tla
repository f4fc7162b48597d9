--------------------------- MODULE AppLoadingProofs ---------------------------
(***************************************************************************)
(* Proofs about AppLoading, for any number of handlers and any document    *)
(* roots, constructed one after another or by interleaved threads.         *)
(***************************************************************************)
EXTENDS AppLoading, SequenceTheorems, FiniteSetTheorems, TLAPS

(* The tuples of variables are always expanded. *)
USE DEF diskVars, pythonVars, handlerVars

Paths == Docroots \cup {"venv", "lib", "lib64", "system"}
Namespaces == [config: Codes, app: Codes]
Apps == [space: Nat, code: Codes]
Helpers == Codes \cup {"lib", "system"}
Targets == {NoTarget} \cup {TargetOf(value) : value \in {v \in TargetValues : IsTarget(v)}}
Stages == {"new", "load", "config", "import", "define", "lookup", "loaded",
           "failed"}

\* The types the proofs need. What is in the disk never changes.
TypesOK ==
    /\ environment \subseteq {"venv", "lib", "lib64"}
    /\ helperIn \subseteq Docroots \cup {"lib", "system"}
    /\ modules \in [Files -> Nat]
    /\ globals \in Seq(Namespaces)
    /\ sysPath \in Seq(Paths)
    /\ helper \in Helpers
    /\ stage \in [Handlers -> Stages]
    /\ docroot \in [Handlers -> Codes]
    /\ target \in [Handlers -> Targets]
    /\ imported \in [Handlers -> Helpers]
    /\ app \in [Handlers -> Apps]

\* A handler has its options until it loads, and its namespace from then on.
Running(h) == stage[h] \in {"config", "import", "define", "lookup", "loaded"}

StagesInOrder == \A h \in Handlers :
    /\ stage[h] = "new" => docroot[h] = "none"
    /\ stage[h] = "load" \/ Running(h) => docroot[h] \in Docroots
    /\ stage[h] \in {"new", "load"} => app[h].space = 0
    /\ Running(h) => app[h].space # 0
    /\ app[h].space # 0 => target[h].file \in Files

\* A namespace is of one file: the one of the handlers that use it, and the one
\* sys.modules has it under.
Holds(file, space) ==
    \/ file \in Files /\ modules[file] = space
    \/ \E h \in Handlers : app[h].space = space /\ target[h].file = file

OneFile ==
    /\ \A file \in Files : modules[file] \in 0..Len(globals)
    /\ \A h \in Handlers : app[h].space \in 0..Len(globals)
    /\ \A space \in 1..Len(globals), f \in Files, g \in Files :
          Holds(f, space) /\ Holds(g, space) => f = g

\* What is bound in it comes from the handlers of that file, `config` first.
RootsOf(file) ==
    {docroot[h] : h \in {g \in Handlers : docroot[g] # "none" /\ target[g].file = file}}

GlobalsAreOfFile == \A space \in 1..Len(globals), file \in Files :
    Holds(file, space) =>
        /\ globals[space].config \in RootsOf(file) \cup {"none"}
        /\ globals[space].app \in RootsOf(file) \cup {"none"}

ConfigComesFirst ==
    /\ \A space \in 1..Len(globals) :
          globals[space].app # "none" => globals[space].config # "none"
    /\ \A h \in Handlers : stage[h] \in {"import", "define"} =>
          globals[app[h].space].config # "none"

LoadedIsOfFile == \A h \in Handlers : stage[h] = "loaded" =>
    /\ app[h].code \in RootsOf(target[h].file)
    /\ globals[app[h].space].config # "none"

AppInv ==
    /\ TypesOK /\ StagesInOrder /\ OneFile /\ GlobalsAreOfFile
    /\ ConfigComesFirst /\ LoadedIsOfFile

\* sys.path is the interpreter's own behind what handlers have put in front.
Roots == {docroot[h] : h \in Handlers} \ {"none"}

SystemComesLast ==
    /\ Len(sysPath) > 0
    /\ \A i \in 1..Len(sysPath) : sysPath[i] \in environment \cup Roots \/ i = Len(sysPath)

RootIsOnPath == \A h \in Handlers :
    Running(h) => \E i \in 1..Len(sysPath) : sysPath[i] = docroot[h]

\* Helper came from the interpreter only if some document root lacks it.
HelperIsExplained ==
    \/ helper \in {"none"} \cup environment \cup Roots
    \/ \E h \in Handlers : docroot[h] # "none" /\ docroot[h] \notin helperIn

ImportedIsHelper ==
    \A h \in Handlers : imported[h] # "none" => imported[h] = helper

ImportInv ==
    /\ SystemComesLast /\ RootIsOnPath /\ HelperIsExplained /\ ImportedIsHelper

LoadingInv == AppInv /\ ImportInv
-----------------------------------------------------------------------------
(* Types. *)

LEMMA PathType ==
  ASSUME NEW dir \in Docroots, TypesOK
  PROVE  /\ PathWith(dir) \in Seq(Paths)
         /\ EnvironmentPaths \in Seq(environment)
<1>1. \A d : Present(d) \in Seq(environment)
  BY EmptySeq DEF Present
<1>2. EnvironmentPaths \in Seq(environment)
  BY <1>1, ConcatProperties DEF EnvironmentPaths
<1>3. environment \subseteq Paths /\ dir \in Paths
  BY DEF TypesOK, Paths
<1>4. <<dir>> \in Seq(Paths) /\ sysPath \in Seq(Paths)
  BY <1>3 DEF TypesOK
<1>5. EnvironmentPaths \in Seq(Paths)
  BY <1>2, <1>3
<1>6. EnvironmentPaths \o <<dir>> \in Seq(Paths)
  BY <1>4, <1>5, ConcatProperties
<1>7. QED
  BY <1>2, <1>4, <1>6, ConcatProperties DEF PathWith

\* A set of numbers that is not empty has a least one: of the intervals that
\* end at its elements, one has none of the others inside it.
LEMMA LeastElement ==
  ASSUME NEW S, S \subseteq Nat, S # {}
  PROVE  \E i \in S : \A j \in S : i <= j
<1> DEFINE T == {1..i : i \in S}
<1>1. T \subseteq FiniteSubsetsOf(Nat)
  <2>1. \A i \in S : 1..i \subseteq Nat /\ IsFiniteSet(1..i)
    BY FS_Interval
  <2>2. QED
    BY <2>1 DEF FiniteSubsetsOf
<1>2. PICK t \in T : \A u \in T : ~ (<<u, t>> \in StrictSubsetOrdering(Nat))
  <2>1. T # {}
    OBVIOUS
  <2>2. IsWellFoundedOn(StrictSubsetOrdering(Nat), FiniteSubsetsOf(Nat))
    BY FS_StrictSubsetOrderingWellFounded
  <2> HIDE DEF T
  <2>3. QED
    BY <1>1, <2>1, <2>2, WFMin
<1>3. PICK i \in S : t = 1..i
  OBVIOUS
<1>4. ASSUME NEW j \in S, ~(i <= j)
      PROVE  FALSE
  <2>1. i \in Nat /\ j \in Nat /\ j < i
    BY <1>4
  <2>2. 1..j \subseteq 1..i /\ i \in 1..i /\ i \notin 1..j
    BY <2>1
  <2>3. 1..j \in SUBSET Nat /\ 1..i \in SUBSET Nat /\ 1..j # 1..i
    BY <2>2
  <2>4. <<1..j, t>> \in StrictSubsetOrdering(Nat)
    BY <1>3, <2>2, <2>3 DEF StrictSubsetOrdering
  <2>5. QED
    BY <1>2, <2>4
<1>5. QED
  BY <1>4

\* The first directory on the path that has the helper.
LEMMA FirstProviderIsFirst ==
  ASSUME TypesOK, Providers # {}
  PROVE  \E i \in Providers : /\ FirstProvider = sysPath[i]
                              /\ \A j \in Providers : i <= j
<1>1. Providers \subseteq Nat
  BY DEF Providers, TypesOK
<1>2. \E k \in Providers : \A j \in Providers : k <= j
  BY <1>1, LeastElement
<1>3. QED
  BY <1>2 DEF FirstProvider

LEMMA NewTypes ==
  ASSUME TypesOK, NEW h \in Handlers, NEW value \in TargetValues, NEW dir \in Codes,
         New(h, value, dir)
  PROVE  /\ TypesOK'
         /\ docroot'[h] \in IF stage'[h] = "load" THEN Docroots ELSE {docroot[h]}
<1> USE DEF TypesOK
<1>1. DocrootOf(dir) \in Docroots
  BY LoadingAssumption DEF DocrootOf, Codes
<1>2. IsTarget(value) => TargetOf(value) \in Targets
  BY DEF Targets
<1>3. "load" \in Stages /\ "failed" \in Stages
  BY DEF Stages
<1>4. UNCHANGED <<environment, helperIn, modules, globals, sysPath, helper, imported,
                  app>>
  BY DEF New
<1>5. CASE IsTarget(value)
  <2>1. /\ target' = [target EXCEPT ![h] = TargetOf(value)]
        /\ docroot' = [docroot EXCEPT ![h] = DocrootOf(dir)]
        /\ stage' = [stage EXCEPT ![h] = "load"]
    BY <1>5 DEF New, Goto
  <2>2. QED
    BY <1>1, <1>2, <1>3, <1>4, <1>5, <2>1 DEF Codes
<1>6. CASE ~IsTarget(value)
  <2>1. /\ UNCHANGED <<target, docroot>>
        /\ stage' = [stage EXCEPT ![h] = "failed"]
    BY <1>6 DEF New, Goto
  <2>2. QED
    BY <1>3, <1>4, <2>1
<1>7. QED
  BY <1>5, <1>6

\* What Load does when it finds the file.
Found(h) ==
    /\ stage[h] = "load"
    /\ target[h].file \in Files
    /\ stage' = [stage EXCEPT ![h] = "config"]
    /\ sysPath' = PathWith(docroot[h])
    /\ UNCHANGED <<environment, helperIn, helper, docroot, target, imported>>

FoundFresh(h) ==
    /\ Found(h)
    /\ modules[target[h].file] = 0
    /\ globals' = Append(globals, Unbound)
    /\ modules' = [modules EXCEPT ![target[h].file] = Len(globals) + 1]
    /\ app' = [app EXCEPT ![h].space = Len(globals) + 1]

FoundUsed(h) ==
    /\ Found(h)
    /\ modules[target[h].file] # 0
    /\ UNCHANGED <<globals, modules>>
    /\ app' = [app EXCEPT ![h].space = modules[target[h].file]]

\* A construction fails: a module may have been taken out, or, if it does not
\* get as far as running one, sys.path been set up.
Fails(h) ==
    /\ stage[h] # "new"
    /\ stage' = [stage EXCEPT ![h] = "failed"]
    /\ modules' = modules \/ (/\ target[h].file \in Files
                              /\ modules' = [modules EXCEPT ![target[h].file] = 0])
    /\ \/ sysPath' = sysPath
       \/ stage[h] = "load" /\ sysPath' = PathWith(docroot[h])
    /\ UNCHANGED <<environment, helperIn, helper, globals, docroot, target,
                   imported, app>>

\* The code of the module binds one of its two names.
Binds(h, name) ==
    /\ stage[h] = IF name = "config" THEN "config" ELSE "define"
    /\ stage' = [stage EXCEPT ![h] = IF name = "config" THEN "import" ELSE "lookup"]
    /\ Bind(h, name)
    /\ UNCHANGED <<environment, helperIn, sysPath, helper, modules, docroot, target,
                   imported, app>>

\* The target's function is found.
LoadsApp(h) ==
    /\ stage[h] = "lookup"
    /\ modules[target[h].file] # 0
    /\ globals[modules[target[h].file]].app # "none"
    /\ app' = [app EXCEPT ![h] = Function(modules[target[h].file])]
    /\ stage' = [stage EXCEPT ![h] = "loaded"]
    /\ UNCHANGED <<environment, helperIn, sysPath, helper, globals, modules, docroot,
                   target, imported>>

LEMMA LoadSteps ==
  ASSUME TypesOK, StagesInOrder, NEW h \in Handlers, Load(h) \/ LoadFails(h)
  PROVE  FoundFresh(h) \/ FoundUsed(h) \/ Fails(h)
<1>1. CASE LoadFails(h)
  BY <1>1 DEF LoadFails, Goto, Fails
<1>2. CASE Load(h)
  <2>1. Found(h)
    BY <1>2 DEF Load, Goto, Found
  <2>2. CASE modules[target[h].file] = 0
    <3>1. /\ globals' = Append(globals, Unbound)
          /\ modules' = [modules EXCEPT ![target[h].file] = Len(globals) + 1]
          /\ app' = [app EXCEPT ![h].space = modules'[target[h].file]]
      BY <1>2, <2>2 DEF Load, ModuleName
    <3>2. modules'[target[h].file] = Len(globals) + 1
      BY <1>2, <3>1 DEF Load, TypesOK
    <3>3. QED
      BY <2>1, <2>2, <3>1, <3>2 DEF FoundFresh
  <2>3. CASE modules[target[h].file] # 0
    BY <1>2, <2>1, <2>3 DEF Load, ModuleName, FoundUsed
  <2>4. QED
    BY <2>2, <2>3
<1>3. QED
  BY <1>1, <1>2

(* Every step does one of these to the application's namespaces. *)
LEMMA LoadingSteps ==
  ASSUME TypesOK, StagesInOrder, [Next]_vars
  PROVE  \/ \E h \in Handlers :
               \/ \E value \in TargetValues, dir \in Codes : New(h, value, dir)
               \/ FoundFresh(h) \/ FoundUsed(h) \/ Fails(h)
               \/ Binds(h, "config") \/ Binds(h, "app")
               \/ ImportHelper(h) \/ LoadsApp(h)
         \/ UNCHANGED vars
<1>1. ASSUME NEW h \in Handlers, RunModule(h)
      PROVE  \/ Binds(h, "config") \/ Binds(h, "app")
             \/ ImportHelper(h) \/ Fails(h)
  <2>1. CASE SetConfig(h)
    BY <2>1 DEF SetConfig, Binds, Goto
  <2>2. CASE DefineApp(h)
    BY <2>2 DEF DefineApp, Binds, Goto
  <2>3. CASE Raise(h)
    <3>1. Running(h)
      BY <2>3 DEF Raise, Running
    <3>2. target[h].file \in Files
      BY <3>1 DEF StagesInOrder
    <3>3. QED
      BY <2>3, <3>2 DEF Raise, Goto, Fails, ModuleName
  <2>4. QED
    BY <1>1, <2>1, <2>2, <2>3 DEF RunModule
<1>2. ASSUME NEW h \in Handlers, Lookup(h)
      PROVE  LoadsApp(h) \/ Fails(h)
  <2>1. CASE HasFunction(h)
    BY <1>2, <2>1 DEF Lookup, HasFunction, LoadsApp, Goto, ModuleName
  <2>2. CASE ~HasFunction(h)
    BY <1>2, <2>2 DEF Lookup, Fails, Goto
  <2>3. QED
    BY <2>1, <2>2
<1>3. QED
  BY <1>1, <1>2, LoadSteps DEF Next

LEMMA BindEffect ==
  ASSUME TypesOK, StagesInOrder, OneFile, NEW h \in Handlers,
         NEW name \in {"config", "app"}, Binds(h, name)
  PROVE  /\ app[h].space \in 1..Len(globals)
         /\ docroot[h] \in Docroots /\ target[h].file \in Files
         /\ globals' \in Seq(Namespaces) /\ Len(globals') = Len(globals)
         /\ \A space \in 1..Len(globals) :
               \/ globals'[space] = globals[space] /\ space # app[h].space
               \/ /\ space = app[h].space
                  /\ globals'[space].config =
                        IF name = "config" THEN docroot[h] ELSE globals[space].config
                  /\ globals'[space].app =
                        IF name = "app" THEN docroot[h] ELSE globals[space].app
<1>1. Running(h)
  BY DEF Binds, Running
<1>2. docroot[h] \in Docroots /\ target[h].file \in Files /\ app[h].space # 0
  BY <1>1 DEF StagesInOrder
<1>3. app[h].space \in 1..Len(globals)
  BY <1>2 DEF OneFile
<1>4. globals' = [globals EXCEPT ![app[h].space][name] = docroot[h]]
  BY DEF Binds, Bind
<1>5. docroot[h] \in Codes /\ globals \in Seq(Namespaces)
  BY <1>2 DEF Codes, TypesOK
<1>6. globals[app[h].space] \in Namespaces
  BY <1>3, <1>5
<1>7. CASE name = "config"
  <2>1. globals' = [globals EXCEPT ![app[h].space].config = docroot[h]]
    BY <1>4, <1>7
  <2>2. [globals[app[h].space] EXCEPT !.config = docroot[h]] \in Namespaces
    BY <1>5, <1>6 DEF Namespaces
  <2>3. QED
    BY <1>2, <1>3, <1>5, <1>6, <1>7, <2>1, <2>2 DEF Namespaces
<1>8. CASE name = "app"
  <2>1. globals' = [globals EXCEPT ![app[h].space].app = docroot[h]]
    BY <1>4, <1>8
  <2>2. [globals[app[h].space] EXCEPT !.app = docroot[h]] \in Namespaces
    BY <1>5, <1>6 DEF Namespaces
  <2>3. QED
    BY <1>2, <1>3, <1>5, <1>6, <1>8, <2>1, <2>2 DEF Namespaces
<1>9. QED
  BY <1>7, <1>8

LEMMA LoadsEffect ==
  ASSUME TypesOK, StagesInOrder, OneFile, NEW h \in Handlers, LoadsApp(h)
  PROVE  /\ target[h].file \in Files
         /\ modules[target[h].file] \in 1..Len(globals)
         /\ globals[modules[target[h].file]].app \in Codes \ {"none"}
         /\ app' = [app EXCEPT ![h] = [space |-> modules[target[h].file],
                                       code |-> globals[modules[target[h].file]].app]]
         /\ app' \in [Handlers -> Apps]
<1>1. target[h].file \in Files
  <2>1. Running(h)
    BY DEF LoadsApp, Running
  <2>2. QED
    BY <2>1 DEF StagesInOrder
<1>2. modules[target[h].file] \in 1..Len(globals)
  BY <1>1 DEF LoadsApp, OneFile
<1>3. globals[modules[target[h].file]] \in Namespaces
  BY <1>2 DEF TypesOK
<1>4. globals[modules[target[h].file]].app \in Codes \ {"none"}
  BY <1>3 DEF LoadsApp, Namespaces
<1>5. app' = [app EXCEPT ![h] = [space |-> modules[target[h].file],
                                 code |-> globals[modules[target[h].file]].app]]
  BY DEF LoadsApp, Function
<1>6. app' \in [Handlers -> Apps]
  BY <1>2, <1>4, <1>5 DEF TypesOK, Apps
<1>7. QED
  BY <1>1, <1>2, <1>4, <1>5, <1>6

LEMMA TypesStep ==
  ASSUME TypesOK, StagesInOrder, OneFile, [Next]_vars
  PROVE  TypesOK'
<1>1. ASSUME NEW h \in Handlers, FoundFresh(h) \/ FoundUsed(h)
      PROVE  TypesOK'
  <2>1. docroot[h] \in Docroots
    BY <1>1 DEF StagesInOrder, FoundFresh, FoundUsed, Found
  <2>2. sysPath' \in Seq(Paths)
    BY <1>1, <2>1, PathType DEF FoundFresh, FoundUsed, Found
  <2>3. stage' \in [Handlers -> Stages]
    BY <1>1 DEF FoundFresh, FoundUsed, Found, Stages, TypesOK
  <2>4. Unbound \in Namespaces
    BY DEF Unbound, Namespaces, Codes
  <2>5. globals' \in Seq(Namespaces)
    <3>1. globals' = globals \/ globals' = Append(globals, Unbound)
      BY <1>1 DEF FoundFresh, FoundUsed
    <3>2. globals \in Seq(Namespaces)
      BY DEF TypesOK
    <3>3. Append(globals, Unbound) \in Seq(Namespaces)
      BY <2>4, <3>2
    <3>4. QED
      BY <3>1, <3>2, <3>3
  <2>6. modules' \in [Files -> Nat]
    <3>1. Len(globals) + 1 \in Nat /\ target[h].file \in Files
      BY <1>1 DEF FoundFresh, FoundUsed, Found, TypesOK
    <3>2. CASE FoundFresh(h)
      BY <3>1, <3>2 DEF FoundFresh, TypesOK
    <3>3. CASE FoundUsed(h)
      BY <3>3 DEF FoundUsed, TypesOK
    <3>4. QED
      BY <1>1, <3>2, <3>3
  <2>7. \E space \in Nat : app' = [app EXCEPT ![h].space = space]
    <3>1. CASE FoundFresh(h)
      <4>1. app' = [app EXCEPT ![h].space = Len(globals) + 1]
        BY <3>1 DEF FoundFresh
      <4>2. Len(globals) + 1 \in Nat
        BY DEF TypesOK
      <4>3. QED
        BY <4>1, <4>2
    <3>2. CASE FoundUsed(h)
      <4>1. app' = [app EXCEPT ![h].space = modules[target[h].file]]
        BY <3>2 DEF FoundUsed
      <4>2. modules[target[h].file] \in Nat
        BY <3>2 DEF FoundUsed, Found, TypesOK
      <4>3. QED
        BY <4>1, <4>2
    <3>3. QED
      BY <1>1, <3>1, <3>2
  <2>8. app' \in [Handlers -> Apps]
    BY <2>7 DEF TypesOK, Apps
  <2>9. QED
    BY <1>1, <2>2, <2>3, <2>5, <2>6, <2>8 DEF FoundFresh, FoundUsed, Found, TypesOK
<1>2. ASSUME NEW h \in Handlers, Fails(h)
      PROVE  TypesOK'
  <2>1. CASE sysPath' = sysPath
    BY <1>2, <2>1 DEF Fails, TypesOK, Stages
  <2>2. CASE stage[h] = "load" /\ sysPath' = PathWith(docroot[h])
    <3>1. docroot[h] \in Docroots
      BY <2>2 DEF StagesInOrder
    <3>2. sysPath' \in Seq(Paths)
      BY <2>2, <3>1, PathType
    <3>3. QED
      BY <1>2, <3>2 DEF Fails, TypesOK, Stages
  <2>3. QED
    BY <1>2, <2>1, <2>2 DEF Fails
<1>3. ASSUME NEW h \in Handlers, ImportHelper(h)
      PROVE  TypesOK'
  <2>1. helper' \in Helpers
    <3>1. CASE helper # "none"
      BY <1>3, <3>1 DEF ImportHelper, TypesOK
    <3>2. CASE helper = "none"
      <4>1. PICK i \in Providers : FirstProvider = sysPath[i]
        BY <1>3, <3>2, FirstProviderIsFirst DEF ImportHelper
      <4>2. sysPath[i] \in Helpers
        BY DEF Providers, TypesOK, Helpers, Codes
      <4>3. QED
        BY <1>3, <3>2, <4>1, <4>2 DEF ImportHelper
    <3>3. QED
      BY <3>1, <3>2
  <2>2. QED
    BY <1>3, <2>1 DEF ImportHelper, Goto, TypesOK, Stages
<1>4. ASSUME NEW h \in Handlers, NEW name \in {"config", "app"}, Binds(h, name)
      PROVE  TypesOK'
  <2>1. globals' \in Seq(Namespaces)
    BY <1>4, BindEffect
  <2>2. stage' \in [Handlers -> Stages]
    BY <1>4 DEF Binds, TypesOK, Stages
  <2>3. QED
    BY <1>4, <2>1, <2>2 DEF Binds, TypesOK
<1>5. ASSUME NEW h \in Handlers, LoadsApp(h)
      PROVE  TypesOK'
  <2>1. app' \in [Handlers -> Apps]
    BY <1>5, LoadsEffect DEF TypesOK
  <2>2. QED
    BY <1>5, <2>1 DEF LoadsApp, TypesOK, Stages
<1>6. CASE UNCHANGED vars
  BY <1>6 DEF vars, TypesOK
<1>7. QED
  BY <1>1, <1>2, <1>3, <1>4, <1>5, <1>6, NewTypes, LoadingSteps
-----------------------------------------------------------------------------
(* Stages. *)

\* The options of a handler last.
LEMMA OptionsLast ==
  ASSUME TypesOK, StagesInOrder, [Next]_vars, NEW g \in Handlers
  PROVE  /\ docroot[g] # "none" => docroot'[g] = docroot[g] /\ target'[g] = target[g]
         /\ app[g].space # 0 => target'[g] = target[g]
<1>1. ASSUME NEW h \in Handlers, NEW value \in TargetValues, NEW dir \in Codes,
             New(h, value, dir), g # h
      PROVE  docroot'[g] = docroot[g] /\ target'[g] = target[g]
  BY <1>1 DEF New, TypesOK
<1>2. ASSUME NEW h \in Handlers, NEW value \in TargetValues, NEW dir \in Codes,
             New(h, value, dir), g = h
      PROVE  docroot[g] = "none" /\ app[g].space = 0
  BY <1>2 DEF New, StagesInOrder
<1>3. ASSUME NEW h \in Handlers,
             \/ FoundFresh(h) \/ FoundUsed(h) \/ Fails(h)
             \/ Binds(h, "config") \/ Binds(h, "app")
             \/ ImportHelper(h) \/ LoadsApp(h)
      PROVE  docroot' = docroot /\ target' = target
  BY <1>3 DEF FoundFresh, FoundUsed, Found, Fails, Binds, ImportHelper, LoadsApp
<1>4. CASE UNCHANGED vars
  BY <1>4 DEF vars
<1>5. QED
  BY <1>1, <1>2, <1>3, <1>4, LoadingSteps

\* What a handler is not doing leaves it where it is.
LEMMA StagesStep ==
  ASSUME TypesOK, StagesInOrder, OneFile, [Next]_vars
  PROVE  StagesInOrder'
<1> DEFINE Good(h) ==
      /\ stage[h] = "new" => docroot[h] = "none"
      /\ stage[h] = "load" \/ Running(h) => docroot[h] \in Docroots
      /\ stage[h] \in {"new", "load"} => app[h].space = 0
      /\ Running(h) => app[h].space # 0
      /\ app[h].space # 0 => target[h].file \in Files
<1>1. \A g \in Handlers : Good(g)
  BY DEF StagesInOrder
<1>2. ASSUME NEW g \in Handlers,
             UNCHANGED <<stage[g], docroot[g], target[g], app[g]>>
      PROVE  Good(g)'
  BY <1>1, <1>2 DEF Running
<1>3. ASSUME NEW h \in Handlers, NEW value \in TargetValues, NEW dir \in Codes,
             New(h, value, dir), NEW g \in Handlers
      PROVE  Good(g)'
  <2>1. CASE g # h
    BY <1>2, <1>3, <2>1 DEF New, Goto, TypesOK
  <2>2. CASE g = h
    <3>1. stage[h] = "new" /\ app' = app /\ app[h].space = 0
      BY <1>1, <1>3 DEF New
    <3>2. stage'[h] = "load" \/ stage'[h] = "failed"
      BY <1>3 DEF New, Goto, TypesOK
    <3>3. stage'[h] = "load" => docroot'[h] \in Docroots
      BY <1>3, NewTypes
    <3>4. QED
      BY <2>2, <3>1, <3>2, <3>3 DEF Running
  <2>3. QED
    BY <2>1, <2>2
<1>4. ASSUME NEW h \in Handlers, FoundFresh(h) \/ FoundUsed(h), NEW g \in Handlers
      PROVE  Good(g)'
  <2>1. CASE g # h
    BY <1>2, <1>4, <2>1 DEF FoundFresh, FoundUsed, Found, TypesOK
  <2>2. CASE g = h
    <3>1. /\ UNCHANGED <<docroot, target>> /\ stage'[h] = "config"
          /\ docroot[h] \in Docroots /\ target[h].file \in Files
      BY <1>1, <1>4 DEF FoundFresh, FoundUsed, Found, TypesOK
    <3>2. app'[h].space # 0
      <4>1. CASE FoundFresh(h)
        BY <4>1 DEF FoundFresh, TypesOK, Apps
      <4>2. CASE FoundUsed(h)
        BY <4>2 DEF FoundUsed, TypesOK, Apps
      <4>3. QED
        BY <1>4, <4>1, <4>2
    <3>3. QED
      BY <2>2, <3>1, <3>2 DEF Running
  <2>3. QED
    BY <2>1, <2>2
<1>5. ASSUME NEW h \in Handlers, Fails(h), NEW g \in Handlers
      PROVE  Good(g)'
  <2>1. CASE g # h
    BY <1>2, <1>5, <2>1 DEF Fails, TypesOK
  <2>2. CASE g = h
    <3>1. stage'[h] = "failed" /\ UNCHANGED <<app, target>>
      BY <1>5 DEF Fails, TypesOK
    <3>2. QED
      BY <1>1, <2>2, <3>1 DEF Running
  <2>3. QED
    BY <2>1, <2>2
<1>6. ASSUME NEW h \in Handlers, Binds(h, "config") \/ Binds(h, "app") \/ ImportHelper(h),
             NEW g \in Handlers
      PROVE  Good(g)'
  <2>1. CASE g # h
    BY <1>2, <1>6, <2>1 DEF Binds, ImportHelper, Goto, TypesOK
  <2>2. CASE g = h
    <3>1. stage[h] \in {"config", "import", "define"} /\ stage'[h] \in {"import", "define", "lookup"}
      BY <1>6 DEF Binds, ImportHelper, Goto, TypesOK
    <3>2. UNCHANGED <<docroot, app, target>>
      BY <1>6 DEF Binds, ImportHelper
    <3>3. QED
      BY <1>1, <2>2, <3>1, <3>2 DEF Running
  <2>3. QED
    BY <2>1, <2>2
<1>7. ASSUME NEW h \in Handlers, LoadsApp(h), NEW g \in Handlers
      PROVE  Good(g)'
  <2>1. CASE g # h
    BY <1>2, <1>7, <2>1 DEF LoadsApp, TypesOK
  <2>2. CASE g = h
    <3>1. stage[h] = "lookup" /\ stage'[h] = "loaded" /\ UNCHANGED <<docroot, target>>
      BY <1>7 DEF LoadsApp, TypesOK
    <3>2. app'[h].space # 0 /\ target[h].file \in Files
      BY <1>7, LoadsEffect DEF TypesOK
    <3>3. QED
      BY <1>1, <2>2, <3>1, <3>2 DEF Running
  <2>3. QED
    BY <2>1, <2>2
<1>8. ASSUME UNCHANGED vars, NEW g \in Handlers
      PROVE  Good(g)'
  BY <1>2, <1>8 DEF vars
<1>9. \A g \in Handlers : Good(g)'
  BY <1>3, <1>4, <1>5, <1>6, <1>7, <1>8, LoadingSteps
<1>10. QED
  BY <1>9 DEF StagesInOrder, Running
-----------------------------------------------------------------------------
(* Namespaces: a step keeps them all, ... *)
SpacesInRange ==
    /\ \A file \in Files : modules[file] \in 0..Len(globals)
    /\ \A h \in Handlers : app[h].space \in 0..Len(globals)

NothingNewHeld ==
    \A space \in 1..Len(globals), f \in Files : Holds(f, space)' => Holds(f, space)

SpacesKept ==
    /\ globals' = globals
    /\ SpacesInRange'
    /\ NothingNewHeld

\* ... makes a new one for a file, ...
SpaceMade == \E file \in Files :
    /\ globals' = Append(globals, Unbound)
    /\ SpacesInRange'
    /\ NothingNewHeld
    /\ \A space \in {Len(globals) + 1}, f \in Files : Holds(f, space)' => f = file

\* ... or binds a name in one.
SpaceBound == \E h \in Handlers, name \in {"config", "app"} : Binds(h, name)

LEMMA FreshMakes ==
  ASSUME TypesOK, OneFile, NEW h \in Handlers, FoundFresh(h)
  PROVE  SpaceMade
<1> DEFINE top == Len(globals)
<1>1. /\ top \in Nat /\ target[h].file \in Files /\ target' = target
      /\ modules' = [modules EXCEPT ![target[h].file] = top + 1]
      /\ app' = [app EXCEPT ![h].space = top + 1]
      /\ globals' = Append(globals, Unbound)
  BY DEF FoundFresh, Found, TypesOK
<1>2. /\ \A f \in Files : modules[f] \in 0..top
      /\ \A g \in Handlers : app[g].space \in 0..top
  BY DEF OneFile
<1>3. /\ \A f \in Files : modules'[f] = IF f = target[h].file THEN top + 1 ELSE modules[f]
      /\ \A g \in Handlers : app'[g].space = IF g = h THEN top + 1 ELSE app[g].space
  BY <1>1 DEF TypesOK, Apps
<1> HIDE DEF top
<1>4. SpacesInRange'
  <2>1. /\ \A f \in Files : modules'[f] \in 0..(top + 1)
        /\ \A g \in Handlers : app'[g].space \in 0..(top + 1)
    BY <1>1, <1>2, <1>3
  <2>2. Len(globals') = top + 1
    BY <1>1 DEF TypesOK, top
  <2>3. QED
    BY <2>1, <2>2 DEF SpacesInRange
<1>5. ASSUME NEW space \in 1..top, NEW f \in Files, Holds(f, space)'
      PROVE  Holds(f, space)
  BY <1>1, <1>3, <1>5 DEF Holds
<1>6. ASSUME NEW space \in {top + 1}, NEW f \in Files, Holds(f, space)'
      PROVE  f = target[h].file
  BY <1>1, <1>2, <1>3, <1>6 DEF Holds
<1>7. QED
  BY <1>1, <1>4, <1>5, <1>6 DEF SpaceMade, NothingNewHeld, top
LEMMA OthersKeep ==
  ASSUME TypesOK, StagesInOrder, OneFile, NEW h \in Handlers,
         \/ \E value \in TargetValues, dir \in Codes : New(h, value, dir)
         \/ FoundUsed(h) \/ Fails(h) \/ ImportHelper(h) \/ LoadsApp(h)
  PROVE  SpacesKept
<1>1. /\ \A f \in Files : modules[f] \in 0..Len(globals)
      /\ \A g \in Handlers : app[g].space \in 0..Len(globals)
  BY DEF OneFile
<1>2. CASE \E value \in TargetValues, dir \in Codes : New(h, value, dir)
  <2>1. UNCHANGED <<globals, modules, app>> /\ app[h].space = 0
    BY <1>2 DEF New, StagesInOrder
  <2>2. \A g \in Handlers \ {h} : target'[g] = target[g]
    BY <1>2 DEF New, TypesOK
  <2>3. SpacesInRange'
    BY <1>1, <2>1 DEF SpacesInRange
  <2>4. NothingNewHeld
    BY <2>1, <2>2 DEF NothingNewHeld, Holds
  <2>5. QED
    BY <2>1, <2>3, <2>4 DEF SpacesKept
<1>3. CASE FoundUsed(h) \/ LoadsApp(h)
  <2>1. /\ UNCHANGED <<globals, modules, target>>
        /\ target[h].file \in Files
        /\ \A g \in Handlers \ {h} : app'[g] = app[g]
        /\ app'[h].space = modules[target[h].file]
    <3>1. CASE FoundUsed(h)
      BY <3>1 DEF FoundUsed, Found, TypesOK, Apps
    <3>2. CASE LoadsApp(h)
      <4>1. UNCHANGED <<globals, modules, target>>
        BY <3>2 DEF LoadsApp
      <4>2. /\ target[h].file \in Files
            /\ app' = [app EXCEPT ![h] = [space |-> modules[target[h].file],
                                         code |-> globals[modules[target[h].file]].app]]
        BY <3>2, LoadsEffect
      <4>3. /\ \A g \in Handlers \ {h} : app'[g] = app[g]
            /\ app'[h] = [space |-> modules[target[h].file],
                          code |-> globals[modules[target[h].file]].app]
        BY <4>2 DEF TypesOK
      <4>4. QED
        BY <4>1, <4>2, <4>3
    <3>3. QED
      BY <1>3, <3>1, <3>2
  <2>2. SpacesInRange'
    BY <1>1, <2>1 DEF SpacesInRange
  <2>3. NothingNewHeld
    BY <2>1 DEF NothingNewHeld, Holds
  <2>4. QED
    BY <2>1, <2>2, <2>3 DEF SpacesKept
<1>4. CASE Fails(h) \/ ImportHelper(h)
  <2>1. /\ UNCHANGED <<globals, app, target>>
        /\ \A f \in Files : modules'[f] = modules[f] \/ modules'[f] = 0
    BY <1>4 DEF Fails, ImportHelper, TypesOK
  <2>2. SpacesInRange'
    BY <1>1, <2>1 DEF SpacesInRange
  <2>3. NothingNewHeld
    BY <2>1 DEF NothingNewHeld, Holds
  <2>4. QED
    BY <2>1, <2>2, <2>3 DEF SpacesKept
<1>5. QED
  BY <1>2, <1>3, <1>4

LEMMA SpaceSteps ==
  ASSUME TypesOK, StagesInOrder, OneFile, [Next]_vars
  PROVE  SpacesKept \/ SpaceMade \/ SpaceBound
<1>1. CASE UNCHANGED vars
  <2>1. UNCHANGED <<modules, app, target, globals>>
    BY <1>1 DEF vars
  <2>2. QED
    BY <2>1 DEF OneFile, SpacesKept, SpacesInRange, NothingNewHeld, Holds
<1>2. QED
  BY <1>1, LoadingSteps, FreshMakes, OthersKeep DEF SpaceBound

\* Binding a name leaves the namespaces with their files.
LEMMA BoundEffect ==
  ASSUME TypesOK, StagesInOrder, OneFile, SpaceBound
  PROVE  /\ Len(globals') = Len(globals)
         /\ SpacesInRange' /\ NothingNewHeld
         /\ UNCHANGED app
<1>1. PICK h \in Handlers, name \in {"config", "app"} : Binds(h, name)
  BY DEF SpaceBound
<1>2. UNCHANGED <<modules, app, target>>
  BY <1>1 DEF Binds
<1>3. Len(globals') = Len(globals)
  BY <1>1, BindEffect
<1>4. QED
  BY <1>2, <1>3 DEF OneFile, SpacesInRange, NothingNewHeld, Holds

LEMMA OneFileStep ==
  ASSUME TypesOK, StagesInOrder, OneFile, [Next]_vars
  PROVE  OneFile'
<1>1. \A space \in 1..Len(globals), f \in Files, g \in Files :
         Holds(f, space) /\ Holds(g, space) => f = g
  BY DEF OneFile
<1>2. SpacesInRange' /\ NothingNewHeld
  BY SpaceSteps, BoundEffect DEF SpacesKept, SpaceMade
<1>3. ASSUME NEW space \in 1..Len(globals'), NEW f \in Files, NEW g \in Files,
             Holds(f, space)', Holds(g, space)'
      PROVE  f = g
  <2>1. CASE space \in 1..Len(globals)
    BY <1>1, <1>2, <1>3, <2>1 DEF NothingNewHeld
  <2>2. CASE space \notin 1..Len(globals)
    <3>1. Len(globals') # Len(globals)
      BY <2>2
    <3>2. SpaceMade
      BY <3>1, SpaceSteps, BoundEffect DEF SpacesKept
    <3>3. PICK file \in Files : /\ globals' = Append(globals, Unbound)
                                /\ \A new \in {Len(globals) + 1}, e \in Files : Holds(e, new)' => e = file
      BY <3>2 DEF SpaceMade
    <3>4. space = Len(globals) + 1
      <4>1. globals \in Seq(Namespaces)
        BY DEF TypesOK
      <4>2. Len(globals') = Len(globals) + 1 /\ Len(globals) \in Nat
        BY <3>3, <4>1, AppendProperties
      <4>3. QED
        BY <2>2, <4>2
    <3>5. QED
      BY <1>3, <3>3, <3>4
  <2>3. QED
    BY <2>1, <2>2
<1>4. QED
  BY <1>2, <1>3 DEF OneFile, SpacesInRange
-----------------------------------------------------------------------------
(* What is bound in the namespaces. *)

LEMMA RootsGrow ==
  ASSUME TypesOK, StagesInOrder, [Next]_vars, NEW file
  PROVE  RootsOf(file) \subseteq RootsOf(file)'
<1> SUFFICES ASSUME NEW h \in Handlers, docroot[h] # "none", target[h].file = file
             PROVE  docroot[h] \in RootsOf(file)'
  BY DEF RootsOf
<1>1. docroot'[h] = docroot[h] /\ target'[h] = target[h]
  BY OptionsLast
<1>2. QED
  BY <1>1 DEF RootsOf

\* A namespace that was there has at most one more name bound to a document
\* root of its file; one that was not has none.
LEMMA BindingSteps ==
  ASSUME TypesOK, StagesInOrder, OneFile, [Next]_vars,
         NEW space \in 1..Len(globals')
  PROVE  \/ /\ space \in 1..Len(globals)
            /\ globals'[space] = globals[space]
         \/ space \notin 1..Len(globals) /\ globals'[space] = Unbound
         \/ /\ space \in 1..Len(globals)
            /\ \E h \in Handlers, name \in {"config", "app"} :
                  /\ Binds(h, name)
                  /\ space = app[h].space
<1>1. CASE SpacesKept
  BY <1>1 DEF SpacesKept
<1>2. CASE SpaceMade
  <2>1. globals \in Seq(Namespaces) /\ globals' = Append(globals, Unbound)
    BY <1>2 DEF TypesOK, SpaceMade
  <2>2. /\ Len(globals) \in Nat /\ Len(globals') = Len(globals) + 1
        /\ \A i \in 1..Len(globals) : globals'[i] = globals[i]
        /\ globals'[Len(globals) + 1] = Unbound
    BY <2>1
  <2>3. QED
    BY <2>2
<1>3. CASE SpaceBound
  <2>1. PICK h \in Handlers, name \in {"config", "app"} : Binds(h, name)
    BY <1>3 DEF SpaceBound
  <2>2. /\ Len(globals') = Len(globals)
        /\ globals'[space] = globals[space] \/ space = app[h].space
    BY <2>1, BindEffect
  <2>3. QED
    BY <2>1, <2>2
<1>4. QED
  BY <1>1, <1>2, <1>3, SpaceSteps

LEMMA GlobalsStep ==
  ASSUME TypesOK, StagesInOrder, OneFile, GlobalsAreOfFile, [Next]_vars
  PROVE  GlobalsAreOfFile'
<1> SUFFICES ASSUME NEW space \in 1..Len(globals'), NEW file \in Files, Holds(file, space)'
             PROVE  /\ globals'[space].config \in RootsOf(file)' \cup {"none"}
                    /\ globals'[space].app \in RootsOf(file)' \cup {"none"}
  BY DEF GlobalsAreOfFile
<1>1. RootsOf(file) \subseteq RootsOf(file)'
  BY RootsGrow
<1>2. ASSUME space \in 1..Len(globals)
      PROVE  /\ Holds(file, space)
             /\ globals[space].config \in RootsOf(file) \cup {"none"}
             /\ globals[space].app \in RootsOf(file) \cup {"none"}
  <2>1. Holds(file, space)
    BY <1>2, SpaceSteps, BoundEffect DEF SpacesKept, SpaceMade, NothingNewHeld
  <2>2. QED
    BY <1>2, <2>1 DEF GlobalsAreOfFile
<1>3. CASE space \in 1..Len(globals) /\ globals'[space] = globals[space]
  BY <1>1, <1>2, <1>3
<1>4. CASE globals'[space] = Unbound
  BY <1>4 DEF Unbound
<1>5. ASSUME NEW h \in Handlers, NEW name \in {"config", "app"}, Binds(h, name),
             space \in 1..Len(globals), space = app[h].space
      PROVE  /\ globals'[space].config \in RootsOf(file)' \cup {"none"}
             /\ globals'[space].app \in RootsOf(file)' \cup {"none"}
  <2>1. /\ globals'[space].config \in {globals[space].config, docroot[h]}
        /\ globals'[space].app \in {globals[space].app, docroot[h]}
        /\ docroot[h] \in Docroots /\ target[h].file \in Files
    BY <1>5, BindEffect
  <2>2. target[h].file = file
    <3>1. Holds(target[h].file, space)
      BY <1>5 DEF Holds
    <3>2. QED
      BY <1>2, <1>5, <2>1, <3>1 DEF OneFile
  <2>3. docroot[h] \in RootsOf(file)
    BY <2>1, <2>2, LoadingAssumption DEF RootsOf
  <2>4. QED
    BY <1>1, <1>2, <1>5, <2>1, <2>3
<1>6. QED
  BY <1>3, <1>4, <1>5, BindingSteps

\* A name once bound stays bound.
LEMMA BoundStays ==
  ASSUME TypesOK, StagesInOrder, OneFile, [Next]_vars,
         NEW space \in 1..Len(globals), globals[space].config # "none"
  PROVE  space \in 1..Len(globals') /\ globals'[space].config # "none"
<1>1. Len(globals') >= Len(globals) /\ Len(globals') \in Nat
  <2>1. globals \in Seq(Namespaces)
    BY DEF TypesOK
  <2>2. SpaceMade => Len(globals') = Len(globals) + 1
    BY <2>1 DEF SpaceMade
  <2>3. QED
    BY <2>1, <2>2, SpaceSteps, BoundEffect DEF SpacesKept
<1>2. space \in 1..Len(globals')
  BY <1>1
<1>3. ASSUME NEW h \in Handlers, NEW name \in {"config", "app"}, Binds(h, name)
      PROVE  globals'[space].config # "none"
  <2>1. globals'[space].config \in {globals[space].config, docroot[h]} /\ docroot[h] \in Docroots
    BY <1>3, BindEffect
  <2>2. QED
    BY <2>1, LoadingAssumption
<1>4. QED
  BY <1>2, <1>3, BindingSteps

\* Who runs the module's code had the same namespace before.
LEMMA StageSteps ==
  ASSUME TypesOK, StagesInOrder, OneFile, [Next]_vars, NEW g \in Handlers
  PROVE  /\ stage'[g] \in {"import", "define"} =>
               \/ Binds(g, "config")
               \/ stage[g] \in {"import", "define"} /\ app'[g] = app[g]
         /\ stage'[g] = "loaded" =>
               \/ LoadsApp(g)
               \/ stage[g] = "loaded" /\ app'[g] = app[g]
<1> DEFINE Goal ==
         /\ stage'[g] \in {"import", "define"} =>
               \/ Binds(g, "config")
               \/ stage[g] \in {"import", "define"} /\ app'[g] = app[g]
         /\ stage'[g] = "loaded" =>
               \/ LoadsApp(g)
               \/ stage[g] = "loaded" /\ app'[g] = app[g]
<1>1. ASSUME stage'[g] = stage[g], app'[g] = app[g]
      PROVE  Goal
  BY <1>1
<1>2. ASSUME NEW h \in Handlers, NEW value \in TargetValues, NEW dir \in Codes,
             New(h, value, dir)
      PROVE  Goal
  <2>1. app' = app /\ (g # h => stage'[g] = stage[g]) /\ stage'[h] \in {"load", "failed"}
    BY <1>2 DEF New, Goto, TypesOK
  <2>2. QED
    BY <1>1, <2>1
<1>3. ASSUME NEW h \in Handlers, FoundFresh(h) \/ FoundUsed(h)
      PROVE  Goal
  <2>1. /\ g # h => stage'[g] = stage[g] /\ app'[g] = app[g]
        /\ stage'[h] = "config"
    BY <1>3 DEF FoundFresh, FoundUsed, Found, TypesOK
  <2>2. QED
    BY <1>1, <2>1
<1>4. ASSUME NEW h \in Handlers, Fails(h)
      PROVE  Goal
  <2>1. app' = app /\ (g # h => stage'[g] = stage[g]) /\ stage'[h] = "failed"
    BY <1>4 DEF Fails, TypesOK
  <2>2. QED
    BY <1>1, <2>1
<1>5. ASSUME NEW h \in Handlers, Binds(h, "config")
      PROVE  Goal
  <2>1. app' = app /\ (g # h => stage'[g] = stage[g]) /\ stage'[h] = "import"
    BY <1>5 DEF Binds, TypesOK
  <2>2. QED
    BY <1>1, <1>5, <2>1
<1>6. ASSUME NEW h \in Handlers, Binds(h, "app")
      PROVE  Goal
  <2>1. app' = app /\ (g # h => stage'[g] = stage[g]) /\ stage'[h] = "lookup"
    BY <1>6 DEF Binds, TypesOK
  <2>2. QED
    BY <1>1, <2>1
<1>7. ASSUME NEW h \in Handlers, ImportHelper(h)
      PROVE  Goal
  <2>1. /\ app' = app /\ (g # h => stage'[g] = stage[g])
        /\ stage[h] = "import" /\ stage'[h] = "define"
    BY <1>7 DEF ImportHelper, Goto, TypesOK
  <2>2. QED
    BY <1>1, <2>1
<1>8. ASSUME NEW h \in Handlers, LoadsApp(h)
      PROVE  Goal
  <2>1. stage'[h] = "loaded" /\ (g # h => stage'[g] = stage[g] /\ app'[g] = app[g])
    BY <1>8 DEF LoadsApp, TypesOK
  <2>2. QED
    BY <1>1, <1>8, <2>1
<1>9. CASE UNCHANGED vars
  BY <1>1, <1>9 DEF vars
<1>10. QED
  BY <1>2, <1>3, <1>4, <1>5, <1>6, <1>7, <1>8, <1>9, LoadingSteps

LEMMA ConfigStep ==
  ASSUME TypesOK, StagesInOrder, OneFile, ConfigComesFirst, [Next]_vars
  PROVE  ConfigComesFirst'
<1>1. ASSUME NEW space \in 1..Len(globals'), globals'[space].app # "none"
      PROVE  globals'[space].config # "none"
  <2>1. CASE space \in 1..Len(globals) /\ globals'[space] = globals[space]
    BY <1>1, <2>1 DEF ConfigComesFirst
  <2>2. CASE globals'[space] = Unbound
    BY <1>1, <2>2 DEF Unbound
  <2>3. ASSUME NEW h \in Handlers, NEW name \in {"config", "app"}, Binds(h, name),
               space \in 1..Len(globals), space = app[h].space
        PROVE  globals'[space].config # "none"
    <3>1. CASE name = "config"
      BY <2>3, <3>1, BindEffect, LoadingAssumption
    <3>2. CASE name = "app"
      <4>1. stage[h] = "define"
        BY <2>3, <3>2 DEF Binds
      <4>2. globals[space].config # "none"
        BY <2>3, <4>1 DEF ConfigComesFirst
      <4>3. QED
        BY <2>3, <4>2, BoundStays
    <3>3. QED
      BY <3>1, <3>2
  <2>4. QED
    BY <2>1, <2>2, <2>3, BindingSteps
<1>2. ASSUME NEW g \in Handlers, stage'[g] \in {"import", "define"}
      PROVE  globals'[app'[g].space].config # "none"
  <2>1. CASE Binds(g, "config")
    <3>1. app' = app
      BY <2>1 DEF Binds
    <3>2. QED
      BY <2>1, <3>1, BindEffect, LoadingAssumption
  <2>2. CASE stage[g] \in {"import", "define"} /\ app'[g] = app[g]
    <3>1. app[g].space \in 1..Len(globals)
      BY <2>2 DEF OneFile, StagesInOrder, Running
    <3>2. globals[app[g].space].config # "none"
      BY <2>2 DEF ConfigComesFirst
    <3>3. QED
      BY <2>2, <3>1, <3>2, BoundStays
  <2>3. QED
    BY <1>2, <2>1, <2>2, StageSteps
<1>3. QED
  BY <1>1, <1>2 DEF ConfigComesFirst

LEMMA LoadedStep ==
  ASSUME AppInv, [Next]_vars
  PROVE  LoadedIsOfFile'
<1>0. /\ TypesOK /\ StagesInOrder /\ OneFile /\ GlobalsAreOfFile
      /\ ConfigComesFirst /\ LoadedIsOfFile
  BY DEF AppInv
<1> SUFFICES ASSUME NEW g \in Handlers, stage'[g] = "loaded"
             PROVE  /\ app'[g].code \in RootsOf(target[g].file)'
                    /\ globals'[app'[g].space].config # "none"
  BY DEF LoadedIsOfFile
<1>1. CASE LoadsApp(g)
  <2> DEFINE file == target[g].file
             space == modules[target[g].file]
  <2>1. /\ file \in Files /\ space \in 1..Len(globals)
        /\ globals[space].app # "none"
        /\ app' = [app EXCEPT ![g] = [space |-> space, code |-> globals[space].app]]
    BY <1>0, <1>1, LoadsEffect
  <2>2. app'[g] = [space |-> space, code |-> globals[space].app]
    BY <1>0, <2>1 DEF TypesOK
  <2>3. UNCHANGED <<globals, target>>
    BY <1>1 DEF LoadsApp
  <2>4. Holds(file, space)
    BY <2>1 DEF Holds
  <2>5. globals[space].app \in RootsOf(file) /\ globals[space].config # "none"
    BY <1>0, <2>1, <2>4 DEF GlobalsAreOfFile, ConfigComesFirst
  <2>6. RootsOf(file) \subseteq RootsOf(target[g].file)'
    <3> SUFFICES ASSUME NEW h \in Handlers, docroot[h] # "none", target[h].file = file
                 PROVE  docroot[h] \in RootsOf(target[g].file)'
      BY DEF RootsOf
    <3>1. docroot'[h] = docroot[h] /\ target'[h] = target[h]
      BY <1>0, OptionsLast
    <3>2. QED
      BY <2>3, <3>1 DEF RootsOf
  <2>7. QED
    BY <2>2, <2>3, <2>5, <2>6
<1>2. CASE stage[g] = "loaded" /\ app'[g] = app[g]
  <2>1. app[g].space # 0 /\ app[g].space \in 1..Len(globals)
    BY <1>0, <1>2 DEF StagesInOrder, Running, OneFile
  <2>2. target'[g] = target[g]
    BY <1>0, <2>1, OptionsLast
  <2>3. globals'[app[g].space].config # "none"
    BY <1>0, <1>2, <2>1, BoundStays DEF LoadedIsOfFile
  <2>4. PICK h \in Handlers : /\ docroot[h] # "none" /\ target[h].file = target[g].file
                              /\ app[g].code = docroot[h]
    BY <1>0, <1>2 DEF LoadedIsOfFile, RootsOf
  <2>5. docroot'[h] = docroot[h] /\ target'[h] = target[h]
    BY <1>0, <2>4, OptionsLast
  <2>6. app'[g].code \in RootsOf(target[g].file)'
    BY <1>2, <2>2, <2>4, <2>5 DEF RootsOf
  <2>7. QED
    BY <1>2, <2>3, <2>6
<1>3. QED
  BY <1>0, <1>1, <1>2, StageSteps
-----------------------------------------------------------------------------
(* sys.path and the imports. *)

\* The new path has n directories in front of the old one, the last its root.
PutInFront(n, dir) ==
    /\ PathWith(dir) \in Seq(Paths)
    /\ Len(PathWith(dir)) = n + Len(sysPath)
    /\ \A i \in 1..n : PathWith(dir)[i] \in environment \cup {dir}
    /\ PathWith(dir)[n] = dir
    /\ \A i \in 1..Len(sysPath) : PathWith(dir)[n + i] = sysPath[i]

LEMMA PathElements ==
  ASSUME TypesOK, NEW dir \in Docroots
  PROVE  \E n \in Nat \ {0} : PutInFront(n, dir)
<1> DEFINE E == EnvironmentPaths
           F == E \o <<dir>>
           n == Len(E) + 1
<1>1. E \in Seq(environment) /\ sysPath \in Seq(Paths)
  BY PathType DEF TypesOK
<1>2. environment \cup {dir} \subseteq Paths
  BY DEF TypesOK, Paths
<1>3. Len(E) \in Nat /\ \A i \in 1..Len(E) : E[i] \in environment
  BY <1>1
<1>4. <<dir>> \in Seq(Paths) /\ E \in Seq(Paths)
  BY <1>1, <1>2
<1> HIDE DEF E
<1>5. /\ F \in Seq(Paths) /\ Len(F) = n
      /\ \A i \in 1..n : F[i] = IF i <= Len(E) THEN E[i] ELSE <<dir>>[i - Len(E)]
  BY <1>3, <1>4, ConcatProperties
<1>6. F[n] = dir /\ \A i \in 1..n : F[i] \in environment \cup {dir}
  BY <1>3, <1>5
<1> HIDE DEF F
<1>7. PathWith(dir) = F \o sysPath
  <2>1. PathWith(dir) = E \o (<<dir>> \o sysPath)
    BY DEF PathWith, E
  <2>2. QED
    BY <1>1, <1>4, <2>1, ConcatAssociative DEF F
<1>8. /\ PathWith(dir) \in Seq(Paths)
      /\ Len(PathWith(dir)) = n + Len(sysPath)
      /\ \A i \in 1..n : PathWith(dir)[i] = F[i]
      /\ \A i \in 1..Len(sysPath) : PathWith(dir)[n + i] = sysPath[i]
  <2>1. Len(sysPath) \in Nat
    BY <1>1
  <2>2. /\ PathWith(dir) \in Seq(Paths)
        /\ Len(PathWith(dir)) = n + Len(sysPath)
        /\ \A i \in 1..(n + Len(sysPath)) : PathWith(dir)[i] =
              IF i <= n THEN F[i] ELSE sysPath[i - n]
    <3>1. F \in Seq(Paths) /\ Len(F) = n
      BY <1>5
    <3>2. /\ F \o sysPath \in Seq(Paths)
          /\ Len(F \o sysPath) = Len(F) + Len(sysPath)
          /\ \A i \in 1..(Len(F) + Len(sysPath)) : (F \o sysPath)[i] =
                IF i <= Len(F) THEN F[i] ELSE sysPath[i - Len(F)]
      BY <1>1, <3>1, ConcatProperties
    <3>3. QED
      BY <1>7, <3>1, <3>2
  <2>3. ASSUME NEW i \in 1..Len(sysPath)
        PROVE  PathWith(dir)[n + i] = sysPath[i]
    <3>1. n + i \in 1..(n + Len(sysPath)) /\ ~(n + i <= n) /\ (n + i) - n = i
      BY <1>3, <2>1
    <3>2. QED
      BY <2>2, <3>1
  <2>4. \A i \in 1..n : i \in 1..(n + Len(sysPath)) /\ i <= n
    BY <1>3, <2>1
  <2>5. QED
    BY <2>2, <2>3, <2>4
<1>9. n \in Nat \ {0}
  BY <1>3
<1>10. PutInFront(n, dir)
  BY <1>6, <1>8, <1>9 DEF PutInFront
<1>11. QED
  BY <1>9, <1>10

\* The set-up of sys.path puts the handler's document root in front.
SetsPath(h) ==
    /\ docroot[h] \in Docroots
    /\ sysPath' = PathWith(docroot[h])
    /\ UNCHANGED docroot

LEMMA PathSteps ==
  ASSUME TypesOK, StagesInOrder, [Next]_vars
  PROVE  /\ UNCHANGED <<environment, helperIn>>
         /\ Roots \subseteq Roots'
         /\ \/ sysPath' = sysPath
            \/ \E h \in Handlers : SetsPath(h)
<1>1. Roots \subseteq Roots'
  <2> SUFFICES ASSUME NEW h \in Handlers, docroot[h] # "none"
               PROVE  docroot[h] \in Roots'
    BY DEF Roots
  <2>1. docroot'[h] = docroot[h]
    BY OptionsLast
  <2>2. QED
    BY <2>1 DEF Roots
<1>2. ASSUME NEW h \in Handlers, NEW value \in TargetValues, NEW dir \in Codes,
             New(h, value, dir)
      PROVE  UNCHANGED <<environment, helperIn, sysPath>>
  BY <1>2 DEF New
<1>3. ASSUME NEW h \in Handlers,
             \/ Binds(h, "config") \/ Binds(h, "app")
             \/ ImportHelper(h) \/ LoadsApp(h)
      PROVE  UNCHANGED <<environment, helperIn, sysPath>>
  BY <1>3 DEF Binds, ImportHelper, LoadsApp
<1>4. ASSUME NEW h \in Handlers, FoundFresh(h) \/ FoundUsed(h) \/ Fails(h)
      PROVE  /\ UNCHANGED <<environment, helperIn>>
             /\ sysPath' = sysPath \/ SetsPath(h)
  BY <1>4 DEF FoundFresh, FoundUsed, Found, Fails, SetsPath, StagesInOrder
<1>5. ASSUME UNCHANGED vars
      PROVE  UNCHANGED <<environment, helperIn, sysPath>>
  BY <1>5 DEF vars
<1>6. QED
  BY <1>1, <1>2, <1>3, <1>4, <1>5, LoadingSteps

\* A document root put in front is that of a handler.
LEMMA SetsRoot ==
  ASSUME NEW h \in Handlers, SetsPath(h)
  PROVE  docroot[h] \in Roots
BY LoadingAssumption DEF SetsPath, Roots

\* A handler whose file is found finds its root in front.
LEMMA FoundPath ==
  ASSUME TypesOK, StagesInOrder, NEW h \in Handlers, FoundFresh(h) \/ FoundUsed(h)
  PROVE  /\ SetsPath(h)
         /\ \A g \in Handlers \ {h} : stage'[g] = stage[g]
<1>1. Found(h)
  BY DEF FoundFresh, FoundUsed
<1>2. docroot[h] \in Docroots
  BY <1>1 DEF Found, StagesInOrder
<1>3. QED
  BY <1>1, <1>2 DEF Found, SetsPath, TypesOK

LEMMA SystemStep ==
  ASSUME TypesOK, StagesInOrder, SystemComesLast, [Next]_vars
  PROVE  SystemComesLast'
<1>1. environment' = environment /\ Roots \subseteq Roots'
  BY PathSteps
<1>2. CASE sysPath' = sysPath
  BY <1>1, <1>2 DEF SystemComesLast
<1>3. ASSUME NEW h \in Handlers, SetsPath(h)
      PROVE  SystemComesLast'
  <2>0. PICK n \in Nat \ {0} : PutInFront(n, docroot[h])
    BY <1>3, PathElements DEF SetsPath
  <2>1. /\ PathWith(docroot[h]) \in Seq(Paths)
        /\ Len(PathWith(docroot[h])) = n + Len(sysPath)
        /\ \A i \in 1..n : PathWith(docroot[h])[i] \in environment \cup {docroot[h]}
        /\ \A i \in 1..Len(sysPath) : PathWith(docroot[h])[n + i] = sysPath[i]
    BY <2>0 DEF PutInFront
  <2>2. sysPath' = PathWith(docroot[h]) /\ docroot[h] \in Roots
    BY <1>3, SetsRoot DEF SetsPath
  <2>3. /\ Len(sysPath) \in Nat /\ Len(sysPath) > 0
        /\ \A i \in 1..Len(sysPath) :
              sysPath[i] \in environment \cup Roots \/ i = Len(sysPath)
    BY DEF TypesOK, SystemComesLast
  <2>4. Len(sysPath') = n + Len(sysPath) /\ Len(sysPath') > 0
    BY <2>1, <2>2, <2>3
  <2>5. ASSUME NEW i \in 1..Len(sysPath')
        PROVE  sysPath'[i] \in environment \cup Roots \/ i = Len(sysPath')
    <3>1. CASE i <= n
      BY <2>1, <2>2, <2>4, <3>1
    <3>2. CASE ~(i <= n)
      <4>1. i - n \in 1..Len(sysPath) /\ n + (i - n) = i
        BY <2>3, <2>4, <3>2
      <4>2. sysPath'[i] = sysPath[i - n]
        BY <2>1, <2>2, <4>1
      <4>3. i - n = Len(sysPath) => i = Len(sysPath')
        BY <2>3, <2>4, <4>1
      <4>4. QED
        BY <2>3, <4>1, <4>2, <4>3
    <3>3. QED
      BY <3>1, <3>2
  <2>6. QED
    BY <1>1, <2>4, <2>5 DEF SystemComesLast
<1>4. QED
  BY <1>2, <1>3, PathSteps

LEMMA RootStep ==
  ASSUME TypesOK, StagesInOrder, OneFile, RootIsOnPath, [Next]_vars
  PROVE  RootIsOnPath'
<1> SUFFICES ASSUME NEW g \in Handlers, Running(g)'
             PROVE  \E i \in 1..Len(sysPath') : sysPath'[i] = docroot'[g]
  BY DEF RootIsOnPath
<1>1. CASE Running(g)
  <2>1. docroot'[g] = docroot[g]
    <3>1. docroot[g] # "none"
      BY <1>1, LoadingAssumption DEF StagesInOrder
    <3>2. QED
      BY <3>1, OptionsLast
  <2>2. PICK i \in 1..Len(sysPath) : sysPath[i] = docroot[g]
    BY <1>1 DEF RootIsOnPath
  <2>3. CASE sysPath' = sysPath
    BY <2>1, <2>2, <2>3
  <2>4. ASSUME NEW h \in Handlers, SetsPath(h)
        PROVE  \E k \in 1..Len(sysPath') : sysPath'[k] = docroot'[g]
    <3>0. PICK n \in Nat \ {0} : PutInFront(n, docroot[h])
      BY <2>4, PathElements DEF SetsPath
    <3>1. /\ Len(PathWith(docroot[h])) = n + Len(sysPath)
          /\ \A k \in 1..Len(sysPath) : PathWith(docroot[h])[n + k] = sysPath[k]
      BY <3>0 DEF PutInFront
    <3>2. Len(sysPath) \in Nat /\ sysPath' = PathWith(docroot[h])
      BY <2>4 DEF SetsPath, TypesOK
    <3>3. n + i \in 1..Len(sysPath')
      BY <3>1, <3>2
    <3>4. QED
      BY <2>1, <2>2, <3>1, <3>2, <3>3
  <2>5. QED
    BY <2>3, <2>4, PathSteps
<1>2. CASE ~Running(g)
  <2>1. FoundFresh(g) \/ FoundUsed(g)
    <3>1. ASSUME NEW h \in Handlers, NEW value \in TargetValues, NEW dir \in Codes,
                 New(h, value, dir)
          PROVE  FALSE
      <4>1. stage'[g] = stage[g] \/ stage'[g] \in {"load", "failed"}
        BY <3>1 DEF New, Goto, TypesOK
      <4>2. QED
        BY <1>2, <4>1 DEF Running
    <3>2. ASSUME NEW h \in Handlers, FoundFresh(h) \/ FoundUsed(h), h # g
          PROVE  FALSE
      BY <1>2, <3>2, FoundPath DEF Running
    <3>3. ASSUME NEW h \in Handlers, Fails(h)
          PROVE  FALSE
      <4>1. stage'[g] = stage[g] \/ stage'[g] = "failed"
        BY <3>3 DEF Fails, TypesOK
      <4>2. QED
        BY <1>2, <4>1 DEF Running
    <3>4. ASSUME NEW h \in Handlers,
                 \/ Binds(h, "config") \/ Binds(h, "app")
                 \/ ImportHelper(h) \/ LoadsApp(h)
          PROVE  FALSE
      <4>1. Running(h) /\ (h # g => stage'[g] = stage[g])
        BY <3>4 DEF Binds, ImportHelper, Goto, LoadsApp, TypesOK, Running
      <4>2. QED
        BY <1>2, <4>1 DEF Running
    <3>5. ~UNCHANGED vars
      BY <1>2 DEF vars, Running
    <3>6. QED
      BY <3>1, <3>2, <3>3, <3>4, <3>5, LoadingSteps
  <2>0. PICK n \in Nat \ {0} : PutInFront(n, docroot[g])
    BY <2>1, FoundPath, PathElements DEF SetsPath
  <2>2. /\ Len(PathWith(docroot[g])) = n + Len(sysPath)
        /\ PathWith(docroot[g])[n] = docroot[g]
    BY <2>0 DEF PutInFront
  <2>3. /\ Len(sysPath) \in Nat /\ sysPath' = PathWith(docroot[g])
        /\ docroot' = docroot
    BY <2>1, FoundPath DEF SetsPath, TypesOK
  <2>4. n \in 1..Len(sysPath')
    BY <2>2, <2>3
  <2>5. QED
    BY <2>2, <2>3, <2>4
<1>3. QED
  BY <1>1, <1>2
\* An import takes the first directory: the interpreter's own comes behind the
\* importer's document root, which thus does not have the module.
LEMMA ImportFinds ==
  ASSUME TypesOK, StagesInOrder, SystemComesLast, RootIsOnPath,
         NEW h \in Handlers, ImportHelper(h), helper = "none"
  PROVE  \/ helper' \in environment \cup Roots
         \/ docroot[h] # "none" /\ docroot[h] \notin helperIn
<1>1. PICK i \in Providers : /\ FirstProvider = sysPath[i]
                             /\ \A j \in Providers : i <= j
  BY FirstProviderIsFirst DEF ImportHelper
<1>2. helper' = sysPath[i] /\ i \in 1..Len(sysPath) /\ Len(sysPath) \in Nat
  BY <1>1 DEF ImportHelper, Providers, TypesOK
<1>3. Running(h) /\ docroot[h] \in Docroots
  BY DEF ImportHelper, Running, StagesInOrder
<1>4. docroot[h] # "none" /\ docroot[h] \in Roots
  BY <1>3, LoadingAssumption DEF Roots
<1>5. CASE docroot[h] \in helperIn /\ i = Len(sysPath)
  <2>1. PICK j \in 1..Len(sysPath) : sysPath[j] = docroot[h]
    BY <1>3 DEF RootIsOnPath
  <2>2. j \in Providers
    BY <1>5, <2>1 DEF Providers
  <2>3. i = j
    BY <1>1, <1>2, <1>5, <2>2
  <2>4. QED
    BY <1>2, <1>4, <2>1, <2>3
<1>6. CASE i # Len(sysPath)
  BY <1>2, <1>6 DEF SystemComesLast
<1>7. QED
  BY <1>4, <1>5, <1>6

LEMMA HelperSteps ==
  ASSUME TypesOK, StagesInOrder, [Next]_vars
  PROVE  \/ UNCHANGED <<helper, imported>>
         \/ \E h \in Handlers :
               /\ ImportHelper(h)
               /\ \A g \in Handlers : imported'[g] = imported[g] \/ imported'[g] = helper'
               /\ helper # "none" => helper' = helper
<1>1. ASSUME NEW h \in Handlers, NEW value \in TargetValues, NEW dir \in Codes,
             New(h, value, dir)
      PROVE  UNCHANGED <<helper, imported>>
  BY <1>1 DEF New
<1>2. ASSUME NEW h \in Handlers,
             \/ FoundFresh(h) \/ FoundUsed(h) \/ Fails(h)
             \/ Binds(h, "config") \/ Binds(h, "app") \/ LoadsApp(h)
      PROVE  UNCHANGED <<helper, imported>>
  BY <1>2 DEF FoundFresh, FoundUsed, Found, Fails, Binds, LoadsApp
<1>3. ASSUME NEW h \in Handlers, ImportHelper(h)
      PROVE  /\ \A g \in Handlers : imported'[g] = imported[g] \/ imported'[g] = helper'
             /\ helper # "none" => helper' = helper
  BY <1>3 DEF ImportHelper, TypesOK
<1>4. ASSUME UNCHANGED vars
      PROVE  UNCHANGED <<helper, imported>>
  BY <1>4 DEF vars
<1>5. QED
  BY <1>1, <1>2, <1>3, <1>4, LoadingSteps

LEMMA HelperStep ==
  ASSUME TypesOK, StagesInOrder, SystemComesLast, RootIsOnPath,
         HelperIsExplained, ImportedIsHelper, [Next]_vars
  PROVE  HelperIsExplained' /\ ImportedIsHelper'
<1>1. environment' = environment /\ helperIn' = helperIn /\ Roots \subseteq Roots'
  BY PathSteps
<1>2. ASSUME NEW g \in Handlers, docroot[g] # "none", docroot[g] \notin helperIn
      PROVE  HelperIsExplained'
  <2>1. docroot'[g] = docroot[g]
    BY <1>2, OptionsLast
  <2>2. QED
    BY <1>1, <1>2, <2>1 DEF HelperIsExplained
<1>3. ASSUME helper' = helper
      PROVE  HelperIsExplained'
  <2>1. CASE helper \in {"none"} \cup environment \cup Roots
    BY <1>1, <1>3, <2>1 DEF HelperIsExplained
  <2>2. QED
    BY <1>2, <2>1 DEF HelperIsExplained
<1>4. CASE UNCHANGED <<helper, imported>>
  BY <1>3, <1>4 DEF ImportedIsHelper
<1>5. ASSUME NEW h \in Handlers, ImportHelper(h),
             \A g \in Handlers : imported'[g] = imported[g] \/ imported'[g] = helper',
             helper # "none" => helper' = helper
      PROVE  HelperIsExplained' /\ ImportedIsHelper'
  <2>1. HelperIsExplained'
    <3>1. CASE helper = "none" /\ helper' \in environment \cup Roots
      BY <1>1, <3>1 DEF HelperIsExplained
    <3>2. QED
      BY <1>2, <1>3, <1>5, <3>1, ImportFinds
  <2>2. ImportedIsHelper'
    <3>1. ASSUME NEW g \in Handlers, imported'[g] = imported[g], imported'[g] # "none"
          PROVE  imported'[g] = helper'
      BY <1>5, <3>1 DEF ImportedIsHelper
    <3>2. QED
      BY <1>5, <3>1 DEF ImportedIsHelper
  <2>3. QED
    BY <2>1, <2>2
<1>6. QED
  BY <1>4, <1>5, HelperSteps

-----------------------------------------------------------------------------
(* The invariant, and what follows from it. *)

LEMMA InitInv ==
  ASSUME Init
  PROVE  LoadingInv
<1> USE DEF Init
<1>1. TypesOK
  <2>1. NoTarget \in Targets /\ NoApp \in Apps /\ "new" \in Stages
    BY DEF Targets, NoApp, Apps, Codes, Stages
  <2>2. "none" \in Codes /\ "none" \in Helpers /\ "system" \in Paths
    BY DEF Codes, Helpers, Paths
  <2>3. sysPath \in Seq(Paths) /\ globals \in Seq(Namespaces)
    BY <2>2, EmptySeq
  <2>4. /\ environment \subseteq {"venv", "lib", "lib64"}
        /\ helperIn \subseteq Docroots \cup {"lib", "system"}
    OBVIOUS
  <2>5. QED
    BY <2>1, <2>2, <2>3, <2>4 DEF TypesOK
<1>2. StagesInOrder
  BY DEF StagesInOrder, Running, NoApp
<1>3. Len(globals) = 0
  OBVIOUS
<1>4. OneFile /\ GlobalsAreOfFile
  BY <1>3 DEF OneFile, GlobalsAreOfFile, NoApp
<1>5. ConfigComesFirst /\ LoadedIsOfFile
  BY <1>3 DEF ConfigComesFirst, LoadedIsOfFile
<1>6. SystemComesLast /\ RootIsOnPath /\ HelperIsExplained /\ ImportedIsHelper
  <2>1. Len(sysPath) = 1
    OBVIOUS
  <2>2. QED
    BY <2>1 DEF SystemComesLast, RootIsOnPath, Running, HelperIsExplained, ImportedIsHelper
<1>7. QED
  BY <1>1, <1>2, <1>4, <1>5, <1>6 DEF LoadingInv, AppInv, ImportInv

LEMMA InvStep ==
  ASSUME LoadingInv, [Next]_vars
  PROVE  LoadingInv'
<1>1. /\ AppInv /\ TypesOK /\ StagesInOrder /\ OneFile /\ GlobalsAreOfFile
      /\ ConfigComesFirst /\ SystemComesLast /\ RootIsOnPath
      /\ HelperIsExplained /\ ImportedIsHelper
  BY DEF LoadingInv, AppInv, ImportInv
<1>2. AppInv'
  BY <1>1, TypesStep, StagesStep, OneFileStep, GlobalsStep, ConfigStep, LoadedStep
  DEF AppInv
<1>3. ImportInv'
  BY <1>1, SystemStep, RootStep, HelperStep DEF ImportInv
<1>4. QED
  BY <1>2, <1>3 DEF LoadingInv

(* The conjunction of all parts is an invariant of the constructions. *)
THEOREM InvariantHolds == Spec => []LoadingInv
<1>1. Init => LoadingInv
  BY InitInv
<1>2. LoadingInv /\ [Next]_vars => LoadingInv'
  BY InvStep
<1>3. QED
  BY <1>1, <1>2, PTL DEF Spec

(* Every variable keeps its type: sys.path has directories only, and a module *)
(* or an application refers to a namespace that exists.                      *)
THEOREM TypeCorrect == Spec => []TypeOK
<1>1. LoadingInv => TypeOK
  <2> SUFFICES ASSUME LoadingInv PROVE TypeOK
    OBVIOUS
  <2>1. TypesOK /\ OneFile
    BY DEF LoadingInv, AppInv
  <2>2. modules \in [Files -> 0..Len(globals)]
    BY <2>1 DEF TypesOK, OneFile
  <2>3. app \in [Handlers -> [space: 0..Len(globals), code: Codes]]
    <3>1. \A h \in Handlers : app[h] \in [space: 0..Len(globals), code: Codes]
      BY <2>1 DEF TypesOK, OneFile, Apps
    <3>2. QED
      BY <2>1, <3>1 DEF TypesOK
  <2>4. QED
    BY <2>1, <2>2, <2>3 DEF TypeOK, TypesOK, Paths, Helpers, Namespaces, Stages
<1>2. QED
  BY <1>1, InvariantHolds, PTL

(* What Asgi::new loads is the application of the options' own document root, *)
(* with its own globals, as long as nobody else loads a file of that name     *)
(* from another root: sys.modules has one namespace for both.                 *)
THEOREM EveryAppIsItsOwn == Spec => []AppIsOwn
<1>1. LoadingInv => AppIsOwn
  <2> SUFFICES ASSUME LoadingInv, NEW h \in Handlers, stage[h] = "loaded",
                      \A g \in Others(h) : target[g].file # target[h].file
               PROVE  /\ app[h].code = docroot[h]
                      /\ globals[app[h].space].config = docroot[h]
    BY DEF AppIsOwn
  <2>1. /\ TypesOK /\ StagesInOrder /\ OneFile /\ GlobalsAreOfFile /\ LoadedIsOfFile
    BY DEF LoadingInv, AppInv
  <2>2. ASSUME NEW root \in RootsOf(target[h].file)
        PROVE  root = docroot[h]
    <3>1. PICK g \in Handlers : /\ docroot[g] # "none" /\ target[g].file = target[h].file
                                /\ root = docroot[g]
      BY DEF RootsOf
    <3>2. stage[g] # "new"
      BY <2>1, <3>1 DEF StagesInOrder
    <3>3. g \notin Others(h)
      BY <3>1
    <3>4. QED
      BY <3>1, <3>2, <3>3 DEF Others
  <2>3. app[h].space \in 1..Len(globals) /\ target[h].file \in Files
    BY <2>1 DEF StagesInOrder, Running, OneFile
  <2>4. Holds(target[h].file, app[h].space)
    BY DEF Holds
  <2>5. globals[app[h].space].config \in RootsOf(target[h].file)
    BY <2>1, <2>3, <2>4 DEF GlobalsAreOfFile, LoadedIsOfFile
  <2>6. app[h].code \in RootsOf(target[h].file)
    BY <2>1 DEF LoadedIsOfFile
  <2>7. QED
    BY <2>2, <2>5, <2>6
<1>2. QED
  BY <1>1, InvariantHolds, PTL

(* With no other document root about, an application's import is not taken    *)
(* from the interpreter while its document root has the module: Asgi::new     *)
(* puts the root in front.                                                    *)
THEOREM EveryImportIsItsOwn == Spec => []ImportsOwn
<1>1. LoadingInv => ImportsOwn
  <2> SUFFICES ASSUME LoadingInv, NEW h \in Handlers, imported[h] # "none",
                      docroot[h] \in helperIn, Others(h) = {}
               PROVE  imported[h] \in {docroot[h]} \cup environment
    BY DEF ImportsOwn
  <2>1. StagesInOrder /\ HelperIsExplained /\ ImportedIsHelper
    BY DEF LoadingInv, AppInv, ImportInv
  <2>2. ASSUME NEW g \in Handlers, docroot[g] # "none"
        PROVE  docroot[g] = docroot[h]
    <3>1. stage[g] # "new"
      BY <2>1, <2>2 DEF StagesInOrder
    <3>2. g \notin Others(h)
      OBVIOUS
    <3>3. QED
      BY <2>2, <3>1, <3>2 DEF Others
  <2>3. helper \in environment \cup Roots
    BY <2>1, <2>2 DEF HelperIsExplained, ImportedIsHelper
  <2>4. helper \in Roots => helper = docroot[h]
    BY <2>2 DEF Roots
  <2>5. QED
    BY <2>1, <2>3, <2>4 DEF ImportedIsHelper
<1>2. QED
  BY <1>1, InvariantHolds, PTL

=============================================================================
