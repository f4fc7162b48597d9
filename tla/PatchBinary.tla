----------------------------- MODULE PatchBinary -----------------------------
(***************************************************************************)
(* The post-install tool fix-python-soname, which makes the native binary  *)
(* depend on the Python library of the machine (fix-python-soname/src/     *)
(* main.rs, run by fix-python-soname.js): find a library, rewrite the      *)
(* dependency in memory, copy the file to a backup, write it, and on macOS *)
(* sign it.  The tool may be killed after every file operation, and npm    *)
(* runs it again with every install.                                       *)
(*                                                                         *)
(* Libraries are numbered in the tool's order of preference, directories   *)
(* in the order they are searched.  On Linux the binary names a library;   *)
(* on macOS it names the directory as well.  A parser of ELF or Mach-O     *)
(* files is assumed to refuse a truncated one.                             *)
(***************************************************************************)
EXTENDS Naturals

CONSTANTS
    KnownNames,     \* How many library names the tool tries one by one
    OtherNames,     \* How many it finds only by listing directories
    FixedDirs       \* How many directories it searches in every environment

ASSUME PatchAssumption ==
    /\ KnownNames \in Nat
    /\ OtherNames \in Nat
    /\ FixedDirs \in Nat
    /\ KnownNames + OtherNames > 0

Known == 1..KnownNames
Names == 1..(KnownNames + OtherNames)
Dirs == 0..FixedDirs                    \* 0 is that of a virtual environment
Elsewhere == FixedDirs + 1              \* No directory, or none of these

Links == [name : Names, dir : Dirs \cup {Elsewhere}]
Files == [link : Links, whole : BOOLEAN, signed : BOOLEAN]

VARIABLES
    macos,          \* Whether the binary is a Mach-O file, and not ELF
    venv,           \* Whether VIRTUAL_ENV is set
    libs,           \* The libraries in each directory
    binary,         \* The native binary on disk
    backup,         \* The file next to it; not whole if there is none
    target,         \* The dependency the tool is about to write
    step,           \* How far the tool is
    result          \* How the last run ended, until the next one

machine == <<macos, venv, libs>>
vars == <<machine, binary, backup, target, step, result>>

Truncated(file) == [file EXCEPT !.whole = FALSE, !.signed = FALSE]

PatchInit ==
    /\ macos \in BOOLEAN
    /\ venv \in BOOLEAN
    /\ libs \in [Dirs -> SUBSET Names]
    /\ \E link \in Links :
          /\ macos \/ link.dir = Elsewhere
          /\ binary = [link |-> link, whole |-> TRUE, signed |-> macos]
    /\ backup = Truncated(binary)
    /\ target = binary.link
    /\ step = "idle"
    /\ result = "none"

-----------------------------------------------------------------------------
(* The search *)

\* An active virtual environment is searched before the fixed directories. (The
\* directory of an active conda environment, which the code has before both, is
\* left out: it would be one more that is there or not.)
SearchPath == IF venv THEN Dirs ELSE Dirs \ {0}

\* What a binary has to name to depend on library n of directory d.
LinkTo(n, d) == [name |-> n, dir |-> IF macos THEN d ELSE Elsewhere]

\* The least element of a set of numbers, as a set: empty if there is none.
Least(S) == {x \in S : \A y \in S : x <= y}

\* The directories of the search with library n, and the known names found.
With(n) == {d \in SearchPath : n \in libs[d]}
KnownFound == {n \in Known : With(n) # {}}
NonEmpty == {d \in SearchPath : libs[d] # {}}

\* Both searches go through all directories with the first known name, then
\* with the next one.
FindKnown == UNION {{LinkTo(n, d) : d \in Least(With(n))} : n \in Least(KnownFound)}

\* Then the first directory with any library decides; its newest one is taken.
FindAny == UNION {{LinkTo(n, d) : n \in Least(libs[d])} : d \in Least(NonEmpty)}

\* What is found, as a set: empty if there is no Python.
FindPythonLibrary == IF KnownFound # {} THEN FindKnown ELSE FindAny

-----------------------------------------------------------------------------
(* One run *)

Fails ==
    /\ step' = "done"
    /\ result' = "failed"
    /\ UNCHANGED <<machine, target>>

\* The file is unreadable or no binary any more, no library is found, or one
\* of the steps in memory fails.
RunFails ==
    /\ step = "idle"
    /\ Fails
    /\ UNCHANGED <<binary, backup>>

\* Faulty variant: the script ends at once if there was nothing to write.
AlreadyLinkedExits ==
    /\ step = "idle"
    /\ binary.whole
    /\ binary.link \in FindPythonLibrary
    /\ step' = "done"
    /\ result' = "ok"
    /\ UNCHANGED <<machine, binary, backup, target>>

\* The binary names the library already: success, without touching the file.
AlreadyLinked ==
    /\ step = "idle"
    /\ binary.whole
    /\ binary.link \in FindPythonLibrary
    /\ step' = "written"
    /\ UNCHANGED <<machine, binary, backup, target, result>>

\* The dependency is replaced in memory.
ReplaceNeeded ==
    /\ step = "idle"
    /\ binary.whole
    /\ target' \in FindPythonLibrary \ {binary.link}
    /\ step' = "replaced"
    /\ UNCHANGED <<machine, binary, backup, result>>

\* fs::copy truncates the backup of an earlier run before it copies.
BeginBackup ==
    /\ step = "replaced"
    /\ backup' = Truncated(backup)
    /\ step' = "copying"
    /\ UNCHANGED <<machine, binary, target, result>>

FinishBackup ==
    /\ step = "copying"
    /\ backup' = binary
    /\ step' = "copied"
    /\ UNCHANGED <<machine, binary, target, result>>

BackupFails ==
    /\ step \in {"replaced", "copying"}
    /\ Fails
    /\ UNCHANGED <<binary, backup>>

\* Faulty variant: the output is opened while the backup is being copied.
CreateOutputEarly ==
    /\ step \in {"copying", "copied"}
    /\ binary' = Truncated(binary)
    /\ step' = "writing"
    /\ UNCHANGED <<machine, backup, target, result>>

\* Opening the output truncates the binary.
CreateOutput ==
    /\ step = "copied"
    /\ binary' = Truncated(binary)
    /\ step' = "writing"
    /\ UNCHANGED <<machine, backup, target, result>>

WriteOutput ==
    /\ step = "writing"
    /\ binary' = [link |-> target, whole |-> TRUE, signed |-> FALSE]
    /\ step' = "written"
    /\ UNCHANGED <<machine, backup, target, result>>

\* Opening or writing fails, the latter with a part of the file written.
OutputFails ==
    /\ step \in {"copied", "writing"}
    /\ Fails
    /\ UNCHANGED <<binary, backup>>

\* On macOS the script signs the binary after every run that succeeded; a
\* codesign that fails is a warning.
Sign ==
    /\ step = "written"
    /\ macos
    /\ \/ /\ binary' = [binary EXCEPT !.signed = TRUE]
          /\ result' = "ok"
       \/ /\ binary' = binary
          /\ result' = "warned"
    /\ step' = "done"
    /\ UNCHANGED <<machine, backup, target>>

Succeed ==
    /\ step = "written"
    /\ ~macos
    /\ step' = "done"
    /\ result' = "ok"
    /\ UNCHANGED <<machine, binary, backup, target>>

-----------------------------------------------------------------------------
(* The environment *)

\* The tool is killed; what it did to the files stays.
Crash ==
    /\ step \notin {"idle", "done"}
    /\ step' = "idle"
    /\ UNCHANGED <<machine, binary, backup, target, result>>

\* npm installs or rebuilds, which runs the tool again.
Reinstall ==
    /\ step = "done"
    /\ step' = "idle"
    /\ result' = "none"
    /\ UNCHANGED <<machine, binary, backup, target>>

\* Between two runs a Python is installed or removed, or a virtual
\* environment activated or left.
ChangePython ==
    /\ step = "idle"
    /\ \/ /\ \E d \in Dirs, n \in Names :
                libs' = [libs EXCEPT ![d] = IF n \in @ THEN @ \ {n} ELSE @ \cup {n}]
          /\ UNCHANGED venv
       \/ /\ venv' = ~venv
          /\ UNCHANGED libs
    /\ UNCHANGED <<macos, binary, backup, target, step, result>>

PatchNext ==
    \/ RunFails \/ AlreadyLinked \/ ReplaceNeeded
    \/ BeginBackup \/ FinishBackup \/ BackupFails
    \/ CreateOutput \/ WriteOutput \/ OutputFails
    \/ Sign \/ Succeed
    \/ Crash \/ Reinstall \/ ChangePython

PatchSpec == PatchInit /\ [][PatchNext]_vars

-----------------------------------------------------------------------------
(* Properties *)

\* Every variable has its type.
PatchTypeOK ==
    /\ macos \in BOOLEAN
    /\ venv \in BOOLEAN
    /\ libs \in [Dirs -> SUBSET Names]
    /\ binary \in Files
    /\ backup \in Files
    /\ target \in Links
    /\ step \in {"idle", "replaced", "copying", "copied", "writing", "written", "done"}
    /\ result \in {"none", "ok", "warned", "failed"}

\* Wherever the tool is killed or fails, and however often it is run again, the
\* binary or its backup is a complete file.
Recoverable == binary.whole \/ backup.whole

\* The library is installed where the link points, and no directory has one the
\* tool would rather have: of the known ones none is newer, and another one is
\* used only if there is no known one.
NamesNewest(link) ==
    /\ \E d \in SearchPath : link.name \in libs[d]
    /\ macos => link.dir \in SearchPath /\ link.name \in libs[link.dir]
    /\ \A d \in SearchPath : \A n \in Known \cap libs[d] : link.name <= n

\* A run that reports success leaves a complete binary that depends on the
\* newest library, even if the runs before it were killed; on macOS it is
\* signed unless the tool warned, and a Linux binary is never warned about.
SuccessIsUsable ==
    result \in {"ok", "warned"} =>
        /\ binary.whole
        /\ NamesNewest(binary.link)
        /\ macos /\ result = "ok" => binary.signed
        /\ result = "warned" => macos

=============================================================================
