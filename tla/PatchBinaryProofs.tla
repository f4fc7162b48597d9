-------------------------- MODULE PatchBinaryProofs --------------------------
(***************************************************************************)
(* Proofs about PatchBinary for any number of libraries and directories,   *)
(* any number of runs and a kill after any of their steps.                 *)
(***************************************************************************)
EXTENDS PatchBinary, TLAPS

\* What each step knows about the two files: until the output is opened the
\* binary is complete, and from the end of the copy on the backup is.
FilesFollowStep ==
    /\ step \in {"replaced", "copying", "copied", "written"} => binary.whole
    /\ step \in {"copied", "writing"} => backup.whole

\* A run has no result before its end, and what it is about to write, or has
\* written or found written, is the newest library of the machine.
RunFollowsMachine ==
    /\ step # "done" => result = "none"
    /\ step \in {"replaced", "copying", "copied", "writing"} => NamesNewest(target)
    /\ step = "written" => NamesNewest(binary.link)

PatchInv ==
    /\ PatchTypeOK
    /\ Recoverable
    /\ FilesFollowStep
    /\ RunFollowsMachine
    /\ SuccessIsUsable

-----------------------------------------------------------------------------
(* The search *)

\* Whatever either search finds is installed, and newest among the known names.
LEMMA SearchFindsNewest ==
    ASSUME macos \in BOOLEAN, libs \in [Dirs -> SUBSET Names],
           NEW link \in FindPythonLibrary
    PROVE  link \in Links /\ NamesNewest(link)
  <1> USE DEF Links, NamesNewest, LinkTo, With, KnownFound, Least
  <1>1. Known \subseteq Names /\ SearchPath \subseteq Dirs
    BY PatchAssumption DEF Known, Names, SearchPath
  <1>2. CASE KnownFound # {}
    <2>0. PICK n \in Least(KnownFound) : \E d \in Least(With(n)) : link = LinkTo(n, d)
      BY <1>2 DEF FindPythonLibrary, FindKnown
    <2>1. PICK d \in Least(With(n)) : link = LinkTo(n, d)
      BY <2>0
    <2>2. n \in Known /\ d \in SearchPath /\ n \in libs[d]
      BY <2>1
    <2>3. \A e \in SearchPath : \A m \in Known \cap libs[e] : n <= m
      BY <2>1
    <2>4. QED  BY <1>1, <2>1, <2>2, <2>3
  <1>3. CASE KnownFound = {}
    <2>0. PICK d \in Least(NonEmpty) : \E n \in Least(libs[d]) : link = LinkTo(n, d)
      BY <1>3 DEF FindPythonLibrary, FindAny
    <2>1. PICK n \in Least(libs[d]) : link = LinkTo(n, d)
      BY <2>0
    <2>2. d \in SearchPath /\ n \in libs[d]
      BY <2>1 DEF NonEmpty
    <2>3. \A e \in SearchPath : Known \cap libs[e] = {}
      BY <1>3
    <2>4. QED  BY <1>1, <2>1, <2>2, <2>3
  <1>4. QED  BY <1>2, <1>3

-----------------------------------------------------------------------------
(* The invariant *)

\* It holds before the first run.
LEMMA PatchInitInv == PatchInit => PatchInv
  <1> SUFFICES ASSUME PatchInit
               PROVE  PatchInv
    OBVIOUS
  <1>1. PatchTypeOK
    <2>1. PICK link \in Links :
             binary = [link |-> link, whole |-> TRUE, signed |-> macos]
      BY DEF PatchInit
    <2>2. binary \in Files /\ target \in Links
      BY <2>1 DEF PatchInit, Files
    <2>3. backup \in Files
      BY <2>2 DEF PatchInit, Files, Truncated
    <2>4. QED
      BY <2>2, <2>3 DEF PatchInit, PatchTypeOK
  <1>2. QED
    BY <1>1 DEF PatchInit, PatchInv, Recoverable, FilesFollowStep,
                RunFollowsMachine, SuccessIsUsable

\* Every step preserves the invariant.
LEMMA PatchStepInv == PatchInv /\ [PatchNext]_vars => PatchInv'
  <1> SUFFICES ASSUME PatchInv, [PatchNext]_vars
               PROVE  PatchInv'
    OBVIOUS
  <1> USE DEF PatchInv, PatchTypeOK, Recoverable, FilesFollowStep,
              RunFollowsMachine, SuccessIsUsable, machine, Files, Truncated
  <1>0. ASSUME UNCHANGED machine
        PROVE  \A link : NamesNewest(link)' <=> NamesNewest(link)
    BY <1>0 DEF NamesNewest, SearchPath
  <1>1. CASE UNCHANGED vars
    BY <1>1 DEF vars, NamesNewest, SearchPath
  <1>2. CASE RunFails
    BY <1>2 DEF RunFails, Fails
  <1>3. CASE AlreadyLinked
    <2>1. NamesNewest(binary.link)
      BY <1>3, SearchFindsNewest DEF AlreadyLinked
    <2>2. QED
      BY <1>3, <2>1, <1>0 DEF AlreadyLinked
  <1>4. CASE ReplaceNeeded
    <2>1. target' \in Links /\ NamesNewest(target')
      BY <1>4, SearchFindsNewest DEF ReplaceNeeded
    <2>2. QED
      BY <1>4, <2>1, <1>0 DEF ReplaceNeeded
  <1>5. CASE BeginBackup
    BY <1>5, <1>0 DEF BeginBackup
  <1>6. CASE FinishBackup
    BY <1>6, <1>0 DEF FinishBackup
  <1>7. CASE BackupFails
    BY <1>7, <1>0 DEF BackupFails, Fails
  <1>8. CASE CreateOutput
    BY <1>8, <1>0 DEF CreateOutput
  <1>9. CASE WriteOutput
    BY <1>9, <1>0 DEF WriteOutput
  <1>10. CASE OutputFails
    BY <1>10, <1>0 DEF OutputFails, Fails
  <1>11. CASE Sign
    BY <1>11, <1>0 DEF Sign
  <1>12. CASE Succeed
    BY <1>12, <1>0 DEF Succeed
  <1>13. CASE Crash
    BY <1>13, <1>0 DEF Crash
  <1>14. CASE Reinstall
    BY <1>14, <1>0 DEF Reinstall
  <1>15. CASE ChangePython
    <2>1. step = "idle" /\ UNCHANGED <<macos, binary, backup, target, step, result>>
      BY <1>15 DEF ChangePython
    <2>2. ASSUME NEW d \in Dirs, NEW n \in Names, UNCHANGED venv,
                 libs' = [libs EXCEPT ![d] = IF n \in @ THEN @ \ {n} ELSE @ \cup {n}]
          PROVE  venv' \in BOOLEAN /\ libs' \in [Dirs -> SUBSET Names]
      <3>1. (IF n \in libs[d] THEN libs[d] \ {n} ELSE libs[d] \cup {n}) \in SUBSET Names
        BY <2>2
      <3>2. QED
        BY <2>2, <3>1
    <2>3. ASSUME venv' = ~venv, UNCHANGED libs
          PROVE  venv' \in BOOLEAN /\ libs' \in [Dirs -> SUBSET Names]
      BY <2>3
    <2>4. venv' \in BOOLEAN /\ libs' \in [Dirs -> SUBSET Names]
      BY <1>15, <2>2, <2>3 DEF ChangePython
    <2>5. QED
      BY <2>1, <2>4
  <1>16. QED
    BY <1>1, <1>2, <1>3, <1>4, <1>5, <1>6, <1>7, <1>8, <1>9, <1>10, <1>11, <1>12, <1>13, <1>14, <1>15 DEF PatchNext

-----------------------------------------------------------------------------
(* Theorems *)

\* The invariant holds in every state the tool can leave a machine in.
THEOREM PatchInvHolds == PatchSpec => []PatchInv
  <1>1. PatchInit => PatchInv
    BY PatchInitInv
  <1>2. PatchInv /\ [PatchNext]_vars => PatchInv'
    BY PatchStepInv
  <1>3. QED
    BY <1>1, <1>2, PTL DEF PatchSpec

\* However often the tool is killed, fails and is run again, the binary or its
\* backup is complete (main.rs:507-523, 590-602).
THEOREM AlwaysRecoverable == PatchSpec => []Recoverable
  BY PatchInvHolds, PTL DEF PatchInv

\* A run that reports success leaves a complete binary that depends on the
\* newest library the search knows, signed on macOS unless it warned
\* (main.rs:358-413, fix-python-soname.js:100-120).
THEOREM SuccessMeansUsable == PatchSpec => []SuccessIsUsable
  BY PatchInvHolds, PTL DEF PatchInv

=============================================================================
