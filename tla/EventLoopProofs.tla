--------------------------- MODULE EventLoopProofs ---------------------------
(***************************************************************************)
(* Proofs about EventLoopHandle for any number of owners, loops and        *)
(* coroutines.                                                             *)
(***************************************************************************)
EXTENDS EventLoopHandle, SequenceTheorems, TLAPS

\* Owner o has a strong reference to loop l.
Holds(o, l) == held[o] = l /\ o \notin dropping

\* The three parts of the type invariant.
HandleTypes ==
    /\ locked \subseteq Owners
    /\ creating \subseteq locked
    /\ poisoned \in BOOLEAN
    /\ shared \in 0..created
    /\ created \in 0..MaxLoops
    /\ held \in [Owners -> 0..created]
    /\ dropping \subseteq Owners

ThreadTypes ==
    /\ phase \in [Loops -> Phases]
    /\ stopping \in [Loops -> BOOLEAN]
    /\ interrupted \in [Loops -> BOOLEAN]
    /\ woken \in [Loops -> BOOLEAN]

WorkTypes ==
    /\ ready \in [Loops -> Seq(Coroutines)]
    /\ todo \in [Loops -> Nat]
    /\ status \in [Coroutines -> Statuses]
    /\ home \in [Coroutines -> 0..MaxLoops]

\* The mutex: one owner at a time is inside, and it has no loop yet.
CriticalSection ==
    /\ \A o1, o2 \in locked : o1 = o2
    /\ \A o \in locked : held[o] = 0

\* Whoever found nothing to upgrade is still alone when it creates a loop:
\* nobody becomes a holder but through the mutex.
CreatorIsAlone ==
    creating # {} => \A o \in Owners : held[o] # 0 => o \in dropping

\* Strong references are to the loop the weak one names.
HoldersAreShared ==
    \A o \in Owners : held[o] # 0 /\ o \notin dropping => held[o] = shared

\* The last reference stays the last: while the destructor runs, the loop
\* cannot be upgraded any more.
DroppedStaysDropped ==
    \A d \in dropping :
        held[d] # 0 /\ \A o \in Owners : held[o] = held[d] => o \in dropping

HandleInv ==
    /\ HandleTypes
    /\ CriticalSection
    /\ CreatorIsAlone
    /\ HoldersAreShared
    /\ DroppedStaysDropped

\* A loop that was told to stop or has ended has no holder, or one of its
\* applications (or the thread itself) ended it.
StoppedIsUnheld ==
    \A l \in Loops :
        stopping[l] \/ phase[l] = "stopped"
            => interrupted[l] \/ \A o \in Owners : ~Holds(o, l)

\* A loop has a thread exactly when it was created.
ThreadsFollowLoops ==
    \A l \in Loops : /\ phase[l] = "none" <=> l > created
                     /\ l > created => ~stopping[l]

\* What is left of an iteration is at the head of the queue.
BatchIsQueued == \A l \in Loops : todo[l] <= Len(ready[l])

ThreadInv ==
    /\ ThreadTypes
    /\ StoppedIsUnheld
    /\ ThreadsFollowLoops

WorkInv == WorkTypes /\ BatchIsQueued

LoopInv == HandleInv /\ ThreadInv /\ WorkInv

-----------------------------------------------------------------------------
(* Lemmas *)

LEMMA TypesOfParts == TypeOK <=> HandleTypes /\ ThreadTypes /\ WorkTypes
  BY DEF TypeOK, HandleTypes, ThreadTypes, WorkTypes

\* What the set of holders says of an owner.
LEMMA HoldersOfLoop ==
    ASSUME NEW l
    PROVE  /\ Holders(l) = {} <=> \A o \in Owners : ~Holds(o, l)
           /\ \A o \in Owners :
                 Holders(l) = {o} => \A p \in Owners : Holds(p, l) => p = o
  BY DEF Holders, Holds

LEMMA LoopInitInv == Init => LoopInv
  <1> SUFFICES ASSUME Init
               PROVE  LoopInv
    OBVIOUS
  <1> USE LoopAssumption
  <1>1. HandleTypes
    <2>1. locked = {} /\ creating = {} /\ poisoned = FALSE /\ shared = 0
          /\ created = 0 /\ dropping = {}
      BY DEF Init
    <2>2. held \in [Owners -> 0..created]
      BY <2>1 DEF Init
    <2>3. poisoned \in BOOLEAN
      BY <2>1
    <2>4. shared \in 0..created /\ created \in 0..MaxLoops
      BY <2>1
    <2>5. locked \subseteq Owners /\ creating \subseteq locked /\ dropping \subseteq Owners
      BY <2>1
    <2>6. QED
      BY <2>2, <2>3, <2>4, <2>5 DEF HandleTypes
  <1>2. ThreadTypes
    BY DEF Init, ThreadTypes, Phases
  <1>3. HandleInv
    <2>1. CriticalSection
      BY DEF Init, CriticalSection
    <2>2. CreatorIsAlone
      BY DEF Init, CreatorIsAlone
    <2>3. HoldersAreShared
      BY DEF Init, HoldersAreShared
    <2>4. DroppedStaysDropped
      BY DEF Init, DroppedStaysDropped
    <2>5. QED
      BY <1>1, <2>1, <2>2, <2>3, <2>4 DEF HandleInv
  <1>4. StoppedIsUnheld
    BY DEF Init, StoppedIsUnheld
  <1>5. ThreadsFollowLoops
    BY DEF Init, ThreadsFollowLoops, Loops
  <1>6. WorkTypes
    <2>1. ready \in [Loops -> Seq(Coroutines)]
      BY EmptySeq DEF Init
    <2>2. todo \in [Loops -> Nat]
      BY DEF Init
    <2>3. status \in [Coroutines -> Statuses]
      BY DEF Init, Statuses
    <2>4. home \in [Coroutines -> 0..MaxLoops]
      BY DEF Init
    <2>5. QED
      BY <2>1, <2>2, <2>3, <2>4 DEF WorkTypes
  <1>7. BatchIsQueued
    BY DEF Init, BatchIsQueued
  <1>8. QED
    BY <1>2, <1>3, <1>4, <1>5, <1>6, <1>7 DEF LoopInv, ThreadInv, WorkInv

\* A step that leaves the handle side alone keeps its invariant.
LEMMA HandleInvStays ==
    ASSUME HandleInv, UNCHANGED handleVars
    PROVE  HandleInv'
  <1>1. /\ locked' = locked /\ creating' = creating /\ poisoned' = poisoned
        /\ shared' = shared /\ created' = created /\ held' = held
        /\ dropping' = dropping
    BY DEF handleVars
  <1>2. HandleTypes'
    BY <1>1 DEF HandleInv, HandleTypes
  <1>3. CriticalSection' /\ CreatorIsAlone'
    BY <1>1 DEF HandleInv, CriticalSection, CreatorIsAlone
  <1>4. HoldersAreShared' /\ DroppedStaysDropped'
    BY <1>1 DEF HandleInv, HoldersAreShared, DroppedStaysDropped
  <1>5. QED
    BY <1>2, <1>3, <1>4 DEF HandleInv

\* The same for the threads and for the work.
LEMMA ThreadInvStays ==
    ASSUME ThreadInv, UNCHANGED threadVars, UNCHANGED <<created, held, dropping>>
    PROVE  ThreadInv'
  BY DEF ThreadInv, threadVars, ThreadTypes, StoppedIsUnheld, ThreadsFollowLoops, Holds

LEMMA WorkInvStays ==
    ASSUME WorkInv, UNCHANGED workVars
    PROVE  WorkInv'
  BY DEF WorkInv, workVars, WorkTypes, BatchIsQueued

\* A coroutine put behind the queue of a loop, if there is such a loop.
LEMMA QueuedMore ==
    ASSUME WorkInv, NEW c \in Coroutines, NEW h, NEW s \in Statuses,
           ready' = [ready EXCEPT ![h] = Append(@, c)],
           todo' = todo,
           status' = [status EXCEPT ![c] = s],
           home' \in [Coroutines -> 0..MaxLoops]
    PROVE  WorkInv'
  <1>1. /\ ready \in [Loops -> Seq(Coroutines)] /\ todo \in [Loops -> Nat]
        /\ status \in [Coroutines -> Statuses]
        /\ \A k \in Loops : todo[k] <= Len(ready[k])
    BY DEF WorkInv, WorkTypes, BatchIsQueued
  <1>2. \A k \in Loops : /\ Append(ready[k], c) \in Seq(Coroutines)
                         /\ Len(Append(ready[k], c)) = Len(ready[k]) + 1
                         /\ Len(ready[k]) \in Nat
    BY <1>1
  <1>3. ready' \in [Loops -> Seq(Coroutines)]
    BY <1>1, <1>2
  <1>4. \A k \in Loops : todo[k] <= Len(ready'[k])
    BY <1>1, <1>2
  <1>5. status' \in [Coroutines -> Statuses]
    BY <1>1
  <1>6. QED
    BY <1>1, <1>3, <1>4, <1>5 DEF WorkInv, WorkTypes, BatchIsQueued

\* What the loop's thread does to the handles, its phase and its flags: it is
\* told to stop, or ends, only where it was told to before or the step marks it
\* as interrupted.
LEMMA ThreadEffects ==
    ASSUME ThreadInv, NEW l \in Loops, LoopThread(l)
    PROVE  /\ UNCHANGED handleVars
           /\ ThreadTypes'
           /\ \A k \in Loops :
                 /\ phase'[k] = "none" <=> phase[k] = "none"
                 /\ stopping'[k] => stopping[k] \/ phase[k] # "none"
                 /\ interrupted[k] => interrupted'[k]
                 /\ stopping'[k] \/ phase'[k] = "stopped"
                       => stopping[k] \/ phase[k] = "stopped" \/ interrupted'[k]
  <1>1. /\ phase \in [Loops -> Phases] /\ stopping \in [Loops -> BOOLEAN]
        /\ interrupted \in [Loops -> BOOLEAN] /\ woken \in [Loops -> BOOLEAN]
    BY DEF ThreadInv, ThreadTypes
  <1>2. CASE Start(l)
    BY <1>1, <1>2 DEF Start, ThreadTypes, Phases
  <1>3. CASE Poll(l)
    BY <1>1, <1>3 DEF Poll, ThreadTypes, Phases
  <1>4. CASE Wakeup(l)
    BY <1>1, <1>4 DEF Wakeup, ThreadTypes, Phases
  <1>5. CASE TakeBatch(l)
    BY <1>1, <1>5 DEF TakeBatch, ThreadTypes, Phases
  <1>6. CASE CreateTask(l)
    BY <1>1, <1>6 DEF CreateTask, threadVars, ThreadTypes
  <1>7. CASE Step(l)
    <2>1. /\ UNCHANGED handleVars /\ phase' = phase /\ woken' = woken
          /\ phase[l] = "batch"
          /\ \/ stopping' = stopping /\ interrupted' = interrupted
             \/ /\ stopping' = [stopping EXCEPT ![l] = TRUE]
                /\ interrupted' = [interrupted EXCEPT ![l] = TRUE]
      BY <1>7 DEF Step
    <2>2. QED
      BY <1>1, <2>1 DEF ThreadTypes
  <1>8. CASE StepEndsLoop(l)
    <2>1. /\ UNCHANGED handleVars /\ woken' = woken
          /\ phase' = [phase EXCEPT ![l] = "stopped"] /\ phase[l] = "batch"
          /\ stopping' = [stopping EXCEPT ![l] = FALSE]
          /\ interrupted' = [interrupted EXCEPT ![l] = TRUE]
      BY <1>8 DEF StepEndsLoop
    <2>2. QED
      BY <1>1, <2>1 DEF ThreadTypes, Phases
  <1>9. CASE EndIteration(l)
    BY <1>1, <1>9 DEF EndIteration, ThreadTypes, Phases
  <1>10. QED
    BY <1>2, <1>3, <1>4, <1>5, <1>6, <1>7, <1>8, <1>9 DEF LoopThread

\* The queues: whatever is taken from them was in them.
LEMMA WorkStep ==
    ASSUME WorkInv, NEW l \in Loops, LoopThread(l)
    PROVE  WorkInv'
  <1>1. /\ ready \in [Loops -> Seq(Coroutines)] /\ todo \in [Loops -> Nat]
        /\ status \in [Coroutines -> Statuses]
        /\ home \in [Coroutines -> 0..MaxLoops]
        /\ \A k \in Loops : todo[k] <= Len(ready[k])
    BY DEF WorkInv, WorkTypes, BatchIsQueued
  <1> DEFINE c == Head(ready[l])
             rest == Tail(ready[l])
  <1>2. ASSUME todo[l] > 0
        PROVE  /\ c \in Coroutines /\ rest \in Seq(Coroutines)
               /\ Len(rest) = Len(ready[l]) - 1
               /\ Append(rest, c) \in Seq(Coroutines)
               /\ Len(Append(rest, c)) = Len(ready[l])
               /\ todo[l] - 1 \in Nat /\ todo[l] - 1 <= Len(rest)
               /\ Len(rest) \in Nat
    <2>1. ready[l] \in Seq(Coroutines) /\ ready[l] # <<>> /\ todo[l] \in Nat
      BY <1>1, <1>2
    <2>2. c \in Coroutines /\ rest \in Seq(Coroutines) /\ Len(rest) = Len(ready[l]) - 1
      BY <2>1
    <2>3. QED
      BY <1>1, <1>2, <2>1, <2>2
  <1> HIDE DEF c, rest
  <1>3. CASE Start(l) \/ Poll(l) \/ Wakeup(l) \/ EndIteration(l)
    BY <1>3, WorkInvStays DEF Start, Poll, Wakeup, EndIteration
  <1>4. CASE TakeBatch(l)
    <2>1. /\ todo' = [todo EXCEPT ![l] = Len(ready[l])]
          /\ ready' = ready /\ status' = status /\ home' = home
      BY <1>4 DEF TakeBatch
    <2>2. Len(ready[l]) \in Nat
      BY <1>1
    <2>3. QED
      BY <1>1, <2>1, <2>2 DEF WorkInv, WorkTypes, BatchIsQueued
  <1>5. CASE CreateTask(l)
    <2>1. /\ todo[l] > 0 /\ todo' = [todo EXCEPT ![l] = @ - 1]
          /\ status' = [status EXCEPT ![c] = "created"] /\ home' = home
          /\ ready' = [ready EXCEPT ![l] = Append(rest, c)]
      BY <1>5 DEF CreateTask, c, rest
    <2>2. QED
      BY <1>1, <1>2, <2>1 DEF WorkInv, WorkTypes, BatchIsQueued, Statuses
  <1>6. CASE Step(l) \/ StepEndsLoop(l)
    <2>1. /\ todo[l] > 0
          /\ \E n \in {todo[l] - 1, 0} : todo' = [todo EXCEPT ![l] = n]
          /\ \E s \in {"none", "parked", "scheduled"} :
                status' = [status EXCEPT ![c] = s]
          /\ home' = home \/ home' = [home EXCEPT ![c] = 0]
      BY <1>6 DEF Step, StepEndsLoop, c
    <2>2. \E q \in {rest, Append(rest, c)} : ready' = [ready EXCEPT ![l] = q]
      BY <1>6 DEF Step, StepEndsLoop, c, rest
    <2>3. status' \in [Coroutines -> Statuses]
      BY <1>1, <2>1 DEF Statuses
    <2>4. home' \in [Coroutines -> 0..MaxLoops]
      <3>1. 0 \in 0..MaxLoops
        BY LoopAssumption
      <3>2. CASE home' = home
        BY <1>1, <3>2
      <3>3. CASE home' = [home EXCEPT ![c] = 0]
        BY <1>1, <3>1, <3>3
      <3>4. QED
        BY <2>1, <3>2, <3>3
    <2>5. /\ ready' \in [Loops -> Seq(Coroutines)] /\ todo' \in [Loops -> Nat]
          /\ \A k \in Loops : todo'[k] <= Len(ready'[k])
      <3>1. PICK n \in {todo[l] - 1, 0} : todo' = [todo EXCEPT ![l] = n]
        BY <2>1
      <3>2. PICK q \in {rest, Append(rest, c)} : ready' = [ready EXCEPT ![l] = q]
        BY <2>2
      <3>3. /\ n \in Nat /\ q \in Seq(Coroutines) /\ n <= Len(q)
        <4>1. todo[l] - 1 \in Nat /\ todo[l] - 1 <= Len(rest) /\ Len(rest) \in Nat
          BY <1>2, <2>1
        <4>2. Len(Append(rest, c)) = Len(rest) + 1
          BY <1>2, <2>1
        <4>3. q \in Seq(Coroutines) /\ Len(q) \in {Len(rest), Len(rest) + 1}
          BY <1>2, <2>1, <4>2
        <4>4. n \in Nat /\ n <= Len(rest)
          BY <4>1
        <4>5. QED
          BY <4>1, <4>3, <4>4
      <3>4. QED
        BY <1>1, <3>1, <3>2, <3>3
    <2>6. QED
      BY <2>3, <2>4, <2>5 DEF WorkInv, WorkTypes, BatchIsQueued
  <1>7. QED
    BY <1>3, <1>4, <1>5, <1>6 DEF LoopThread

\* The loop's thread: it neither appears nor ends unasked.
LEMMA ThreadStep ==
    ASSUME LoopInv, NEW l \in Loops, LoopThread(l)
    PROVE  LoopInv'
  <1>0. HandleInv /\ ThreadInv /\ WorkInv
    BY DEF LoopInv
  <1>1. /\ UNCHANGED handleVars
        /\ ThreadTypes'
        /\ \A k \in Loops :
              /\ phase'[k] = "none" <=> phase[k] = "none"
              /\ stopping'[k] => stopping[k] \/ phase[k] # "none"
              /\ interrupted[k] => interrupted'[k]
              /\ stopping'[k] \/ phase'[k] = "stopped"
                    => stopping[k] \/ phase[k] = "stopped" \/ interrupted'[k]
    BY <1>0, ThreadEffects
  <1>2. held' = held /\ dropping' = dropping /\ created' = created
    BY <1>1 DEF handleVars
  <1>3. HandleInv'
    BY <1>0, <1>1, HandleInvStays
  <1>4. StoppedIsUnheld'
    BY <1>0, <1>1, <1>2 DEF ThreadInv, StoppedIsUnheld, Holds
  <1>5. ThreadsFollowLoops'
    BY <1>0, <1>1, <1>2 DEF ThreadInv, ThreadsFollowLoops
  <1>6. WorkInv'
    BY <1>0, WorkStep
  <1>7. QED
    BY <1>1, <1>3, <1>4, <1>5, <1>6 DEF LoopInv, ThreadInv

\* A parked coroutine is scheduled again.
LEMMA WakeStep ==
    ASSUME LoopInv, NEW c \in Coroutines, WakeCoroutine(c)
    PROVE  LoopInv'
  <1>0. HandleInv /\ ThreadInv /\ WorkInv
    BY DEF LoopInv
  <1>1. /\ UNCHANGED handleVars /\ phase' = phase /\ stopping' = stopping
        /\ interrupted' = interrupted /\ todo' = todo /\ home' = home
        /\ status' = [status EXCEPT ![c] = "scheduled"]
        /\ ready' = [ready EXCEPT ![home[c]] = Append(@, c)]
        /\ woken' = [woken EXCEPT ![home[c]] = TRUE]
    BY DEF WakeCoroutine
  <1>2. HandleInv'
    BY <1>0, <1>1, HandleInvStays
  <1>3. ThreadInv'
    BY <1>0, <1>1 DEF handleVars, ThreadInv, ThreadTypes, StoppedIsUnheld,
                      ThreadsFollowLoops, Holds
  <1>4. WorkInv'
    <2>1. home' \in [Coroutines -> 0..MaxLoops] /\ "scheduled" \in Statuses
      BY <1>0, <1>1 DEF WorkInv, WorkTypes, Statuses
    <2>2. QED
      BY <1>0, <1>1, <2>1, QueuedMore
  <1>5. QED
    BY <1>2, <1>3, <1>4 DEF LoopInv

\* get_or_create up to the upgrade: nobody gets a reference but from one that
\* exists.
LEMMA UpgradeStep ==
    ASSUME LoopInv, NEW o \in Owners, Lock(o) \/ Upgrade(o) \/ UpgradeFails(o)
    PROVE  LoopInv'
  <1>0. /\ HandleTypes /\ CriticalSection /\ CreatorIsAlone /\ HoldersAreShared
        /\ DroppedStaysDropped
    BY DEF LoopInv, ThreadInv, HandleInv
  <1>1. UNCHANGED threadVars /\ UNCHANGED workVars /\ created' = created /\ dropping' = dropping
    BY DEF Lock, Upgrade, UpgradeFails
  <1>2. ThreadTypes' /\ ThreadsFollowLoops' /\ WorkInv'
    BY <1>1, WorkInvStays DEF threadVars, LoopInv, ThreadInv, ThreadTypes, ThreadsFollowLoops
  <1>3. CASE Lock(o)
    <2>1. /\ held[o] = 0 /\ locked = {} /\ locked' = {o} /\ creating' = creating
          /\ poisoned' = poisoned /\ shared' = shared /\ held' = held
      BY <1>3 DEF Lock
    <2>2. creating = {}
      BY <1>0, <2>1 DEF HandleTypes
    <2>3. HandleTypes'
      BY <1>0, <1>1, <2>1, <2>2 DEF HandleTypes
    <2>4. CriticalSection' /\ CreatorIsAlone'
      BY <2>1, <2>2 DEF CriticalSection, CreatorIsAlone
    <2>5. HoldersAreShared' /\ DroppedStaysDropped'
      BY <1>0, <1>1, <2>1 DEF HoldersAreShared, DroppedStaysDropped
    <2>6. StoppedIsUnheld'
      BY <1>1, <2>1 DEF threadVars, LoopInv, ThreadInv, StoppedIsUnheld, Holds
    <2>7. QED
      BY <1>2, <2>3, <2>4, <2>5, <2>6 DEF LoopInv, ThreadInv, HandleInv
  <1>4. CASE Upgrade(o)
    <2>1. /\ o \in locked \ creating /\ held' = [held EXCEPT ![o] = shared]
          /\ locked' = locked \ {o} /\ creating' = creating
          /\ poisoned' = poisoned /\ shared' = shared
      BY <1>4 DEF Upgrade
    <2>2. PICK p \in Owners : Holds(p, shared)
      BY <1>4, HoldersOfLoop DEF Upgrade, Upgradable
    <2>3. shared # 0
      BY <1>4 DEF Upgrade, Upgradable
    <2>4. held[o] = 0 /\ o \notin dropping
      BY <1>0, <2>1 DEF CriticalSection, DroppedStaysDropped
    <2>5. creating = {} /\ locked' = {}
      BY <1>0, <2>1 DEF HandleTypes, CriticalSection
    <2>6. HandleTypes'
      BY <1>0, <1>1, <2>1, <2>5 DEF HandleTypes
    <2>7. CriticalSection' /\ CreatorIsAlone'
      BY <2>1, <2>5 DEF CriticalSection, CreatorIsAlone
    <2>8. \A q \in Owners : held'[q] = IF q = o THEN shared ELSE held[q]
      BY <1>0, <2>1 DEF HandleTypes
    <2>9. HoldersAreShared'
      BY <1>0, <1>1, <2>1, <2>8 DEF HoldersAreShared
    <2>10. DroppedStaysDropped'
      <3>1. \A d \in dropping : d \in Owners /\ held'[d] = held[d]
        BY <1>0, <2>4, <2>8 DEF HandleTypes
      <3>2. \A d \in dropping : held[d] # shared
        BY <1>0, <2>2 DEF DroppedStaysDropped, Holds
      <3>3. QED
        BY <1>0, <1>1, <2>8, <3>1, <3>2 DEF DroppedStaysDropped
    <2>11. StoppedIsUnheld'
      BY <1>1, <2>2, <2>8 DEF threadVars, LoopInv, ThreadInv, StoppedIsUnheld, Holds
    <2>12. QED
      BY <1>2, <2>6, <2>7, <2>9, <2>10, <2>11 DEF LoopInv, ThreadInv, HandleInv
  <1>5. CASE UpgradeFails(o)
    <2>1. /\ o \in locked /\ creating' = creating \cup {o} /\ locked' = locked
          /\ poisoned' = poisoned /\ shared' = shared /\ held' = held
      BY <1>5 DEF UpgradeFails
    <2>2. shared = 0 \/ \A p \in Owners : ~Holds(p, shared)
      BY <1>5, HoldersOfLoop DEF UpgradeFails, Upgradable
    <2>3. \A p \in Owners : held[p] # 0 => p \in dropping
      BY <1>0, <2>2 DEF HoldersAreShared, Holds
    <2>4. HandleTypes'
      BY <1>0, <1>1, <2>1 DEF HandleTypes
    <2>5. CriticalSection' /\ CreatorIsAlone'
      BY <1>0, <1>1, <2>1, <2>3 DEF CriticalSection, CreatorIsAlone
    <2>6. HoldersAreShared' /\ DroppedStaysDropped'
      BY <1>0, <1>1, <2>1 DEF HoldersAreShared, DroppedStaysDropped
    <2>7. StoppedIsUnheld'
      BY <1>1, <2>1 DEF threadVars, LoopInv, ThreadInv, StoppedIsUnheld, Holds
    <2>8. QED
      BY <1>2, <2>4, <2>5, <2>6, <2>7 DEF LoopInv, ThreadInv, HandleInv
  <1>6. QED
    BY <1>3, <1>4, <1>5

\* The creation of a loop: the creator is alone, so the new loop's first
\* holder is the only one there is.
LEMMA CreateStep ==
    ASSUME LoopInv, NEW o \in Owners, Create(o)
    PROVE  LoopInv'
  <1>0. /\ HandleTypes /\ CriticalSection /\ CreatorIsAlone /\ HoldersAreShared
        /\ DroppedStaysDropped
    BY DEF LoopInv, ThreadInv, HandleInv
  <1> DEFINE new == created + 1
  <1>1. /\ o \in creating /\ created < MaxLoops /\ creating' = creating \ {o}
        /\ created' = new /\ phase' = [phase EXCEPT ![new] = "starting"]
        /\ shared' = new /\ held' = [held EXCEPT ![o] = new]
        /\ locked' = locked \ {o} /\ poisoned' = poisoned
        /\ dropping' = dropping /\ stopping' = stopping
        /\ interrupted' = interrupted /\ woken' = woken /\ UNCHANGED workVars
    BY DEF Create
  <1>2. /\ created \in Nat /\ new \in Loops /\ new \in 1..MaxLoops /\ new # 0
    BY <1>0, <1>1, LoopAssumption DEF HandleTypes, Loops
  <1>3. o \in locked /\ held[o] = 0 /\ o \notin dropping
    BY <1>0, <1>1 DEF HandleTypes, CriticalSection, DroppedStaysDropped
  <1>4. locked' = {} /\ creating' = {}
    BY <1>0, <1>1, <1>3 DEF HandleTypes, CriticalSection
  <1>5. \A p \in Owners : held[p] # 0 => p \in dropping
    BY <1>0, <1>1 DEF CreatorIsAlone
  <1>6. \A p \in Owners : /\ held[p] \in 0..created
                          /\ held'[p] = IF p = o THEN new ELSE held[p]
    BY <1>0, <1>1 DEF HandleTypes
  <1> HIDE DEF new
  <1>7. HandleTypes'
    <2>1. held' \in [Owners -> 0..new]
      BY <1>0, <1>1, <1>2 DEF HandleTypes, new
    <2>2. QED
      BY <1>0, <1>1, <1>2, <1>4, <2>1 DEF HandleTypes
  <1>8. CriticalSection' /\ CreatorIsAlone'
    BY <1>4 DEF CriticalSection, CreatorIsAlone
  <1>9. HoldersAreShared'
    BY <1>1, <1>5, <1>6 DEF HoldersAreShared
  <1>10. DroppedStaysDropped'
    <2>1. \A d \in dropping :
            /\ d \in Owners /\ held'[d] = held[d] /\ held[d] # 0 /\ held[d] # new
      BY <1>0, <1>2, <1>3, <1>6 DEF HandleTypes, DroppedStaysDropped, new
    <2>2. QED
      BY <1>0, <1>1, <1>6, <2>1 DEF DroppedStaysDropped
  <1>11. StoppedIsUnheld'
    <2>1. ~stopping[new]
      BY <1>2 DEF LoopInv, ThreadInv, ThreadsFollowLoops, new
    <2>2. \A k \in Loops : phase'[k] = IF k = new THEN "starting" ELSE phase[k]
      BY <1>1, <1>2 DEF LoopInv, ThreadInv, ThreadTypes
    <2>3. QED
      BY <1>1, <1>6, <2>1, <2>2 DEF LoopInv, ThreadInv, StoppedIsUnheld, Holds
  <1>12. ThreadsFollowLoops'
    <2>1. \A k \in Loops : k \in Nat
      BY DEF Loops
    <2>2. \A k \in Loops : phase'[k] = IF k = new THEN "starting" ELSE phase[k]
      BY <1>1, <1>2 DEF LoopInv, ThreadInv, ThreadTypes
    <2>3. \A k \in Loops : k > new <=> k > created /\ k # new
      BY <1>2, <2>1 DEF new
    <2>4. new > created
      BY <1>2 DEF new
    <2>5. QED
      BY <1>1, <1>2, <2>2, <2>3, <2>4 DEF LoopInv, ThreadInv, ThreadsFollowLoops
  <1>13. ThreadTypes' /\ WorkInv'
    BY <1>1, WorkInvStays DEF LoopInv, ThreadInv, ThreadTypes, Phases
  <1>14. QED
    BY <1>7, <1>8, <1>9, <1>10, <1>11, <1>12, <1>13 DEF LoopInv, ThreadInv, HandleInv

\* A failed creation leaves the static and every reference as they were.
LEMMA CreateFailsStep ==
    ASSUME LoopInv, NEW o \in Owners, CreateFails(o)
    PROVE  LoopInv'
  <1>0. /\ HandleTypes /\ CriticalSection /\ CreatorIsAlone /\ HoldersAreShared
        /\ DroppedStaysDropped
    BY DEF LoopInv, ThreadInv, HandleInv
  <1>1. /\ creating' = creating \ {o} /\ locked' = locked \ {o}
        /\ poisoned' \in BOOLEAN /\ shared' = shared /\ created' = created
        /\ held' = held /\ dropping' = dropping /\ UNCHANGED threadVars /\ UNCHANGED workVars
    BY DEF CreateFails
  <1>2. HandleTypes'
    BY <1>0, <1>1 DEF HandleTypes
  <1>3. CriticalSection' /\ CreatorIsAlone'
    BY <1>0, <1>1 DEF CriticalSection, CreatorIsAlone
  <1>4. HoldersAreShared' /\ DroppedStaysDropped'
    BY <1>0, <1>1 DEF HoldersAreShared, DroppedStaysDropped
  <1>5. StoppedIsUnheld'
    BY <1>1 DEF threadVars, LoopInv, ThreadInv, StoppedIsUnheld, Holds
  <1>6. ThreadTypes' /\ ThreadsFollowLoops' /\ WorkInv'
    BY <1>1, WorkInvStays DEF threadVars, LoopInv, ThreadInv, ThreadTypes, ThreadsFollowLoops
  <1>7. QED
    BY <1>2, <1>3, <1>4, <1>5, <1>6 DEF LoopInv, ThreadInv, HandleInv

\* A request on a held loop.
LEMMA SubmitStep ==
    ASSUME LoopInv, NEW o \in Owners, Submit(o)
    PROVE  LoopInv'
  <1>0. HandleInv /\ ThreadInv /\ WorkInv
    BY DEF LoopInv
  <1>1. /\ UNCHANGED handleVars /\ phase' = phase /\ stopping' = stopping
        /\ interrupted' = interrupted /\ todo' = todo
        /\ woken' = [woken EXCEPT ![held[o]] = TRUE]
    BY DEF Submit
  <1>2. PICK c \in Coroutines :
          /\ status' = [status EXCEPT ![c] = "submitted"]
          /\ home' = [home EXCEPT ![c] = held[o]]
          /\ ready' = [ready EXCEPT ![held[o]] = Append(@, c)]
    BY DEF Submit
  <1>3. HandleInv'
    BY <1>0, <1>1, HandleInvStays
  <1>4. ThreadInv'
    BY <1>0, <1>1 DEF handleVars, ThreadInv, ThreadTypes, StoppedIsUnheld,
                      ThreadsFollowLoops, Holds
  <1>5. home' \in [Coroutines -> 0..MaxLoops]
    <2>1. home \in [Coroutines -> 0..MaxLoops]
      BY <1>0 DEF WorkInv, WorkTypes
    <2>2. held[o] \in 0..MaxLoops
      BY <1>0, LoopAssumption DEF HandleInv, HandleTypes
    <2>3. QED
      BY <1>2, <2>1, <2>2
  <1>6. "submitted" \in Statuses
    BY DEF Statuses
  <1>7. WorkInv'
    BY <1>0, <1>1, <1>2, <1>5, <1>6, QueuedMore
  <1>8. QED
    BY <1>3, <1>4, <1>7 DEF LoopInv

\* The drop of a handle: the last holder enters the destructor, any other
\* just loses its reference.
LEMMA DropStep ==
    ASSUME LoopInv, NEW o \in Owners, DropHandle(o)
    PROVE  LoopInv'
  <1>0. /\ HandleTypes /\ CriticalSection /\ CreatorIsAlone /\ HoldersAreShared
        /\ DroppedStaysDropped
    BY DEF LoopInv, ThreadInv, HandleInv
  <1>1. /\ held[o] # 0 /\ o \notin dropping
        /\ locked' = locked /\ creating' = creating /\ poisoned' = poisoned
        /\ shared' = shared /\ created' = created /\ UNCHANGED threadVars /\ UNCHANGED workVars
    BY DEF DropHandle
  <1>2. ThreadTypes' /\ ThreadsFollowLoops' /\ WorkInv'
    BY <1>1, WorkInvStays DEF threadVars, LoopInv, ThreadInv, ThreadTypes, ThreadsFollowLoops
  <1>3. o \notin locked
    BY <1>0, <1>1 DEF CriticalSection
  <1>4. CASE Holders(held[o]) = {o}
    <2>1. dropping' = dropping \cup {o} /\ held' = held
      BY <1>4 DEF DropHandle
    <2>2. \A p \in Owners : Holds(p, held[o]) => p = o
      BY <1>4, HoldersOfLoop
    <2>3. HandleTypes'
      BY <1>0, <1>1, <2>1 DEF HandleTypes
    <2>4. CriticalSection' /\ CreatorIsAlone' /\ HoldersAreShared'
      BY <1>0, <1>1, <2>1 DEF CriticalSection, CreatorIsAlone, HoldersAreShared
    <2>5. DroppedStaysDropped'
      BY <1>0, <1>1, <2>1, <2>2 DEF DroppedStaysDropped, Holds
    <2>6. StoppedIsUnheld'
      BY <1>1, <2>1 DEF threadVars, LoopInv, ThreadInv, StoppedIsUnheld, Holds
    <2>7. QED
      BY <1>2, <2>3, <2>4, <2>5, <2>6 DEF LoopInv, ThreadInv, HandleInv
  <1>5. CASE Holders(held[o]) # {o}
    <2>1. dropping' = dropping /\ held' = [held EXCEPT ![o] = 0]
      BY <1>5 DEF DropHandle
    <2>2. \A p \in Owners : held'[p] = IF p = o THEN 0 ELSE held[p]
      BY <1>0, <2>1 DEF HandleTypes
    <2>3. HandleTypes'
      <3>1. held' \in [Owners -> 0..created]
        BY <1>0, <2>1, LoopAssumption DEF HandleTypes
      <3>2. QED
        BY <1>0, <1>1, <2>1, <3>1 DEF HandleTypes
    <2>4. CriticalSection' /\ CreatorIsAlone' /\ HoldersAreShared'
      BY <1>0, <1>1, <2>1, <2>2
      DEF HandleTypes, CriticalSection, CreatorIsAlone, HoldersAreShared
    <2>5. DroppedStaysDropped'
      BY <1>0, <1>1, <2>1, <2>2 DEF HandleTypes, DroppedStaysDropped
    <2>6. StoppedIsUnheld'
      <3>1. \A l \in Loops : l # 0
        BY DEF Loops
      <3>2. QED
        BY <1>1, <2>1, <2>2, <3>1 DEF threadVars, LoopInv, ThreadInv, StoppedIsUnheld, Holds
    <2>7. QED
      BY <1>2, <2>3, <2>4, <2>5, <2>6 DEF LoopInv, ThreadInv, HandleInv
  <1>6. QED
    BY <1>4, <1>5

\* The destructor: the loop it stops cannot have found a new holder.
LEMMA StopStep ==
    ASSUME LoopInv, NEW o \in Owners, Stop(o)
    PROVE  LoopInv'
  <1>0. /\ HandleTypes /\ CriticalSection /\ CreatorIsAlone /\ HoldersAreShared
        /\ DroppedStaysDropped
    BY DEF LoopInv, ThreadInv, HandleInv
  <1>1. /\ o \in dropping /\ dropping' = dropping \ {o}
        /\ held' = [held EXCEPT ![o] = 0]
        /\ stopping' = [stopping EXCEPT ![held[o]] = TRUE]
        /\ locked' = locked /\ creating' = creating /\ poisoned' = poisoned
        /\ shared' = shared /\ created' = created /\ phase' = phase
        /\ interrupted' = interrupted /\ woken' = woken /\ UNCHANGED workVars
    BY DEF Stop
  <1>2. held[o] # 0 /\ \A p \in Owners : held[p] = held[o] => p \in dropping
    BY <1>0, <1>1 DEF DroppedStaysDropped
  <1>3. /\ held[o] \in Loops /\ held[o] \in Nat /\ held[o] <= created
        /\ created \in Nat
    BY <1>0, <1>2, LoopAssumption DEF HandleTypes, Loops
  <1>4. \A p \in Owners : held'[p] = IF p = o THEN 0 ELSE held[p]
    BY <1>0, <1>1 DEF HandleTypes
  <1>5. HandleTypes'
    <2>1. held' \in [Owners -> 0..created]
      BY <1>0, <1>1, <1>3 DEF HandleTypes
    <2>2. QED
      BY <1>0, <1>1, <2>1 DEF HandleTypes
  <1>6. CriticalSection' /\ CreatorIsAlone' /\ HoldersAreShared'
    BY <1>0, <1>1, <1>4
    DEF HandleTypes, CriticalSection, CreatorIsAlone, HoldersAreShared
  <1>7. DroppedStaysDropped'
    BY <1>0, <1>1, <1>4 DEF HandleTypes, DroppedStaysDropped
  <1>8. stopping \in [Loops -> BOOLEAN]
    BY DEF LoopInv, ThreadInv, ThreadTypes
  <1> DEFINE h == held[o]
  <1>9. /\ stopping' \in [Loops -> BOOLEAN]
        /\ \A k \in Loops : k # h => stopping'[k] = stopping[k]
        /\ stopping'[h] = TRUE
    BY <1>1, <1>3, <1>8
  <1>10. StoppedIsUnheld'
    <2> SUFFICES ASSUME NEW k \in Loops, stopping'[k] \/ phase'[k] = "stopped",
                        ~interrupted'[k], NEW p \in Owners, held'[p] = k, p \notin dropping'
                 PROVE  FALSE
      BY DEF StoppedIsUnheld, Holds
    <2>1. k # 0
      BY DEF Loops
    <2>2. p # o /\ held[p] = k /\ p \notin dropping
      BY <1>1, <1>4, <2>1
    <2>3. k # h
      BY <1>2, <2>2
    <2>4. stopping[k] \/ phase[k] = "stopped"
      BY <1>1, <1>9, <2>3
    <2>5. ~interrupted[k]
      BY <1>1
    <2>6. QED
      BY <2>2, <2>4, <2>5 DEF LoopInv, ThreadInv, StoppedIsUnheld, Holds
  <1>11. ThreadsFollowLoops'
    <2>1. ~(h > created)
      BY <1>3
    <2>2. QED
      BY <1>1, <1>9, <2>1 DEF LoopInv, ThreadInv, ThreadsFollowLoops
  <1>12. ThreadTypes' /\ WorkInv'
    BY <1>1, <1>9, WorkInvStays DEF LoopInv, ThreadInv, ThreadTypes
  <1>13. QED
    BY <1>5, <1>6, <1>7, <1>10, <1>11, <1>12 DEF LoopInv, ThreadInv, HandleInv

\* Every step preserves the invariant.
LEMMA LoopStepInv == LoopInv /\ [Next]_vars => LoopInv'
  <1> SUFFICES ASSUME LoopInv, [Next]_vars
               PROVE  LoopInv'
    OBVIOUS
  <1>1. CASE UNCHANGED vars
    <2>1. UNCHANGED handleVars /\ UNCHANGED threadVars /\ UNCHANGED workVars
      BY <1>1 DEF vars
    <2>2. HandleInv' /\ WorkInv'
      BY <2>1, HandleInvStays, WorkInvStays DEF LoopInv
    <2>3. UNCHANGED <<created, held, dropping>>
      BY <2>1 DEF handleVars
    <2>4. ThreadInv'
      BY <2>1, <2>3, ThreadInvStays DEF LoopInv
    <2>5. QED
      BY <2>2, <2>4 DEF LoopInv
  <1>2. CASE Next
    BY <1>2, ThreadStep, WakeStep, UpgradeStep, CreateStep, CreateFailsStep, SubmitStep,
       DropStep, StopStep
    DEF Next, GetOrCreate
  <1>3. QED
    BY <1>1, <1>2

-----------------------------------------------------------------------------
(* Theorems *)

\* The invariant of the static, the references to it and the loops' threads;
\* it contains the type invariant.
THEOREM LoopInvHolds == Spec => [](LoopInv /\ TypeOK)
  <1>1. LoopInv => TypeOK
    BY TypesOfParts DEF LoopInv, HandleInv, ThreadInv, WorkInv
  <1>2. QED
    BY LoopInitInv, LoopStepInv, <1>1, PTL DEF Spec

\* All Asgi instances alive at one time share one loop (event_loop_handle.rs:
\* 103-118), however creation, upgrade and the last drop interleave.
THEOREM LivingShareOneLoop == Spec => []OneSharedLoop
  <1>1. LoopInv => OneSharedLoop
    <2> SUFFICES ASSUME LoopInv, NEW l1 \in Loops, NEW l2 \in Loops,
                        Holders(l1) # {}, Holders(l2) # {}
                 PROVE  l1 = l2
      BY DEF OneSharedLoop
    <2>1. l1 # 0 /\ l2 # 0
      BY DEF Loops
    <2>2. l1 = shared /\ l2 = shared
      BY <2>1, HoldersOfLoop DEF LoopInv, HandleInv, HoldersAreShared, Holds
    <2>3. QED
      BY <2>2
  <1>2. QED
    BY LoopInvHolds, <1>1, PTL

\* The destructor (event_loop_handle.rs:161-170) never stops a loop that some
\* Asgi still uses: whatever ends a loop in use is an application on it or the
\* failure of its thread (event_loop_handle.rs:134-150).
THEOREM UsedLoopRuns == Spec => []HeldLoopRuns
  <1>1. LoopInv => HeldLoopRuns
    <2> SUFFICES ASSUME LoopInv, NEW l \in Loops, Holders(l) # {}, ~interrupted[l]
                 PROVE  ~stopping[l] /\ phase[l] \notin {"none", "stopped"}
      BY DEF HeldLoopRuns
    <2>1. PICK o \in Owners : Holds(o, l)
      BY HoldersOfLoop
    <2>2. ~stopping[l] /\ phase[l] # "stopped"
      BY <2>1 DEF LoopInv, ThreadInv, StoppedIsUnheld
    <2>3. ~(l > created)
      BY <2>1, LoopAssumption DEF LoopInv, HandleInv, HandleTypes, Holds, Loops
    <2>4. QED
      BY <2>2, <2>3 DEF LoopInv, ThreadInv, ThreadsFollowLoops
  <1>2. QED
    BY LoopInvHolds, <1>1, PTL

=============================================================================
