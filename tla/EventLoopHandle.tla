--------------------------- MODULE EventLoopHandle ---------------------------
(***************************************************************************)
(* The asyncio event loop that every Asgi instance of the process shares   *)
(* (event_loop_handle.rs).  A static mutex guards a weak reference to the  *)
(* handle; each owner of an Asgi holds a strong one.  The loop itself runs *)
(* on a thread of its own; dropping the last strong reference calls the    *)
(* loop's stop() from whatever thread dropped it.                          *)
(*                                                                         *)
(* Loops are numbered in the order they are created.  A request's coroutine *)
(* reaches a loop in two callbacks: the one run_coroutine_threadsafe       *)
(* schedules creates a Task, which schedules its first step.  A coroutine  *)
(* that waits (for the Rust side or a timer) is parked.                    *)
(***************************************************************************)
EXTENDS Naturals, Sequences, FiniteSets

CONSTANTS
    Owners,         \* Parties that create, use and drop an Asgi
    MaxLoops,       \* Event loops created in a behaviour (bound)
    Coroutines      \* The coroutines that can be in flight at one time (bound)

ASSUME LoopAssumption == MaxLoops \in Nat \ {0}

VARIABLES
    locked,         \* The owners inside get_or_create's critical section
    creating,       \* Those of them that found nothing to upgrade
    poisoned,       \* Whether a panic poisoned PYTHON_EVENT_LOOP
    shared,         \* The loop the static weak reference names; 0 for none
    created,        \* How many loops were created
    held,           \* The loop each owner's strong reference names; 0 for none
    dropping,       \* The owners whose drop was the last, before stop()
    phase,          \* Where each loop's thread is in run_forever
    stopping,       \* Each loop's stop flag
    interrupted,    \* Loops whose end something else than a handle brought about
    woken,          \* Whether each loop's self-pipe has something to read
    ready,          \* Each loop's queue of coroutines with a scheduled callback
    todo,           \* How many of them the current iteration still has to run
    status,         \* What each coroutine waits for
    home            \* The loop each coroutine was submitted to; 0 for none

handleVars == <<locked, creating, poisoned, shared, created, held, dropping>>
threadVars == <<phase, stopping, interrupted, woken>>
workVars == <<ready, todo, status, home>>
vars == <<handleVars, threadVars, workVars>>

Loops == 1..MaxLoops

\* The strong references to loop l. An owner whose drop was the last has none.
Holders(l) == {o \in Owners : held[o] = l /\ o \notin dropping}

\* Weak::upgrade succeeds while a strong reference exists.
Upgradable == shared # 0 /\ Holders(shared) # {}

Phases == {"none", "starting", "top", "select", "run", "batch", "stopped"}

\* "submitted": the callback that creates the Task is scheduled; "created":
\* the Task's first step is; "scheduled": a later step is.
Statuses == {"none", "submitted", "created", "scheduled", "parked"}

TypeOK ==
    /\ locked \subseteq Owners
    /\ creating \subseteq locked
    /\ poisoned \in BOOLEAN
    /\ shared \in 0..created
    /\ created \in 0..MaxLoops
    /\ held \in [Owners -> 0..created]
    /\ dropping \subseteq Owners
    /\ phase \in [Loops -> Phases]
    /\ stopping \in [Loops -> BOOLEAN]
    /\ interrupted \in [Loops -> BOOLEAN]
    /\ woken \in [Loops -> BOOLEAN]
    /\ ready \in [Loops -> Seq(Coroutines)]
    /\ todo \in [Loops -> Nat]
    /\ status \in [Coroutines -> Statuses]
    /\ home \in [Coroutines -> 0..MaxLoops]

Init ==
    /\ locked = {}
    /\ creating = {}
    /\ poisoned = FALSE
    /\ shared = 0
    /\ created = 0
    /\ held = [o \in Owners |-> 0]
    /\ dropping = {}
    /\ phase = [l \in Loops |-> "none"]
    /\ stopping = [l \in Loops |-> FALSE]
    /\ interrupted = [l \in Loops |-> FALSE]
    /\ woken = [l \in Loops |-> FALSE]
    /\ ready = [l \in Loops |-> <<>>]
    /\ todo = [l \in Loops |-> 0]
    /\ status = [c \in Coroutines |-> "none"]
    /\ home = [c \in Coroutines |-> 0]

-----------------------------------------------------------------------------
(* EventLoopHandle::get_or_create, called by Asgi::new. *)

\* Faulty variant: the static is read without the mutex.
LockUnguarded(o) ==
    /\ held[o] = 0
    /\ ~poisoned
    /\ locked' = locked \cup {o}
    /\ UNCHANGED <<creating, poisoned, shared, created, held, dropping, threadVars,
                   workVars>>

\* A poisoned mutex makes get_or_create fail.
Lock(o) ==
    /\ held[o] = 0
    /\ ~poisoned
    /\ locked = {}
    /\ locked' = {o}
    /\ UNCHANGED <<creating, poisoned, shared, created, held, dropping, threadVars,
                   workVars>>

\* Faulty variant: the loop of the last handle is taken up again, whether or
\* not a handle still keeps it.
UpgradeDropped(o) ==
    /\ o \in locked \ creating
    /\ shared # 0
    /\ held' = [held EXCEPT ![o] = shared]
    /\ locked' = locked \ {o}
    /\ UNCHANGED <<creating, poisoned, shared, created, dropping, threadVars, workVars>>

Upgrade(o) ==
    /\ o \in locked \ creating
    /\ Upgradable
    /\ held' = [held EXCEPT ![o] = shared]
    /\ locked' = locked \ {o}
    /\ UNCHANGED <<creating, poisoned, shared, created, dropping, threadVars, workVars>>

\* No strong reference is left: a new loop has to be made. Another owner may
\* still be inside the destructor of the old one.
UpgradeFails(o) ==
    /\ o \in locked \ creating
    /\ ~Upgradable
    /\ creating' = creating \cup {o}
    /\ UNCHANGED <<locked, poisoned, shared, created, held, dropping, threadVars,
                   workVars>>

\* A new loop, its thread spawned, and the weak reference replaced.
Create(o) ==
    /\ o \in creating
    /\ created < MaxLoops
    /\ creating' = creating \ {o}
    /\ created' = created + 1
    /\ phase' = [phase EXCEPT ![created + 1] = "starting"]
    /\ shared' = created + 1
    /\ held' = [held EXCEPT ![o] = created + 1]
    /\ locked' = locked \ {o}
    /\ UNCHANGED <<poisoned, dropping, stopping, interrupted, woken, workVars>>

\* EventLoopHandle::new returns an error, or panics because the thread could
\* not be spawned; the guard is dropped on the way out.
CreateFails(o) ==
    /\ o \in creating
    /\ creating' = creating \ {o}
    /\ poisoned' \in BOOLEAN
    /\ locked' = locked \ {o}
    /\ UNCHANGED <<shared, created, held, dropping, threadVars,
                   workVars>>

-----------------------------------------------------------------------------
(* The use of a handle, and its end. *)

\* Faulty variant: the coroutine is scheduled with call_soon.
SubmitUnsafely(o) ==
    /\ held[o] # 0
    /\ o \notin dropping
    /\ \E c \in Coroutines :
          /\ status[c] = "none"
          /\ status' = [status EXCEPT ![c] = "submitted"]
          /\ home' = [home EXCEPT ![c] = held[o]]
          /\ ready' = [ready EXCEPT ![held[o]] = Append(@, c)]
    /\ UNCHANGED <<handleVars, threadVars, todo>>

\* Asgi::handle: run_coroutine_threadsafe schedules the callback that will
\* create the coroutine's Task, and writes to the loop's self-pipe. A loop that
\* has ended takes the callback just the same.
Submit(o) ==
    /\ held[o] # 0
    /\ o \notin dropping
    /\ \E c \in Coroutines :
          /\ status[c] = "none"
          /\ status' = [status EXCEPT ![c] = "submitted"]
          /\ home' = [home EXCEPT ![c] = held[o]]
          /\ ready' = [ready EXCEPT ![held[o]] = Append(@, c)]
    /\ woken' = [woken EXCEPT ![held[o]] = TRUE]
    /\ UNCHANGED <<handleVars, phase, stopping, interrupted, todo>>

\* The owner's Asgi is dropped. When its reference was the last, Drop::drop
\* runs next in the same thread, and the mutex is not held.
DropHandle(o) ==
    /\ held[o] # 0
    /\ o \notin dropping
    /\ IF Holders(held[o]) = {o}
       THEN dropping' = dropping \cup {o} /\ held' = held
       ELSE dropping' = dropping /\ held' = [held EXCEPT ![o] = 0]
    /\ UNCHANGED <<locked, creating, poisoned, shared, created, threadVars, workVars>>

\* Drop::drop calls loop.stop(), which sets the flag and wakes nobody.
Stop(o) ==
    /\ o \in dropping
    /\ stopping' = [stopping EXCEPT ![held[o]] = TRUE]
    /\ held' = [held EXCEPT ![o] = 0]
    /\ dropping' = dropping \ {o}
    /\ UNCHANGED <<locked, creating, poisoned, shared, created, phase, interrupted,
                   woken, workVars>>

-----------------------------------------------------------------------------
(* The loop's thread: loop_thread, and in it asyncio's run_forever, one     *)
(* _run_once after the other.                                              *)

\* loop_thread gets to run_forever, or fails on the way there.
Start(l) ==
    /\ phase[l] = "starting"
    /\ \/ /\ phase' = [phase EXCEPT ![l] = "top"]
          /\ UNCHANGED interrupted
       \/ /\ phase' = [phase EXCEPT ![l] = "stopped"]
          /\ interrupted' = [interrupted EXCEPT ![l] = TRUE]
    /\ UNCHANGED <<handleVars, stopping, woken, workVars>>

\* Start of an iteration: the selector is polled without blocking when there
\* is something to run or the stop flag is up, and blocks otherwise.
Poll(l) ==
    /\ phase[l] = "top"
    /\ phase' = [phase EXCEPT ![l] =
                    IF ready[l] # <<>> \/ stopping[l] THEN "run" ELSE "select"]
    /\ UNCHANGED <<handleVars, stopping, interrupted, woken, workVars>>

\* Only the self-pipe (or a timer) ends a blocking select.
Wakeup(l) ==
    /\ phase[l] = "select"
    /\ woken[l]
    /\ phase' = [phase EXCEPT ![l] = "run"]
    /\ UNCHANGED <<handleVars, stopping, interrupted, woken, workVars>>

\* The iteration will run what is scheduled now, and nothing scheduled later.
\* One of its callbacks empties the self-pipe; whatever wrote to it before has
\* its callback in the queue, where this iteration or the next Poll finds it.
TakeBatch(l) ==
    /\ phase[l] = "run"
    /\ phase' = [phase EXCEPT ![l] = "batch"]
    /\ todo' = [todo EXCEPT ![l] = Len(ready[l])]
    /\ woken' = [woken EXCEPT ![l] = FALSE]
    /\ UNCHANGED <<handleVars, stopping, interrupted, ready, status, home>>

\* The callback of run_coroutine_threadsafe: the new Task schedules its first
\* step behind everything that is queued.
CreateTask(l) ==
    /\ phase[l] = "batch" /\ todo[l] > 0
    /\ LET c == Head(ready[l]) IN
          /\ status[c] = "submitted"
          /\ status' = [status EXCEPT ![c] = "created"]
          /\ ready' = [ready EXCEPT ![l] = Append(Tail(@), c)]
    /\ todo' = [todo EXCEPT ![l] = @ - 1]
    /\ UNCHANGED <<handleVars, threadVars, home>>

\* A step of a coroutine: it returns or raises into its future, parks, or gives
\* way to the others; and it may call stop() on the loop it runs on.
Step(l) ==
    /\ phase[l] = "batch" /\ todo[l] > 0
    /\ LET c == Head(ready[l]) IN
          /\ status[c] \in {"created", "scheduled"}
          /\ \/ /\ status' = [status EXCEPT ![c] = "none"]
                /\ home' = [home EXCEPT ![c] = 0]
                /\ ready' = [ready EXCEPT ![l] = Tail(@)]
             \/ /\ status' = [status EXCEPT ![c] = "parked"]
                /\ ready' = [ready EXCEPT ![l] = Tail(@)]
                /\ UNCHANGED home
             \/ /\ status' = [status EXCEPT ![c] = "scheduled"]
                /\ ready' = [ready EXCEPT ![l] = Append(Tail(@), c)]
                /\ UNCHANGED home
    /\ todo' = [todo EXCEPT ![l] = @ - 1]
    /\ \/ UNCHANGED <<stopping, interrupted>>
       \/ /\ stopping' = [stopping EXCEPT ![l] = TRUE]
          /\ interrupted' = [interrupted EXCEPT ![l] = TRUE]
    /\ UNCHANGED <<handleVars, phase, woken>>

\* A step raises SystemExit or KeyboardInterrupt: run_forever ends with it,
\* loop_thread prints it, and what else the iteration had to run is left. The
\* stop flag is cleared on the way out.
StepEndsLoop(l) ==
    /\ phase[l] = "batch" /\ todo[l] > 0
    /\ LET c == Head(ready[l]) IN
          /\ status[c] \in {"created", "scheduled"}
          /\ status' = [status EXCEPT ![c] = "none"]
          /\ home' = [home EXCEPT ![c] = 0]
          /\ ready' = [ready EXCEPT ![l] = Tail(@)]
    /\ todo' = [todo EXCEPT ![l] = 0]
    /\ phase' = [phase EXCEPT ![l] = "stopped"]
    /\ stopping' = [stopping EXCEPT ![l] = FALSE]
    /\ interrupted' = [interrupted EXCEPT ![l] = TRUE]
    /\ UNCHANGED <<handleVars, woken>>

\* Only after the iteration's last callback the stop flag is looked at; a
\* callback scheduled during the iteration is left to the next, if there is one.
EndIteration(l) ==
    /\ phase[l] = "batch" /\ todo[l] = 0
    /\ phase' = [phase EXCEPT ![l] = IF stopping[l] THEN "stopped" ELSE "top"]
    /\ stopping' = [stopping EXCEPT ![l] = FALSE]
    /\ UNCHANGED <<handleVars, interrupted, woken, workVars>>

\* The Rust side answers a send() or a receive() (call_soon_threadsafe), or a
\* timer of the application ends the select.
WakeCoroutine(c) ==
    /\ status[c] = "parked"
    /\ status' = [status EXCEPT ![c] = "scheduled"]
    /\ ready' = [ready EXCEPT ![home[c]] = Append(@, c)]
    /\ woken' = [woken EXCEPT ![home[c]] = TRUE]
    /\ UNCHANGED <<handleVars, phase, stopping, interrupted, todo, home>>

-----------------------------------------------------------------------------

GetOrCreate(o) ==
    Upgrade(o) \/ UpgradeFails(o) \/ Create(o) \/ CreateFails(o)

LoopThread(l) ==
    \/ Start(l) \/ Poll(l) \/ Wakeup(l) \/ TakeBatch(l)
    \/ CreateTask(l) \/ Step(l) \/ StepEndsLoop(l) \/ EndIteration(l)

Next ==
    \/ \E o \in Owners :
          Lock(o) \/ GetOrCreate(o) \/ Submit(o) \/ DropHandle(o) \/ Stop(o)
    \/ \E l \in Loops : LoopThread(l)
    \/ \E c \in Coroutines : WakeCoroutine(c)

\* The loop's thread runs (no callback blocks it for ever), a critical section
\* and a destructor once begun are finished. Nobody has to create, use or drop
\* an Asgi, and a coroutine may stay parked for ever.
Fairness ==
    /\ \A l \in Loops : WF_vars(LoopThread(l))
    /\ \A o \in Owners : WF_vars(GetOrCreate(o)) /\ WF_vars(Stop(o))

Spec == Init /\ [][Next]_vars

FairSpec == Spec /\ Fairness

-----------------------------------------------------------------------------
(* Correctness. *)

\* All Asgi instances that exist at one time share one loop.
OneSharedLoop ==
    \A l1, l2 \in Loops : Holders(l1) # {} /\ Holders(l2) # {} => l1 = l2

\* No handle stops a loop that an Asgi still uses, whatever the order of the
\* drops, the destructor and the calls to get_or_create: a loop in use has a
\* thread that runs, unless one of its own applications ended it (stop(),
\* SystemExit, KeyboardInterrupt) or the thread failed before run_forever.
HeldLoopRuns ==
    \A l \in Loops :
        Holders(l) # {} /\ ~interrupted[l]
            => ~stopping[l] /\ phase[l] \notin {"none", "stopped"}

\* A submitted request is started, its Task created and the first step run,
\* although the loop may be blocked in its selector or busy with coroutines
\* that never park, unless the loop is told to stop or has ended: a request
\* submitted just before the last drop may never start.
RequestStarts ==
    \A c \in Coroutines, l \in Loops :
        status[c] \in {"submitted", "created"} /\ home[c] = l
            ~> \/ status[c] \notin {"submitted", "created"}
               \/ stopping[l] \/ phase[l] = "stopped"

=============================================================================
