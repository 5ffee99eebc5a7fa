------------------------------ MODULE Procedure ------------------------------
(***************************************************************************)
(* C functions that acquire resources (memory, descriptors, library        *)
(* objects, registrations, locks), may fail at any of several calls, and   *)
(* leave through error exits that release what was acquired so far.        *)
(*                                                                         *)
(* A procedure is a sequence of steps.  A call that fails and is tested    *)
(* goes on with the steps of its error exit, which end in a return: a goto *)
(* to a cleanup label and a cleanup written out in the branch both read    *)
(* this way.  A pointer variable is null, live (it holds the resource),    *)
(* freed (it still holds the address of a resource that is gone) or junk   *)
(* (never initialised): free does not clear the variable it is given, and  *)
(* a test against NULL sees a freed pointer as one that is set.  Threads a *)
(* procedure starts run beside it and share its pointers.                  *)
(***************************************************************************)
EXTENDS Steps, Sequences, TLC

CONSTANT Procs           \* the procedures, by name

VARIABLES fn, todo,      \* the procedure; what is left of it, for each thread
          live, freed, junk,     \* the pointer variables; the others are null
          lost,          \* resources whose last pointer was overwritten
          stray,         \* the thread and the freed or junk pointers it has used
          noticed,       \* a test in the function itself found a failed call
          result

vars == <<fn, todo, live, freed, junk, lost, stray, noticed, result>>

Main == "main"

Init ==
    \E f \in DOMAIN Procs :
        /\ fn = f /\ todo = Main :> Procs[f].body
        /\ live = Procs[f].args /\ junk = Procs[f].junk /\ freed = {}
        /\ lost = {} /\ stray = {} /\ noticed = FALSE /\ result = "running"

-----------------------------------------------------------------------------
At(t, ops) == /\ result \notin {"crash", "exit"} /\ todo[t] # <<>>
              /\ Head(todo[t]).op \in ops
Now(t) == Head(todo[t])
Rest(t) == Tail(todo[t])
Sound(t) == Now(t).uses \subseteq live
Notice(t) == noticed' = (noticed \/ t = Main)
Continue(t, steps) == todo' = [todo EXCEPT ![t] = steps] /\ UNCHANGED <<fn, result>>

Assign(r) ==             \* r is overwritten
    /\ lost' = lost \union ({r} \intersect live)
    /\ freed' = freed \ {r} /\ junk' = junk \ {r}

\* The call returns what it should.
Succeed(t) ==
    /\ At(t, {"get", "may"}) /\ Sound(t) /\ Continue(t, Rest(t))
    /\ Assign(Now(t).r) /\ live' = live \union {Now(t).r}
    /\ UNCHANGED <<stray, noticed>>

\* The call returns NULL, and the error exit is taken if the code looks.
Fail(t) ==
    /\ At(t, {"get", "may"}) /\ Sound(t)
    /\ Assign(Now(t).r) /\ live' = live \ {Now(t).r}
    /\ Continue(t, IF Now(t).op = "get" THEN Now(t).err ELSE Rest(t))
    /\ IF Now(t).op = "get" THEN Notice(t) ELSE UNCHANGED noticed
    /\ UNCHANGED stray

Call(t) ==
    /\ At(t, {"try", "use"}) /\ Sound(t)
    /\ \/ Continue(t, Rest(t)) /\ UNCHANGED noticed
       \/ Now(t).op = "try" /\ Continue(t, Now(t).err) /\ Notice(t)
    /\ UNCHANGED <<live, freed, junk, lost, stray>>

\* A pointer is followed or released that points to nothing: the process ends here.
Crash(t) ==
    /\ At(t, {"get", "may", "try", "use", "free", "give"})
    /\ Sound(t) => Now(t).op = "free" /\ Now(t).r \in freed \union junk
    /\ stray' = stray \union ({t} \X ((IF Now(t).op = "free" THEN {Now(t).r} ELSE Now(t).uses)
                                         \intersect (freed \union junk)))
    /\ result' = "crash"
    /\ UNCHANGED <<fn, todo, live, freed, junk, lost, noticed>>

Release(t) ==
    /\ At(t, {"free"}) /\ Sound(t) /\ Now(t).r \notin freed \union junk
    /\ Continue(t, Rest(t))
    /\ live' = live \ {Now(t).r} /\ freed' = freed \union ({Now(t).r} \intersect live)
    /\ UNCHANGED <<junk, lost, stray, noticed>>

\* The variable is set to NULL, or to an error code (ERR_PTR), which no test against NULL
\* tells from a pointer.
SetNull(t) ==
    /\ At(t, {"clear", "errptr"}) /\ Continue(t, Rest(t))
    /\ LET r == Now(t).r IN
       /\ lost' = lost \union ({r} \intersect live)
       /\ live' = live \ {r} /\ freed' = freed \ {r}
       /\ junk' = IF Now(t).op = "errptr" THEN junk \union {r} ELSE junk \ {r}
    /\ UNCHANGED <<stray, noticed>>

HandOver(t) ==
    /\ At(t, {"give"}) /\ Sound(t) /\ Continue(t, Rest(t))
    /\ live' = live \ {Now(t).r}
    /\ UNCHANGED <<freed, junk, lost, stray, noticed>>

\* An if on a pointer, an if on data, a loop.
Branch(t) ==
    /\ At(t, {"if", "opt", "loop"})
    /\ LET s == Now(t) IN
       \/ /\ s.op = "if" => s.r \in live \union freed \union junk
          /\ Continue(t, s.err \o (IF s.op = "loop" THEN todo[t] ELSE Rest(t)))
       \/ /\ s.op = "if" => s.r \notin live \union freed
          /\ Continue(t, Rest(t))
    /\ UNCHANGED <<live, freed, junk, lost, stray, noticed>>

\* The test of a pointer that was assigned earlier.
Test(t) ==
    /\ At(t, {"need"})
    /\ \/ /\ Now(t).r \in live \union freed \union junk
          /\ Continue(t, Rest(t)) /\ UNCHANGED noticed
       \/ /\ Now(t).r \notin live \union freed
          /\ Continue(t, Now(t).err) /\ Notice(t)
    /\ UNCHANGED <<live, freed, junk, lost, stray>>

\* Waiting for a lock, or for a thread to end.
Wait(t) ==
    \/ /\ At(t, {"lock"}) /\ Now(t).r \notin live /\ Continue(t, Rest(t))
       /\ live' = live \union {Now(t).r}
       /\ UNCHANGED <<freed, junk, lost, stray, noticed>>
    \/ /\ At(t, {"join"}) /\ (Now(t).r \in DOMAIN todo => todo[Now(t).r] = <<>>)
       /\ Continue(t, Rest(t))
       /\ UNCHANGED <<live, freed, junk, lost, stray, noticed>>

Start(t) ==
    /\ At(t, {"spawn"})
    /\ todo' = (Now(t).r :> Now(t).err) @@ [todo EXCEPT ![t] = Rest(t)]
    /\ UNCHANGED <<fn, live, freed, junk, lost, stray, noticed, result>>

Return(t) ==
    /\ At(t, {"ret", "exit"})
    /\ todo' = [todo EXCEPT ![t] = <<>>]
    /\ result' = IF Now(t).op = "exit" THEN "exit"
                 ELSE IF t = Main THEN Now(t).r ELSE result
    /\ UNCHANGED <<fn, live, freed, junk, lost, stray, noticed>>

\* All threads have ended, or the process has: anything else that stops is a deadlock.
Done == /\ result \in {"crash", "exit"} \/ \A t \in DOMAIN todo : todo[t] = <<>>
        /\ UNCHANGED vars

Next ==
    \/ \E t \in DOMAIN todo :
          \/ Succeed(t) \/ Fail(t) \/ Call(t) \/ Crash(t) \/ Release(t) \/ SetNull(t)
          \/ HandOver(t) \/ Branch(t) \/ Test(t) \/ Wait(t) \/ Start(t) \/ Return(t)
    \/ Done

Spec == Init /\ [][Next]_vars

-----------------------------------------------------------------------------
Over == result \in {"ok", "error", "void"} /\ \A t \in DOMAIN todo : todo[t] = <<>>

\* Whichever calls fail, a function that returns has released or handed over all it
\* acquired, on its error exits too, and every lock it took; the resources it is known
\* to lose are named with it.
NothingLeaked ==
    Over => (live \ Procs[fn].args) \union lost \subseteq Procs[fn].leaks

\* Whichever calls fail, no error exit and no thread releases or follows a pointer whose
\* resource is gone or that was never set, and no code of a module runs that is gone, but
\* for the threads and pointers named with the function.
NoStrayPointer == stray \subseteq Procs[fn].dangling

\* A failure the code looked at is not reported as success, but by the functions that
\* are known to.
NoticedIsReported == result = "ok" /\ noticed => Procs[fn].silent
=============================================================================
