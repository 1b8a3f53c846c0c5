--------------------------- MODULE ContextLifecycle ---------------------------
(***************************************************************************)
(* The lifetime of an interpreter context (stdlib/stdlib.go): the busy     *)
(* count that brackets RunCode, ModuleInit and ResolveAndCompile, and      *)
(* Close, which waits for the count, closes the context, tells its modules *)
(* and signals Done.                                                       *)
(*                                                                         *)
(* One goroutine uses the context, as py/run.go demands; any number of     *)
(* others may Close it at any time, which py/run.go allows.  The count is  *)
(* a sync.WaitGroup and `closed` a plain bool, read and written without a  *)
(* lock.  (A read that returns a value overwritten meanwhile is the same   *)
(* as a read that came earlier: nothing else of the user's goroutine lies  *)
(* between the end of a call and the check of the next.)                   *)
(***************************************************************************)
EXTENDS Naturals, FiniteSets

CONSTANTS
    Closers,     \* goroutines that call Close
    MaxNesting   \* bound: calls nested in each other (ModuleInit runs code,
                 \* the code imports, the import runs code ...)

ASSUME NestingAssumption == MaxNesting \in Nat \ {0}

VARIABLES
    closed,    \* context.closed
    running,   \* context.running, the counter of the WaitGroup
    signalled, \* context.done is closed
    once,      \* context.closeOnce: "new", "running", "done"
    notified,  \* how often the modules were told (OnContextClosed)
    depth,     \* the user's bracketed calls in progress, one in the other
    user,      \* where the user is: in its "code" or inside pushBusy
    closer,    \* where the goroutines that Close are
    late,      \* history: Close had stopped waiting when the outermost call
               \* in progress was counted
    panicked   \* the process is dead

user_vars == <<depth, user, late>>
close_vars == <<closed, signalled, once, notified>>
vars == <<closed, running, signalled, once, notified, depth, user, closer,
          late, panicked>>

(* Where a Close that got hold of the Once is; from "waited" on it does    *)
(* not wait for calls any more.                                            *)
Past == {"waited", "closed", "notified"}
Closing == {"wait", "asleep", "woken"} \cup Past

TypeOK ==
    /\ closed \in BOOLEAN
    /\ running \in 0..MaxNesting
    /\ signalled \in BOOLEAN
    /\ once \in {"new", "running", "done"}
    /\ notified \in Nat
    /\ depth \in 0..MaxNesting
    /\ user \in {"code", "allowed", "refused"}
    /\ closer \in [Closers -> {"start", "returned"} \cup Closing]
    /\ late \in BOOLEAN
    /\ panicked \in BOOLEAN

(* NewContext; the imports it does itself are over.                        *)
Init ==
    /\ closed = FALSE
    /\ running = 0
    /\ signalled = FALSE
    /\ once = "new"
    /\ notified = 0
    /\ depth = 0
    /\ user = "code"
    /\ closer = [c \in Closers |-> "start"]
    /\ late = FALSE
    /\ panicked = FALSE

NoLongerWaiting == signalled \/ \E c \in Closers : closer[c] \in Past
-------------------------------------------------------------------------------
(* pushBusy looks at `closed`,                                             *)
PushBusyChecks ==
    /\ ~panicked /\ user = "code" /\ depth < MaxNesting
    /\ user' = IF closed THEN "refused" ELSE "allowed"
    /\ UNCHANGED <<close_vars, running, depth, closer, late, panicked>>

(* and counts the call; wrong: count the outermost call only.              *)
AddOutermost == IF depth = 0 THEN running + 1 ELSE running
Add == running + 1

PushBusyAdds ==
    /\ ~panicked /\ user = "allowed"
    /\ running' = Add
    /\ depth' = depth + 1
    /\ late' = IF depth = 0 THEN NoLongerWaiting ELSE late
    /\ user' = "code"
    /\ UNCHANGED <<close_vars, closer, panicked>>

(* popBusy: WaitGroup.Done panics below zero, and at zero it lets go of    *)
(* the goroutine asleep in Wait.                                           *)
Woken(pc) == IF pc = "asleep" THEN "woken" ELSE pc
PopBusyForgotten ==
    UNCHANGED <<running, closer, panicked>>
PopBusy ==
    \/ /\ running = 0
       /\ panicked' = TRUE
       /\ UNCHANGED <<running, closer>>
    \/ /\ running > 0
       /\ running' = running - 1
       /\ closer' = IF running = 1
                    THEN [c \in Closers |-> Woken(closer[c])] ELSE closer
       /\ UNCHANGED panicked

(* The innermost call ends, and its deferred popBusy runs.                 *)
EndCall ==
    /\ ~panicked /\ user = "code" /\ depth > 0
    /\ PopBusy
    /\ depth' = depth - 1
    /\ late' = (late /\ depth > 1)
    /\ UNCHANGED <<close_vars, user>>

(* A call that pushBusy refused returns its error; popBusy was deferred    *)
(* before the error was looked at.                                         *)
RefusedCallReturns ==
    /\ ~panicked /\ user = "refused"
    /\ PopBusy
    /\ user' = "code"
    /\ UNCHANGED <<close_vars, depth, late>>
-------------------------------------------------------------------------------
(* closeOnce.Do admits the first Close, and keeps the others until it is   *)
(* done; wrong: admit who comes before it is done.                         *)
OnceAdmitsMany == once # "done"
OnceAdmits == once = "new"

CloseStarts(c) ==
    /\ ~panicked /\ closer[c] = "start"
    /\ OnceAdmits
    /\ once' = "running"
    /\ closer' = [closer EXCEPT ![c] = "wait"]
    /\ UNCHANGED <<user_vars, closed, running, signalled, notified, panicked>>

CloseAgain(c) ==
    /\ ~panicked /\ closer[c] = "start"
    /\ once = "done"
    /\ closer' = [closer EXCEPT ![c] = "returned"]
    /\ UNCHANGED <<user_vars, close_vars, running, panicked>>

(* running.Wait: pass at zero or fall asleep; when it is woken, the count  *)
(* must still be zero or Wait panics.                                      *)
NobodyWaitedFor == TRUE
NobodyBusy == running = 0

WaitPasses(c) ==
    /\ ~panicked /\ closer[c] = "wait"
    /\ NobodyBusy
    /\ closer' = [closer EXCEPT ![c] = "waited"]
    /\ UNCHANGED <<user_vars, close_vars, running, panicked>>

WaitSleeps(c) ==
    /\ ~panicked /\ closer[c] = "wait"
    /\ ~NobodyBusy
    /\ closer' = [closer EXCEPT ![c] = "asleep"]
    /\ UNCHANGED <<user_vars, close_vars, running, panicked>>

WaitWakes(c) ==
    /\ ~panicked /\ closer[c] = "woken"
    /\ \/ /\ running = 0
          /\ closer' = [closer EXCEPT ![c] = "waited"]
          /\ UNCHANGED panicked
       \/ /\ running # 0
          /\ panicked' = TRUE
          /\ UNCHANGED closer
    /\ UNCHANGED <<user_vars, close_vars, running>>

CloseSetsClosed(c) ==
    /\ ~panicked /\ closer[c] = "waited"
    /\ closed' = TRUE
    /\ closer' = [closer EXCEPT ![c] = "closed"]
    /\ UNCHANGED <<user_vars, running, signalled, once, notified, panicked>>

CloseNotifies(c) ==
    /\ ~panicked /\ closer[c] = "closed"
    /\ notified' = notified + 1
    /\ closer' = [closer EXCEPT ![c] = "notified"]
    /\ UNCHANGED <<user_vars, closed, running, signalled, once, panicked>>

CloseSignals(c) ==
    /\ ~panicked /\ closer[c] = "notified"
    /\ signalled' = TRUE
    /\ once' = "done"
    /\ closer' = [closer EXCEPT ![c] = "returned"]
    /\ panicked' = signalled
    /\ UNCHANGED <<user_vars, closed, running, notified>>

Close(c) ==
    \/ CloseStarts(c) \/ CloseAgain(c)
    \/ WaitPasses(c) \/ WaitSleeps(c) \/ WaitWakes(c)
    \/ CloseSetsClosed(c) \/ CloseNotifies(c) \/ CloseSignals(c)

User == PushBusyChecks \/ PushBusyAdds \/ EndCall \/ RefusedCallReturns

Next == User \/ \E c \in Closers : Close(c)

(* The goroutines run, and every call ends (the execution budget sees to   *)
(* that), however many calls it makes itself before it does.               *)
Fairness ==
    /\ \A c \in Closers : WF_vars(Close(c))
    /\ WF_vars(PushBusyAdds) /\ WF_vars(RefusedCallReturns)
    /\ \A d \in 1..MaxNesting : SF_vars(EndCall /\ depth = d)

Spec == Init /\ [][Next]_vars /\ Fairness
-------------------------------------------------------------------------------
(* Until the context is closed, its busy count is the number of calls that *)
(* are in progress, however they nest and end.                             *)
CountIsExact == ~closed => running = depth

(* Done is signalled when no call is in progress, unless the call slipped  *)
(* in between pushBusy's look at `closed` and its Add: the calls counted   *)
(* while Close still waits have all returned.                              *)
CountedCallsHoldDone == NoLongerWaiting /\ depth > 0 => late

(* However many goroutines Close the context, its modules are told once,   *)
(* before Done is signalled, and no Close returns before that.             *)
ClosesOnce ==
    /\ notified <= 1
    /\ signalled => closed /\ notified = 1
    /\ \A c \in Closers : closer[c] = "returned" => signalled

(* Every Close that starts returns, if the process lives.                  *)
EveryCloseReturns ==
    \A c \in Closers :
        closer[c] = "wait" ~> closer[c] = "returned" \/ panicked
-------------------------------------------------------------------------------
(* py/run.go: "Code execution on a py.Context that has been closed will    *)
(* result in an error", and an error is not a panic.                       *)
RefusalIsAnError == [][RefusedCallReturns => ~panicked']_vars

(* py/run.go: "If Close() is called while execution in progress, Done()    *)
(* will not signal until execution is complete."                           *)
DoneMeansIdle == signalled => depth = 0
===============================================================================
