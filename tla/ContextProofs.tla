----------------------------- MODULE ContextProofs -----------------------------
(***************************************************************************)
(* Proofs, for any number of goroutines that close an interpreter context  *)
(* and any nesting of calls, of the safety of its lifecycle.               *)
(***************************************************************************)
EXTENDS ContextLifecycle, TLAPS

(* The user: what is counted, and that a call slips in only past a Close   *)
(* that has stopped waiting.                                               *)
Counting ==
    /\ ~closed => running = depth
    /\ running <= depth
    /\ depth > 0 /\ ~late => running = depth /\ ~NoLongerWaiting
    /\ closed => NoLongerWaiting
    /\ user = "refused" => closed
    /\ user = "allowed" => depth < MaxNesting

(* The closers: one at a time, and how far it is.                          *)
Alone(c) == \A d \in Closers : d # c => closer[d] = "start"
CloseOrder ==
    /\ once = "new" => /\ \A c \in Closers : closer[c] = "start"
                       /\ ~signalled /\ ~closed /\ notified = 0
    /\ once = "running" => ~signalled
    /\ once = "done" => /\ signalled /\ closed /\ notified = 1
                        /\ \A c \in Closers : closer[c] \in {"start", "returned"}
    /\ \A c \in Closers : closer[c] \in Closing => once = "running" /\ Alone(c)
    /\ \A c \in Closers : closer[c] = "returned" => once = "done"
    /\ \A c \in Closers :
          closer[c] \in {"wait", "asleep", "woken", "waited"}
             => notified = 0 /\ ~closed
    /\ \A c \in Closers : closer[c] = "closed" => notified = 0 /\ closed
    /\ \A c \in Closers : closer[c] = "notified" => notified = 1 /\ closed
    /\ notified <= 1

ContextInv == TypeOK /\ Counting /\ CloseOrder
-------------------------------------------------------------------------------
LEMMA ContextInit == Init => ContextInv
<1> SUFFICES ASSUME Init PROVE ContextInv
  OBVIOUS
<1>1. MaxNesting \in Nat /\ MaxNesting > 0 /\ 0 \in 0..MaxNesting
  BY NestingAssumption
<1>2. /\ closer = [c \in Closers |-> "start"] /\ once = "new" /\ user = "code"
      /\ ~closed /\ ~signalled /\ running = 0 /\ depth = 0 /\ notified = 0
  BY DEF Init
<1>3. TypeOK
  BY <1>1 DEF Init, TypeOK
<1>4. Counting
  BY <1>1, <1>2 DEF Counting
<1>5. CloseOrder
  BY <1>2 DEF CloseOrder, Closing, Past
<1> QED BY <1>3, <1>4, <1>5 DEF ContextInv

(* popBusy.                                                                *)
LEMMA PopBusyKeeps ==
    ASSUME ContextInv, PopBusy
    PROVE  /\ closer' \in [Closers -> {"start", "returned"} \cup Closing]
           /\ panicked' \in BOOLEAN
           /\ running' \in 0..MaxNesting
           /\ \/ running = 0 /\ running' = 0
              \/ running > 0 /\ running' = running - 1
           /\ \A c \in Closers :
                 \/ closer'[c] = closer[c]
                 \/ closer[c] = "asleep" /\ closer'[c] = "woken"
<1>1. /\ closer \in [Closers -> {"start", "returned"} \cup Closing]
      /\ running \in 0..MaxNesting /\ panicked \in BOOLEAN /\ MaxNesting \in Nat
  BY NestingAssumption DEF ContextInv, TypeOK
<1>2. CASE running = 0 /\ panicked' = TRUE /\ UNCHANGED <<running, closer>>
  BY <1>1, <1>2
<1>3. CASE /\ running > 0 /\ running' = running - 1
           /\ closer' = IF running = 1
                        THEN [c \in Closers |-> Woken(closer[c])] ELSE closer
           /\ UNCHANGED panicked
  <2>1. running \in Nat /\ running - 1 \in 0..MaxNesting
    BY <1>1, <1>3
  <2>2. CASE running = 1
    BY <1>1, <1>3, <2>1, <2>2 DEF Woken, Closing
  <2>3. CASE running # 1
    BY <1>1, <1>3, <2>1, <2>3
  <2> QED BY <2>2, <2>3
<1> QED BY <1>2, <1>3 DEF PopBusy

(* CloseOrder does not tell a closer that sleeps from one that was woken.     *)
LEMMA ClosersKept ==
    ASSUME ContextInv, close_vars' = close_vars,
           closer' \in [Closers -> {"start", "returned"} \cup Closing],
           \A c \in Closers : \/ closer'[c] = closer[c]
                              \/ closer[c] = "asleep" /\ closer'[c] = "woken"
    PROVE  CloseOrder' /\ NoLongerWaiting' = NoLongerWaiting
  BY DEF ContextInv, CloseOrder, close_vars, NoLongerWaiting, Past, Closing, Alone

LEMMA UserKeeps == ASSUME ContextInv, User PROVE ContextInv'
<1>0. /\ running \in 0..MaxNesting /\ depth \in 0..MaxNesting
      /\ MaxNesting \in Nat
  BY NestingAssumption DEF ContextInv, TypeOK
<1>1. CASE PushBusyChecks
  <2>1. CloseOrder' /\ NoLongerWaiting' = NoLongerWaiting
    BY <1>1, ClosersKept DEF PushBusyChecks, ContextInv, TypeOK
  <2> QED BY <1>0, <1>1, <2>1
          DEF PushBusyChecks, ContextInv, TypeOK, Counting, close_vars
<1>2. CASE PushBusyAdds
  <2>1. CloseOrder' /\ NoLongerWaiting' = NoLongerWaiting
    BY <1>2, ClosersKept DEF PushBusyAdds, ContextInv, TypeOK
  <2>2. TypeOK'
    <3>1. running + 1 \in 0..MaxNesting /\ depth + 1 \in 0..MaxNesting
      BY <1>0, <1>2 DEF PushBusyAdds, ContextInv, Counting
    <3>2. NoLongerWaiting \in BOOLEAN
      BY DEF NoLongerWaiting, ContextInv, TypeOK
    <3> QED BY <1>2, <3>1, <3>2
            DEF PushBusyAdds, Add, ContextInv, TypeOK, close_vars
  <2>3. Counting'
    BY <1>0, <1>2, <2>1
       DEF PushBusyAdds, Add, ContextInv, Counting, close_vars
  <2> QED BY <2>1, <2>2, <2>3 DEF ContextInv
<1>3. CASE EndCall
  <2>1. CloseOrder' /\ NoLongerWaiting' = NoLongerWaiting
    BY <1>3, PopBusyKeeps, ClosersKept DEF EndCall
  <2>2. TypeOK'
    BY <1>0, <1>3, PopBusyKeeps DEF EndCall, ContextInv, TypeOK, close_vars
  <2>3. Counting'
    <3>1. /\ UNCHANGED <<closed, user>> /\ user = "code"
          /\ depth > 0 /\ depth' = depth - 1
          /\ depth > 1 /\ ~late' => ~late
      BY <1>3 DEF EndCall, close_vars
    <3>2. \/ running = 0 /\ running' = 0
          \/ running > 0 /\ running' = running - 1
      BY <1>3, PopBusyKeeps DEF EndCall
    <3>3. Counting /\ (NoLongerWaiting' <=> NoLongerWaiting)
      BY <2>1 DEF ContextInv
    <3>4. CASE running = 0 /\ running' = 0
      BY <1>0, <3>1, <3>3, <3>4 DEF Counting
    <3>5. CASE running > 0 /\ running' = running - 1
      BY <1>0, <3>1, <3>3, <3>5 DEF Counting
    <3> QED BY <3>2, <3>4, <3>5
  <2> QED BY <2>1, <2>2, <2>3 DEF ContextInv
<1>4. CASE RefusedCallReturns
  <2>1. CloseOrder' /\ NoLongerWaiting' = NoLongerWaiting
    BY <1>4, PopBusyKeeps, ClosersKept DEF RefusedCallReturns
  <2>2. TypeOK'
    BY <1>4, PopBusyKeeps DEF RefusedCallReturns, ContextInv, TypeOK, close_vars
  <2>3. Counting'
    BY <1>0, <1>4, <2>1, PopBusyKeeps
       DEF RefusedCallReturns, ContextInv, Counting, close_vars
  <2> QED BY <2>1, <2>2, <2>3 DEF ContextInv
<1> QED BY <1>1, <1>2, <1>3, <1>4 DEF User

LEMMA CloserKeeps ==
    ASSUME ContextInv, NEW c \in Closers, Close(c) PROVE ContextInv'
<1>0. /\ running \in 0..MaxNesting /\ depth \in 0..MaxNesting
      /\ MaxNesting \in Nat /\ notified \in Nat
      /\ closer \in [Closers -> {"start", "returned"} \cup Closing]
  BY NestingAssumption DEF ContextInv, TypeOK
<1>1. TypeOK'
  <2>1. \A pc \in {"wait", "asleep", "waited", "closed", "notified", "returned"} :
           [closer EXCEPT ![c] = pc]
              \in [Closers -> {"start", "returned"} \cup Closing]
    BY <1>0 DEF Closing, Past
  <2>2. CASE CloseStarts(c) \/ CloseAgain(c)
    BY <1>0, <2>1, <2>2 DEF CloseStarts, CloseAgain, ContextInv, TypeOK,
                            user_vars, close_vars
  <2>4. CASE WaitPasses(c) \/ WaitSleeps(c) \/ WaitWakes(c)
    BY <1>0, <2>1, <2>4 DEF WaitPasses, WaitSleeps, WaitWakes, ContextInv,
                            TypeOK, user_vars, close_vars
  <2>3. CASE CloseSetsClosed(c)
    BY <1>0, <2>1, <2>3 DEF CloseSetsClosed, ContextInv, TypeOK, user_vars
  <2>6. CASE CloseNotifies(c)
    BY <1>0, <2>1, <2>6 DEF CloseNotifies, ContextInv, TypeOK, user_vars
  <2>5. CASE CloseSignals(c)
    BY <1>0, <2>1, <2>5 DEF CloseSignals, ContextInv, TypeOK, user_vars
  <2> QED BY <2>2, <2>3, <2>4, <2>5, <2>6 DEF Close
<1>2. CloseOrder'
  <2>1. CASE CloseStarts(c) \/ CloseAgain(c)
    BY <1>0, <2>1 DEF CloseStarts, CloseAgain, OnceAdmits, ContextInv, CloseOrder,
                      Closing, Past, Alone, user_vars, close_vars
  <2>2. CASE WaitPasses(c) \/ WaitSleeps(c) \/ WaitWakes(c)
    BY <1>0, <2>2 DEF WaitPasses, WaitSleeps, WaitWakes, ContextInv, CloseOrder,
                      Closing, Past, Alone, user_vars, close_vars
  <2>3. CASE CloseSetsClosed(c) \/ CloseNotifies(c)
    BY <1>0, <2>3 DEF CloseSetsClosed, CloseNotifies, ContextInv, CloseOrder,
                      Closing, Past, Alone, user_vars
  <2>4. CASE CloseSignals(c)
    BY <1>0, <2>4 DEF CloseSignals, ContextInv, CloseOrder, Closing, Past, Alone,
                      user_vars
  <2> QED BY <2>1, <2>2, <2>3, <2>4 DEF Close
<1>3. Counting'
  <2>1. CASE CloseStarts(c) \/ CloseAgain(c) \/ WaitSleeps(c)
    <3>1. NoLongerWaiting' = NoLongerWaiting
      BY <1>0, <2>1 DEF CloseStarts, CloseAgain, WaitSleeps, NoLongerWaiting,
                        Past, close_vars
    <3> QED BY <2>1, <3>1 DEF CloseStarts, CloseAgain, WaitSleeps, ContextInv,
                              Counting, user_vars, close_vars
  <2>2. CASE WaitPasses(c) \/ WaitWakes(c)
    <3>1. CASE running = 0
      BY <1>0, <2>2, <3>1 DEF WaitPasses, WaitWakes, ContextInv, Counting,
                              NoLongerWaiting, Past, user_vars, close_vars
    <3>2. CASE running # 0
      BY <1>0, <2>2, <3>2 DEF WaitPasses, NobodyBusy, WaitWakes, ContextInv,
                              Counting, NoLongerWaiting, user_vars, close_vars
    <3> QED BY <3>1, <3>2
  <2>3. CASE CloseSetsClosed(c) \/ CloseNotifies(c) \/ CloseSignals(c)
    <3>1. NoLongerWaiting /\ NoLongerWaiting'
      BY <1>0, <2>3 DEF CloseSetsClosed, CloseNotifies, CloseSignals,
                        NoLongerWaiting, Past
    <3> QED BY <2>3, <3>1 DEF CloseSetsClosed, CloseNotifies, CloseSignals,
                              ContextInv, Counting, user_vars
  <2> QED BY <2>1, <2>2, <2>3 DEF Close
<1> QED BY <1>1, <1>2, <1>3 DEF ContextInv

LEMMA ContextStep == ASSUME ContextInv, [Next]_vars PROVE ContextInv'
<1>1. CASE UNCHANGED vars
  BY <1>1 DEF vars, ContextInv, TypeOK, Counting, CloseOrder, NoLongerWaiting, Alone
<1> QED BY <1>1, UserKeeps, CloserKeeps DEF Next

THEOREM ContextInvariant == Spec => []ContextInv
  BY ContextInit, ContextStep, PTL DEF Spec

(* The state of the context is well formed: its busy count never leaves    *)
(* 0..MaxNesting, also when popBusy meets a count of zero.                 *)
THEOREM ContextTypeOK == Spec => []TypeOK
<1>1. ContextInv => TypeOK
  BY DEF ContextInv
<1> QED BY <1>1, ContextInvariant, PTL
-------------------------------------------------------------------------------
(* Until the context is closed its busy count is the number of the calls   *)
(* in progress: pushBusy and popBusy bracket every path of every call.     *)
THEOREM ContextCountIsExact == Spec => []CountIsExact
<1>1. ContextInv => CountIsExact
  BY DEF ContextInv, Counting, CountIsExact
<1> QED BY <1>1, ContextInvariant, PTL

(* A call counted while Close waits holds up the signal of Done: only one  *)
(* that slips in between pushBusy's two steps is in progress after it.     *)
THEOREM ContextCallsHoldDone == Spec => []CountedCallsHoldDone
<1>1. ContextInv => CountedCallsHoldDone
  BY DEF ContextInv, Counting, CountedCallsHoldDone
<1> QED BY <1>1, ContextInvariant, PTL

(* Any number of goroutines may Close the context: its modules are told    *)
(* once, before Done is signalled, and none of them returns earlier.       *)
THEOREM ContextClosesOnce == Spec => []ClosesOnce
<1>1. ContextInv => ClosesOnce
  <2> SUFFICES ASSUME ContextInv PROVE ClosesOnce
    OBVIOUS
  <2>1. once \in {"new", "running", "done"}
    BY DEF ContextInv, TypeOK
  <2> QED BY <2>1 DEF ContextInv, CloseOrder, ClosesOnce
<1> QED BY <1>1, ContextInvariant, PTL
===============================================================================
