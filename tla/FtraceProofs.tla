---------------------------- MODULE FtraceProofs ----------------------------
(***************************************************************************)
(* FtraceDirect for any set of tasks that call schedule().                 *)
(***************************************************************************)
EXTENDS FtraceDirect, TLAPS

\* The thread exists exactly while its module does, and only it can make
\* my_tramp and ftrace disagree; once stop is set there is one swap left in it,
\* and none after it has looked at the flag.
IInv ==
  /\ FieldsOK
  /\ mod \in {"out", "registered"} => pc = "none" /\ ~stop /\ ret = 0 /\ t = 0
                                    /\ my_tramp = tramps(0) /\ late = 0
  /\ mod \in {"out", "registered"} => simple_tsk = "none"
  /\ mod \in {"waking", "joining", "joined", "draining", "gone"} => simple_tsk = "task" /\ stop
  /\ simple_tsk = "task" <=> pc # "none"
  /\ mod = "in" => ~stop /\ simple_tsk # "none"
  /\ mod \in {"joined", "draining", "gone"} => pc = "done"
  /\ pc = "done" => stop
  /\ mod \in {"out", "draining", "gone"} => installed = "none"
  /\ mod \in {"out", "gone"} => \A c \in Callers : caller[c] = "none"
  /\ mod \in {"registered", "in", "waking", "joining", "joined"} /\ pc # "store"
       => installed = my_tramp
  /\ pc = "store" => installed = tramps(t) /\ my_tramp = tramps(1 - t) /\ ret = 0
  /\ pc # "store" /\ ret = 0 => my_tramp = tramps(t)
  /\ ~stop => late = 0
  /\ late = 1 => pc \in {"store", "check", "done"}
  /\ late <= 1

LEMMA IInvInit == Init => IInv
BY FtraceAssumption DEF Init, IInv, FieldsOK, Tramps, tramps

LEMMA IInvStep == IInv /\ [Next]_vars => IInv'
<1> SUFFICES ASSUME IInv, [Next]_vars PROVE IInv'
  OBVIOUS
<1> USE FtraceAssumption DEF IInv, FieldsOK, Tramps, tramps, thread, Goto
<1>1. ASSUME Register PROVE IInv'
  BY <1>1 DEF Register
<1>2. ASSUME KthreadRun PROVE IInv'
  BY <1>2 DEF KthreadRun
<1>3. ASSUME CheckStop PROVE IInv'
  BY <1>3 DEF CheckStop
<1>4. ASSUME SetState PROVE IInv'
  BY <1>4 DEF SetState
<1>5. ASSUME Schedule PROVE IInv'
  BY <1>5 DEF Schedule
<1>6. ASSUME Skip PROVE IInv'
  BY <1>6 DEF Skip
<1>7. ASSUME Modify PROVE IInv'
  BY <1>7 DEF Modify, SwapTo
<1>8. ASSUME Store PROVE IInv'
  BY <1>8 DEF Store
<1>9. ASSUME TimerFires PROVE IInv'
  BY <1>9 DEF TimerFires
<1>10. ASSUME RequestStop PROVE IInv'
  <2>1. CASE simple_tsk = "err"
    BY <1>10, <2>1 DEF RequestStop
  <2>2. CASE simple_tsk # "err"
    <3>1. mod = "in" /\ mod' = "waking" /\ stop'
      BY <1>10, <2>2, Zenon DEF RequestStop
    <3>2. UNCHANGED <<simple_tsk, pc, ret, t, my_tramp, installed, late, caller>>
      BY <1>10, Zenon DEF RequestStop
    <3>3. QED
      BY <2>2, <3>1, <3>2
  <2>3. QED
    BY <2>1, <2>2
<1>11. ASSUME WakeUp PROVE IInv'
  BY <1>11 DEF WakeUp
<1>12. ASSUME Join PROVE IInv'
  BY <1>12 DEF Join
<1>13. ASSUME Unregister PROVE IInv'
  BY <1>13 DEF Unregister
<1>14. ASSUME Drained PROVE IInv'
  BY <1>14 DEF Drained
<1>15. ASSUME Reload PROVE IInv'
  BY <1>15 DEF Reload
<1>16. ASSUME NEW c \in Callers, CallerEnter(c) PROVE IInv'
  BY <1>16 DEF CallerEnter
<1>17. ASSUME NEW c \in Callers, CallerLeave(c) PROVE IInv'
  BY <1>17 DEF CallerLeave
<1>18. ASSUME UNCHANGED vars PROVE IInv'
  BY <1>18 DEF vars
<1>19. QED
  BY <1>1, <1>2, <1>3, <1>4, <1>5, <1>6, <1>7, <1>8, <1>9, <1>10, <1>11, <1>12, <1>13, <1>14, <1>15, <1>16, <1>17, <1>18 DEF Next, Load, Exit, Thread

LEMMA FlagsStep == FlagsOK /\ [Next]_vars => FlagsOK'
<1> SUFFICES ASSUME FlagsOK, [Next]_vars PROVE FlagsOK'
  OBVIOUS
<1> USE DEF FlagsOK
<1>1. ASSUME Register PROVE FlagsOK'
  BY <1>1, Zenon DEF Register
<1>2. ASSUME KthreadRun PROVE FlagsOK'
  BY <1>2, Zenon DEF KthreadRun
<1>3. ASSUME CheckStop PROVE FlagsOK'
  BY <1>3, Zenon DEF CheckStop
<1>4. ASSUME SetState PROVE FlagsOK'
  BY <1>4, Zenon DEF SetState
<1>5. ASSUME Schedule PROVE FlagsOK'
  BY <1>5, Zenon DEF Schedule
<1>6. ASSUME Skip PROVE FlagsOK'
  BY <1>6, Zenon DEF Skip
<1>7. ASSUME Modify PROVE FlagsOK'
  BY <1>7, Zenon DEF Modify, SwapTo
<1>8. ASSUME Store PROVE FlagsOK'
  BY <1>8, Zenon DEF Store
<1>9. ASSUME TimerFires PROVE FlagsOK'
  BY <1>9, Zenon DEF TimerFires
<1>10. ASSUME RequestStop PROVE FlagsOK'
  BY <1>10, Zenon DEF RequestStop
<1>11. ASSUME WakeUp PROVE FlagsOK'
  BY <1>11, Zenon DEF WakeUp
<1>12. ASSUME Join PROVE FlagsOK'
  BY <1>12, Zenon DEF Join
<1>13. ASSUME Unregister PROVE FlagsOK'
  BY <1>13, Zenon DEF Unregister
<1>14. ASSUME Drained PROVE FlagsOK'
  BY <1>14, Zenon DEF Drained
<1>15. ASSUME Reload PROVE FlagsOK'
  BY <1>15, Zenon DEF Reload
<1>16. ASSUME NEW c \in Callers, CallerEnter(c) PROVE FlagsOK'
  BY <1>16, Zenon DEF CallerEnter
<1>17. ASSUME NEW c \in Callers, CallerLeave(c) PROVE FlagsOK'
  BY <1>17, Zenon DEF CallerLeave
<1>18. ASSUME UNCHANGED vars PROVE FlagsOK'
  BY <1>18, Zenon DEF vars
<1>19. QED
  BY <1>1, <1>2, <1>3, <1>4, <1>5, <1>6, <1>7, <1>8, <1>9, <1>10, <1>11, <1>12, <1>13, <1>14, <1>15, <1>16, <1>17, <1>18 DEF Next, Load, Exit, Thread

LEMMA Invariance == Spec => [](IInv /\ FlagsOK)
<1>1. Init => FlagsOK
  BY Zenon DEF Init, FlagsOK
<1>2. QED
  BY <1>1, IInvInit, IInvStep, FlagsStep, PTL DEF Spec

\* The types of all variables.
THEOREM TypeCorrect == Spec => []TypeOK
<1>1. IInv /\ FlagsOK => TypeOK
  BY DEF IInv, TypeOK
<1>2. QED
  BY <1>1, Invariance, PTL

\* ftrace_direct_exit always detaches the trampoline that is attached.
THEOREM DetachIsExact == Spec => []DetachFindsTramp
<1>1. IInv => DetachFindsTramp
  BY DEF IInv, DetachFindsTramp
<1>2. QED
  BY <1>1, Invariance, PTL

\* No task is ever left in a trampoline of the unloaded module, for any number
\* of tasks.
THEOREM UnloadIsSafe == Spec => []NoCallerLeftBehind
<1>1. IInv => NoCallerLeftBehind
  BY DEF IInv, NoCallerLeftBehind
<1>2. QED
  BY <1>1, Invariance, PTL

\* The thread only ever swaps one trampoline for the other.
THEOREM SwapsDoAlternate == Spec => []SwapsAlternate
<1>1. IInv => SwapsAlternate
  BY DEF IInv, FieldsOK, SwapsAlternate, tramps
<1>2. QED
  BY <1>1, Invariance, PTL

\* At most one swap follows the request to stop.
THEOREM OneLateSwap == Spec => []AtMostOneLateSwap
<1>1. IInv => AtMostOneLateSwap
  BY DEF IInv, AtMostOneLateSwap
<1>2. QED
  BY <1>1, Invariance, PTL

-----------------------------------------------------------------------------
(* The safety half of ExitCompletes.                                       *)

\* How many steps rmmod and the thread have before them, once rmmod has set stop.
ModSteps(m) == CASE m = "waking" -> 4 [] m = "joining" -> 3 [] m = "joined" -> 2 [] m = "draining" -> 1
                 [] OTHER -> 0
ThreadSteps(p) == CASE p = "set" -> 6 [] p = "sched" -> 5 [] p = "asleep" -> 4 [] p = "woken" -> 3
                    [] p = "store" -> 2 [] p = "check" -> 1 [] OTHER -> 0
Ahead == ModSteps(mod) + ThreadSteps(pc)

Exiting == mod \in {"waking", "joining", "joined", "draining"}

\* Somebody can go on: rmmod itself, the thread it waits for or its timer, a
\* task inside the trampoline.
SomeoneCanGoOn ==
  /\ mod = "joining" => pc = "done" \/ ThreadSteps(pc) > 0
  /\ mod = "draining" => (\A c \in Callers : caller[c] = "none") \/ \E c \in Callers : caller[c] \in Tramps

\* While rmmod waits for the thread there is a thread, at a point it can go on
\* from, wherever the wake-up found it.
THEOREM ExitIsNeverStuck == Spec => [](SomeoneCanGoOn /\ Ahead \in 0 .. 10)
<1>1. IInv => SomeoneCanGoOn /\ Ahead \in 0 .. 10
  <2> SUFFICES ASSUME IInv PROVE SomeoneCanGoOn /\ Ahead \in 0 .. 10
    OBVIOUS
  <2>1. ThreadSteps(pc) \in 0 .. 6 /\ ModSteps(mod) \in 0 .. 4
    BY DEF ThreadSteps, ModSteps
  <2>2. pc # "none" /\ pc # "done" => ThreadSteps(pc) > 0
    BY DEF ThreadSteps, IInv, FieldsOK
  <2>3. mod = "joining" => pc # "none"
    BY DEF IInv
  <2>4. \A c \in Callers : caller[c] = "none" \/ caller[c] \in Tramps
    BY DEF IInv, FieldsOK
  <2>5. QED
    BY <2>1, <2>2, <2>3, <2>4 DEF SomeoneCanGoOn, Ahead
<1>2. QED
  BY <1>1, Invariance, PTL

\* Every step of an exit but a task's lowers what is ahead, a task's leaves it,
\* and while rmmod waits for the tasks none comes in.
GetsCloser ==
  Exiting => /\ Ahead' < Ahead \/ (Ahead' = Ahead /\ caller' # caller)
             /\ mod = "draining" => \A c \in Callers : caller[c] = "none" => caller'[c] = "none"

\* So rmmod is done after ten steps of its own, the thread's and the timer's,
\* although wake_up_process may come before the thread sleeps.
THEOREM ExitGetsCloser == Spec => [][GetsCloser]_vars
<1>1. IInv /\ [Next]_vars => [GetsCloser]_vars
  <2> SUFFICES ASSUME IInv, Next, Exiting, vars' # vars PROVE GetsCloser
    BY DEF GetsCloser
  <2>0. /\ stop /\ simple_tsk = "task" /\ pc # "none"
        /\ mod \in {"joined", "draining"} => pc = "done"
        /\ mod = "draining" => installed = "none"
    BY DEF IInv, Exiting
  <2> USE DEF GetsCloser, Ahead, Exiting, Goto
  <2>1. CASE CheckStop \/ SetState \/ Schedule \/ TimerFires \/ Skip \/ Store
    <3>1. mod' = mod /\ caller' = caller
      BY <2>1 DEF CheckStop, SetState, Schedule, TimerFires, Skip, Store
    <3>2. ThreadSteps(pc') < ThreadSteps(pc) /\ ThreadSteps(pc) \in Int /\ ThreadSteps(pc') \in Int
      <4>1. CASE CheckStop \/ Store
        <5>1. <<pc, pc'>> \in {<<"check", "done">>, <<"store", "check">>}
          <6>1. CheckStop => pc = "check" /\ pc' = "done"
            BY <2>0, Zenon DEF CheckStop
          <6>2. Store => pc = "store" /\ pc' = "check"
            BY DEF Store
          <6>3. QED
            BY <4>1, <6>1, <6>2
        <5>2. QED
          BY <5>1 DEF ThreadSteps
      <4>2. CASE SetState \/ TimerFires \/ Skip
        BY <4>2 DEF SetState, TimerFires, Skip, ThreadSteps
      <4>3. CASE Schedule
        BY <4>3 DEF Schedule, ThreadSteps
      <4>4. QED
        BY <2>1, <4>1, <4>2, <4>3
    <3>3. ModSteps(mod) \in Int
      BY DEF ModSteps
    <3>4. QED
      BY <3>1, <3>2, <3>3
  <2>2. CASE Modify
    <3>1. mod' = mod /\ caller' = caller /\ pc = "woken" /\ pc' \in {"store", "check"}
      BY <2>2 DEF Modify, SwapTo
    <3>2. ThreadSteps(pc') < ThreadSteps(pc) /\ ThreadSteps(pc) \in Int /\ ThreadSteps(pc') \in Int
      BY <3>1 DEF ThreadSteps
    <3>3. ModSteps(mod) \in Int
      BY DEF ModSteps
    <3>4. QED
      BY <3>1, <3>2, <3>3
  <2>3. CASE WakeUp \/ Join \/ Unregister \/ Drained
    <3>1. pc' = pc \/ (pc = "asleep" /\ pc' = "woken")
      BY <2>3 DEF WakeUp, Join, Unregister, Drained, thread
    <3>2. ThreadSteps(pc') <= ThreadSteps(pc) /\ ThreadSteps(pc) \in Int /\ ThreadSteps(pc') \in Int
      BY <3>1 DEF ThreadSteps
    <3>3. ModSteps(mod') < ModSteps(mod) /\ ModSteps(mod) \in Int /\ ModSteps(mod') \in Int
      BY <2>3 DEF WakeUp, Join, Unregister, Drained, ModSteps
    <3>4. caller' = caller
      BY <2>3 DEF WakeUp, Join, Unregister, Drained
    <3>5. QED
      BY <3>2, <3>3, <3>4
  <2>4. ASSUME NEW c \in Callers, CallerEnter(c) \/ CallerLeave(c) PROVE GetsCloser
    <3>1. mod' = mod /\ pc' = pc
      BY <2>4 DEF CallerEnter, CallerLeave, thread
    <3>2. caller' # caller
      <4>1. UNCHANGED <<mod, simple_tsk, thread, sleepy, stop>>
        BY <2>4 DEF CallerEnter, CallerLeave
      <4>2. QED
        BY <4>1 DEF vars
    <3>3. caller \in [Callers -> Tramps \cup {"none"}]
      BY DEF IInv, FieldsOK
    <3>4. mod = "draining" => \A d \in Callers : caller[d] = "none" => caller'[d] = "none"
      BY <2>0, <2>4, <3>3 DEF CallerEnter, CallerLeave
    <3>5. QED
      BY <3>1, <3>2, <3>4
  <2>5. ~ (Register \/ KthreadRun \/ RequestStop \/ Reload)
    BY DEF Register, KthreadRun, RequestStop, Reload
  <2>6. QED
    BY <2>1, <2>2, <2>3, <2>4, <2>5 DEF Next, Load, Exit, Thread
<1>2. QED
  BY <1>1, Invariance, PTL DEF Spec
=============================================================================
