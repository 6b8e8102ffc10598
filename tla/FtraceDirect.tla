---------------------------- MODULE FtraceDirect ----------------------------
(***************************************************************************)
(* ftrace/ftrace-direct.c: a module that attaches a trampoline of its own  *)
(* to schedule(), a kernel thread that swaps it for the other trampoline   *)
(* every two seconds, and an exit that stops the thread and detaches       *)
(* whatever trampoline my_tramp says is attached.                          *)
(*                                                                         *)
(* Modelled from their use: the ftrace core (register, modify and          *)
(* unregister_ftrace_direct), the kthread API, and the tasks that run      *)
(* through the trampoline while they call schedule().                      *)
(***************************************************************************)
EXTENDS Integers

CONSTANTS Callers,    \* tasks that call schedule()
          MaxLate     \* bound of the history counter late

ASSUME FtraceAssumption == MaxLate \in Nat /\ MaxLate >= 2

Tramps == {"my_tramp1", "my_tramp2"}
tramps(i) == IF i = 0 THEN "my_tramp1" ELSE "my_tramp2"

VARIABLES
  mod,        \* how far insmod or rmmod has got
  installed,  \* the trampoline ftrace has attached to my_ip, or "none"
  my_tramp,   \* the module's record of it
  simple_tsk, \* "none", "task", or the "err" pointer of a failed kthread_run
  pc, ret, t, \* simple_thread: program counter, its local and its static
  sleepy,     \* the thread's task state is TASK_INTERRUPTIBLE
  stop,       \* kthread_should_stop
  caller,     \* the trampoline each task is executing, or "none"
  late        \* history: swaps since stop was set

thread == <<pc, ret, t, my_tramp, installed, late>>
vars == <<mod, simple_tsk, thread, sleepy, stop, caller>>

Init ==
  /\ mod = "out" /\ simple_tsk = "none"
  /\ installed = "none" /\ my_tramp = tramps(0)
  /\ pc = "none" /\ ret = 0 /\ t = 0
  /\ sleepy = FALSE /\ stop = FALSE
  /\ caller = [c \in Callers |-> "none"]
  /\ late = 0

-----------------------------------------------------------------------------
(* ftrace_direct_init.                                                     *)

Register ==
  /\ mod = "out"
  /\ mod' = "registered"
  /\ installed' = my_tramp
  /\ UNCHANGED <<simple_tsk, pc, ret, t, my_tramp, late, sleepy, stop, caller>>

\* kthread_run; nobody looks at what it returned.
KthreadRun ==
  /\ mod = "registered"
  /\ mod' = "in"
  /\ \/ simple_tsk' = "task" /\ pc' = "check"
     \/ simple_tsk' = "err" /\ UNCHANGED pc
  /\ UNCHANGED <<ret, t, my_tramp, installed, late, sleepy, stop, caller>>

-----------------------------------------------------------------------------
(* simple_thread.                                                          *)

Goto(from, to) == pc = from /\ pc' = to

CheckStop ==
  /\ Goto("check", IF stop THEN "done" ELSE "set")
  /\ UNCHANGED <<mod, simple_tsk, ret, t, my_tramp, installed, late, sleepy, stop, caller>>

SetState ==
  /\ Goto("set", "sched")
  /\ sleepy' = TRUE
  /\ UNCHANGED <<mod, simple_tsk, ret, t, my_tramp, installed, late, stop, caller>>

\* schedule_timeout: a wake-up since set_current_state lets it return at once.
Schedule ==
  /\ Goto("sched", IF sleepy THEN "asleep" ELSE "woken")
  /\ UNCHANGED <<mod, simple_tsk, ret, t, my_tramp, installed, late, sleepy, stop, caller>>

SlipNoTimer == FALSE /\ UNCHANGED vars

TimerFires ==
  /\ Goto("asleep", "woken")
  /\ sleepy' = FALSE
  /\ UNCHANGED <<mod, simple_tsk, ret, t, my_tramp, installed, late, stop, caller>>

\* if (ret) continue;
Skip ==
  /\ ret # 0
  /\ Goto("woken", "check")
  /\ UNCHANGED <<mod, simple_tsk, ret, t, my_tramp, installed, late, sleepy, stop, caller>>

\* The one place where t moves and ftrace is asked to swap.  It refuses when
\* the old address is not the attached one, and may refuse anyway.
SwapTo(new) ==
  /\ t' = new
  /\ \/ /\ installed = my_tramp
        /\ installed' = tramps(new)
        /\ Goto("woken", "store")
        /\ UNCHANGED ret
     \/ /\ ret' = 1
        /\ Goto("woken", "check")
        /\ UNCHANGED installed
  /\ late' = IF stop /\ late < MaxLate THEN late + 1 ELSE late
  /\ UNCHANGED <<mod, simple_tsk, my_tramp, sleepy, stop, caller>>

SlipSwapsOn == SwapTo(1 - t)
SlipIncrement == ret = 0 /\ SwapTo(t + 1)

Modify ==
  /\ ret = 0
  /\ SwapTo(1 - t)

SlipStoreSkipsCheck ==
  /\ Goto("store", "set")
  /\ my_tramp' = tramps(t)
  /\ UNCHANGED <<mod, simple_tsk, ret, t, installed, late, sleepy, stop, caller>>

Store ==
  /\ Goto("store", "check")
  /\ my_tramp' = tramps(t)
  /\ UNCHANGED <<mod, simple_tsk, ret, t, installed, late, sleepy, stop, caller>>

Thread == CheckStop \/ SetState \/ Schedule \/ Skip \/ Modify \/ Store

-----------------------------------------------------------------------------
(* ftrace_direct_exit: kthread_stop sets the flag, wakes the thread and    *)
(* waits for it; then unregister_ftrace_direct(my_ip, my_tramp).           *)

RequestStop ==
  /\ mod = "in"
  /\ IF simple_tsk = "err"
     THEN mod' = "oops" /\ UNCHANGED stop     \* it dereferences the error pointer
     ELSE mod' = "waking" /\ stop' = TRUE
  /\ UNCHANGED <<simple_tsk, thread, sleepy, caller>>

\* wake_up_process finds the thread asleep, about to sleep, or running.
WakeUp ==
  /\ mod = "waking"
  /\ mod' = "joining"
  /\ sleepy' = FALSE
  /\ pc' = IF pc = "asleep" THEN "woken" ELSE pc
  /\ UNCHANGED <<simple_tsk, ret, t, my_tramp, installed, late, stop, caller>>

SlipNoJoin ==
  /\ mod = "joining"
  /\ mod' = "joined"
  /\ UNCHANGED <<simple_tsk, thread, sleepy, stop, caller>>

Join ==
  /\ mod = "joining"
  /\ pc = "done"
  /\ mod' = "joined"
  /\ UNCHANGED <<simple_tsk, thread, sleepy, stop, caller>>

\* Detaching succeeds only for the address that is attached, and then waits for
\* the tasks that are inside it; a refusal goes unnoticed.
Unregister ==
  /\ mod = "joined"
  /\ IF installed = my_tramp
     THEN installed' = "none" /\ mod' = "draining"
     ELSE mod' = "gone" /\ UNCHANGED installed
  /\ UNCHANGED <<simple_tsk, pc, ret, t, my_tramp, late, sleepy, stop, caller>>

Drained ==
  /\ mod = "draining"
  /\ \A c \in Callers : caller[c] = "none"
  /\ mod' = "gone"
  /\ UNCHANGED <<simple_tsk, thread, sleepy, stop, caller>>

\* The next insmod starts from the module's initial data.
Reload ==
  /\ mod = "gone"
  /\ mod' = "out" /\ simple_tsk' = "none"
  /\ my_tramp' = tramps(0) /\ pc' = "none" /\ ret' = 0 /\ t' = 0 /\ late' = 0
  /\ sleepy' = FALSE /\ stop' = FALSE
  /\ UNCHANGED <<installed, caller>>

-----------------------------------------------------------------------------
(* A task enters the attached trampoline, and leaves it.                   *)

CallerEnter(c) ==
  /\ caller[c] = "none" /\ installed # "none"
  /\ caller' = [caller EXCEPT ![c] = installed]
  /\ UNCHANGED <<mod, simple_tsk, thread, sleepy, stop>>

CallerLeave(c) ==
  /\ caller[c] # "none"
  /\ caller' = [caller EXCEPT ![c] = "none"]
  /\ UNCHANGED <<mod, simple_tsk, thread, sleepy, stop>>

Load == Register \/ KthreadRun
Exit == RequestStop \/ WakeUp \/ Join \/ Unregister \/ Drained

Next ==
  \/ Load \/ Exit \/ Reload
  \/ Thread \/ TimerFires
  \/ \E c \in Callers : CallerEnter(c) \/ CallerLeave(c)

Spec == Init /\ [][Next]_vars

\* The scheduler runs the thread and rmmod, the two second timer fires, and a
\* task does not stay in a trampoline for ever.
FairSpec ==
  /\ Spec
  /\ WF_vars(Thread) /\ WF_vars(TimerFires)
  /\ WF_vars(WakeUp) /\ WF_vars(Join) /\ WF_vars(Unregister) /\ WF_vars(Drained)
  /\ \A c \in Callers : WF_vars(CallerLeave(c))

-----------------------------------------------------------------------------
(* Properties.                                                             *)

FieldsOK ==
  /\ mod \in {"out", "registered", "in", "waking", "joining", "joined", "draining",
              "gone", "oops"}
  /\ installed \in Tramps \cup {"none"} /\ my_tramp \in Tramps
  /\ simple_tsk \in {"none", "task", "err"}
  /\ pc \in {"none", "check", "set", "sched", "asleep", "woken", "store", "done"}
  /\ ret \in {0, 1} /\ t \in {0, 1}
  /\ caller \in [Callers -> Tramps \cup {"none"}]
  /\ late \in 0 .. MaxLate

FlagsOK == {sleepy, stop} \subseteq BOOLEAN

\* Types; t in particular stays an index of tramps.
TypeOK == FieldsOK /\ FlagsOK

\* When exit detaches it names the attached trampoline: the thread is never
\* stopped between ftrace's swap and the store that records it.
DetachFindsTramp == mod = "joined" => installed = my_tramp

\* No task executes, or can still enter, a trampoline of a module that is gone.
NoCallerLeftBehind ==
  mod \in {"gone", "out"} => installed = "none" /\ \A c \in Callers : caller[c] = "none"

\* Each swap puts the other trampoline in place of the recorded one.  A refused
\* swap leaves t out of step with my_tramp, which is why the thread gives up.
SwapsAlternate == pc = "store" => installed = tramps(t) /\ installed # my_tramp

\* Once asked to stop, the thread swaps at most once more.
AtMostOneLateSwap == late <= 1

\* rmmod finishes although wake_up_process may come before the thread sleeps.
ExitCompletes == mod = "waking" ~> mod = "gone"
=============================================================================
