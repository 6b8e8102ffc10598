------------------------------- MODULE Vmouse -------------------------------
(***************************************************************************)
(* The virtual mouse driver, vmouse_driver/vmouse.c.                       *)
(*                                                                         *)
(* While both Ctrl and Alt are held, the input filter vkbd_filter turns    *)
(* eight keys of any keyboard into mouse events.  The filter runs in       *)
(* interrupt context, once per event of each keyboard; it stores the event *)
(* in two plain fields of the one shared struct vmouse and schedules the   *)
(* work item vms_func, which a kernel worker runs later and which reads    *)
(* the two fields back.  Keyboards, the worker, writers of the sysfs file  *)
(* wheel_speed and the module's own init and exit interleave here at the   *)
(* granularity of their accesses to that struct.                           *)
(*                                                                         *)
(* Operators named Slip... are wrong variants of the operator they         *)
(* precede.  No action uses them; they document which mistake each         *)
(* property below is able to notice.                                       *)
(***************************************************************************)
EXTENDS Integers

CONSTANTS Keyboards,    \* the input devices the handler may be connected to
          Writers,      \* the tasks that may write to the sysfs file wheel_speed
          LocalKeyboards,  \* of each task, the keyboards whose interrupts hit its CPU
          Layouts,      \* which keys each of the devices may have
          WheelInputs,  \* what sscanf leaves in the local of wheel_speed_store
          MOVE_MAX_SPEED  \* 64 in the source; a smaller top gear bounds some runs

MoveKeys     == {"P", "N", "B", "F"}
WheelKeys    == {"V", "U"}
ButtonKeys   == {"SPACE", "M"}
MouseKeys    == MoveKeys \cup WheelKeys \cup ButtonKeys
AllCodes     == MouseKeys \cup {"CTRL", "ALT", "CAPSLOCK", "OTHER"}

\* Whoever takes vms->lock outside an interrupt.
Tasks == Writers \cup {"worker"}

ASSUME VmouseAssumption ==
  /\ LocalKeyboards \in [Tasks -> SUBSET Keyboards]
  /\ Layouts \subseteq [Keyboards -> SUBSET AllCodes]
  /\ WheelInputs \subseteq Int
  /\ Keyboards \cap Writers = {} /\ {"free", "worker"} \cap (Keyboards \cup Writers) = {}
  /\ MOVE_MAX_SPEED \in {2, 4, 8, 16, 32, 64}

KEY_VAL_UP == 0
KEY_VAL_DOWN == 1
KEY_VAL_PRESS == 2
KeyValues == {KEY_VAL_UP, KEY_VAL_DOWN, KEY_VAL_PRESS}

MOVE_DEFAULT_SPEED == 2
WHEEL_DEFAULT_SPEED == 5
WHEEL_MAX_SPEED == 7
WHEEL_MIN_SPEED == 1
STEP_DEFAULT_VALUE == 1
STEP_GAIN_VALUE == 2

VARIABLES
  mod,          \* how far vmouse_init or vmouse_exit has got
  keys,         \* the keys each device has
  handles,      \* the keyboards vkbd_connect has opened
  pressed,      \* the keys each keyboard holds down
  ctrl_key_down, alt_key_down, capslock_key_down,   \* vms->key_status
  keep_speed, event_code, value, wheel_speed,       \* fields of *vms
  lock,         \* vms->lock: "free", or the task or keyboard whose filter holds it
  gear,         \* vms->move_speed and the static count and step of gearbox
  fpc, ev, tmp, \* per keyboard: program counter and locals of vkbd_filter
  spc, newspeed,   \* per writer: program counter and local of wheel_speed_store
  pending,      \* vms->work is queued
  wpc, wcode,   \* program counter and loaded event_code of vms_func
  applied,      \* history: vms_func has acted on what the two fields hold
  button,       \* the buttons of the mouse, as reported to vms->dev
  lost,         \* history: button keys whose last event was never acted on
  undisturbed,  \* history: no event met a half built or dismantled driver
  fault         \* the first access to something that is not there

keyStatus == <<ctrl_key_down, alt_key_down, capslock_key_down>>
event     == <<event_code, value>>
filter    == <<fpc, ev, tmp>>
worker    == <<wpc, wcode>>
store     == <<spc, newspeed>>
env       == <<keys, handles, pressed>>
history   == <<applied, lost, undisturbed>>
vars == <<mod, env, keyStatus, keep_speed, event, wheel_speed, lock, gear,
          filter, store, pending, worker, button, history, fault>>

-----------------------------------------------------------------------------
(* gearbox: key repeat doubles the speed after 1, then 3, then 5, ...      *)

NewGear == [count |-> 0, step |-> STEP_DEFAULT_VALUE, speed |-> MOVE_DEFAULT_SPEED]

WithCount(g, n) == [count |-> n, step |-> g.step, speed |-> g.speed]

ShiftUp(g) ==
  IF g.speed < MOVE_MAX_SPEED
  THEN [count |-> 0, step |-> g.step + STEP_GAIN_VALUE, speed |-> 2 * g.speed]
  ELSE WithCount(g, 0)

Repeat(g) == IF g.count + 1 = g.step THEN ShiftUp(g) ELSE WithCount(g, g.count + 1)

SlipNoStepReset(v, g, keep) ==
  IF keep THEN (IF v = KEY_VAL_PRESS THEN g ELSE WithCount(g, 0))
  ELSE IF v = KEY_VAL_DOWN THEN [count |-> 0, step |-> g.step, speed |-> MOVE_DEFAULT_SPEED]
  ELSE IF v = KEY_VAL_PRESS THEN Repeat(g) ELSE WithCount(g, 0)

SlipIgnoresKeep(v, g, keep) ==
  IF v = KEY_VAL_DOWN THEN NewGear
  ELSE IF v = KEY_VAL_PRESS THEN (IF keep THEN g ELSE Repeat(g))
  ELSE WithCount(g, 0)

Gearbox(v, g, keep) ==
  IF keep THEN (IF v = KEY_VAL_PRESS THEN g ELSE WithCount(g, 0))
  ELSE IF v = KEY_VAL_DOWN THEN NewGear
  ELSE IF v = KEY_VAL_PRESS THEN Repeat(g) ELSE WithCount(g, 0)

-----------------------------------------------------------------------------
(* vkbd_filter, one step per access to *vms.                               *)

NoEvent == [code |-> "NONE", value |-> 0]
HandlerRegistered == mod \in {"handler", "dev", "live", "removing", "unreg", "orphan"}

\* vms->dev is registered.
Live == mod \in {"live", "removing"}

\* What touching *vms, from code of the module, leads to.
Vms ==
  IF fault # "none" THEN fault
  ELSE IF mod = "freed" THEN "freed_vms"
  ELSE IF mod = "orphan" THEN "unloaded" ELSE "none"

\* The input core passes on a key's press, its repeats and its release.
Legal(k, c, v) == (v = KEY_VAL_DOWN) = (c \notin pressed[k])

Pressed(k, c, v) ==
  [pressed EXCEPT ![k] = IF v = KEY_VAL_UP THEN @ \ {c} ELSE @ \cup {c}]

\* The filter of k goes on with its event; its locals are gone when it returns.
GoOn(k, c, v, to) ==
  /\ fpc' = [fpc EXCEPT ![k] = to]
  /\ ev' = [ev EXCEPT ![k] = [code |-> c, value |-> v]]

Return(k) ==
  /\ fpc' = [fpc EXCEPT ![k] = "idle"]
  /\ ev' = [ev EXCEPT ![k] = NoEvent]

\* Ctrl and Alt record themselves and go no further while the speed is kept.
FilterModifier(k, c, v) ==
  /\ ctrl_key_down' = IF c = "CTRL" THEN v ELSE ctrl_key_down
  /\ alt_key_down' = IF c = "ALT" THEN v ELSE alt_key_down
  /\ IF keep_speed
     THEN UNCHANGED <<fpc, ev>>
     ELSE GoOn(k, c, v, "test")
  /\ UNCHANGED <<capslock_key_down, tmp>>

\* Caps Lock: the press loads the toggle and computes its complement.
FilterCapslock(k, v) ==
  /\ tmp' = [tmp EXCEPT ![k] = IF v = KEY_VAL_DOWN THEN 1 - capslock_key_down ELSE @]
  /\ GoOn(k, "CAPSLOCK", v, IF v = KEY_VAL_DOWN THEN "toggle" ELSE "lock")
  /\ UNCHANGED keyStatus

FilterOther(k, c, v) == GoOn(k, c, v, "test") /\ UNCHANGED <<keyStatus, tmp>>

FilterEnter(k) ==
  /\ HandlerRegistered /\ k \in handles
  /\ fpc[k] = "idle" /\ fault = "none"
  /\ \E c \in keys[k], v \in KeyValues :
       /\ Legal(k, c, v)
       /\ pressed' = Pressed(k, c, v)
       /\ \/ c \in {"CTRL", "ALT"} /\ FilterModifier(k, c, v)
          \/ c = "CAPSLOCK" /\ FilterCapslock(k, v)
          \/ c \notin {"CTRL", "ALT", "CAPSLOCK"} /\ FilterOther(k, c, v)
  /\ fault' = Vms
  /\ UNCHANGED <<mod, keys, handles, keep_speed, event, wheel_speed, lock, gear,
                 pending, worker, button, history, store>>

FilterToggle(k) ==
  /\ fpc[k] = "toggle"
  /\ capslock_key_down' = tmp[k]
  /\ fpc' = [fpc EXCEPT ![k] = "lock"]
  /\ tmp' = [tmp EXCEPT ![k] = 0]
  /\ fault' = Vms
  /\ UNCHANGED <<mod, env, ctrl_key_down, alt_key_down, keep_speed, event, wheel_speed,
                 lock, gear, ev, pending, worker, button, history, store>>

\* Load capslock_key_down; the spin_lock this step passes makes the load and
\* the store that follows one critical section.
SlipUnlockedLoad(k) ==
  /\ fpc[k] = "lock"
  /\ lock' = k
  /\ tmp' = [tmp EXCEPT ![k] = capslock_key_down]
  /\ fpc' = [fpc EXCEPT ![k] = "keep"]
  /\ fault' = Vms
  /\ UNCHANGED <<mod, env, keyStatus, keep_speed, event, wheel_speed, gear,
                 ev, pending, worker, button, history, store>>

FilterLoadCapslock(k) ==
  /\ fpc[k] = "lock"
  /\ lock = "free"
  /\ lock' = k
  /\ tmp' = [tmp EXCEPT ![k] = capslock_key_down]
  /\ fpc' = [fpc EXCEPT ![k] = "keep"]
  /\ fault' = Vms
  /\ UNCHANGED <<mod, env, keyStatus, keep_speed, event, wheel_speed, gear,
                 ev, pending, worker, button, history, store>>

FilterKeepSpeed(k) ==
  /\ fpc[k] = "keep"
  /\ keep_speed' = (tmp[k] = 1)
  /\ lock' = "free"
  /\ fpc' = [fpc EXCEPT ![k] = "test"]
  /\ tmp' = [tmp EXCEPT ![k] = 0]
  /\ fault' = Vms
  /\ UNCHANGED <<mod, env, keyStatus, event, wheel_speed, gear, ev,
                 pending, worker, button, history, store>>

\* The stored event has not been acted on yet.
Unread == pending \/ wpc # "idle"

\* The button keys whose last event is gone once the event e is stored.
LostBy(e) ==
  (lost \cup IF Unread THEN ButtonKeys \cap {event_code, wcode} ELSE {}) \ {e.code}

\* Both modifiers down: store the code.  Otherwise the event passes through,
\* and a button key that passes through no longer moves its button.
FilterTest(k) ==
  /\ fpc[k] = "test"
  /\ fault' = Vms
  /\ IF ctrl_key_down # 0 /\ alt_key_down # 0
     THEN /\ event_code' = ev[k].code
          /\ fpc' = [fpc EXCEPT ![k] = "value"]
          /\ lost' = LostBy(ev[k])
          /\ applied' = FALSE
          /\ UNCHANGED ev
     ELSE /\ Return(k)
          /\ lost' = lost \cup (ButtonKeys \cap {ev[k].code})
          /\ UNCHANGED <<event_code, applied>>
  /\ UNCHANGED <<mod, env, keyStatus, keep_speed, value, wheel_speed, lock, gear,
                 tmp, pending, worker, button, undisturbed, store>>

FilterValue(k) ==
  /\ fpc[k] = "value"
  /\ value' = ev[k].value
  /\ fpc' = [fpc EXCEPT ![k] = "sched"]
  /\ applied' = FALSE
  /\ fault' = Vms
  /\ UNCHANGED <<mod, env, keyStatus, keep_speed, event_code, wheel_speed, lock, gear,
                 ev, tmp, pending, worker, button, lost, undisturbed, store>>

\* schedule_work: a queued item stays queued, a running one is queued again.
SlipScheduleIfIdle(k) ==
  /\ fpc[k] = "sched"
  /\ pending' = (pending \/ wpc = "idle")
  /\ Return(k)
  /\ undisturbed' = (undisturbed /\ Live)
  /\ fault' = Vms
  /\ UNCHANGED <<mod, env, keyStatus, keep_speed, event, wheel_speed, lock, gear,
                 tmp, worker, button, applied, lost, store>>

FilterSchedule(k) ==
  /\ fpc[k] = "sched"
  /\ pending' = TRUE
  /\ Return(k)
  /\ undisturbed' = (undisturbed /\ Live)
  /\ fault' = Vms
  /\ UNCHANGED <<mod, env, keyStatus, keep_speed, event, wheel_speed, lock, gear,
                 tmp, worker, button, applied, lost, store>>

Filter(k) ==
  FilterToggle(k) \/ FilterLoadCapslock(k) \/ FilterKeepSpeed(k)
    \/ FilterTest(k) \/ FilterValue(k) \/ FilterSchedule(k)

-----------------------------------------------------------------------------
(* wheel_speed_store, run by any number of writers at a time: clamp, then  *)
(* one store under the lock.                                               *)

\* An interrupt on a task's own CPU runs its filter to the end first: the plain
\* spin_lock of vms_func and of wheel_speed_store does not keep interrupts out.
Runs(t) == fault = "none" /\ \A k \in LocalKeyboards[t] : fpc[k] = "idle"

SlipNoClamp(n) == n

Clamp(n) ==
  IF n < WHEEL_MIN_SPEED THEN WHEEL_MIN_SPEED
  ELSE IF n > WHEEL_MAX_SPEED THEN WHEEL_MAX_SPEED ELSE n

WriterEnter(w) ==
  /\ mod = "live"
  /\ spc[w] = "idle" /\ Runs(w)
  /\ \E n \in WheelInputs : newspeed' = [newspeed EXCEPT ![w] = Clamp(n)]
  /\ spc' = [spc EXCEPT ![w] = "lock"]
  /\ UNCHANGED <<mod, env, keyStatus, keep_speed, event, wheel_speed, lock, gear, filter,
                 pending, worker, button, history, fault>>

WriterLock(w) ==
  /\ spc[w] = "lock" /\ Runs(w)
  /\ lock = "free"
  /\ lock' = w
  /\ spc' = [spc EXCEPT ![w] = "store"]
  /\ UNCHANGED <<mod, env, keyStatus, keep_speed, event, wheel_speed, gear, filter,
                 newspeed, pending, worker, button, history, fault>>

\* The store, spin_unlock and the return.
WriterStore(w) ==
  /\ spc[w] = "store" /\ Runs(w)
  /\ wheel_speed' = newspeed[w]
  /\ lock' = "free"
  /\ spc' = [spc EXCEPT ![w] = "idle"]
  /\ newspeed' = [newspeed EXCEPT ![w] = WHEEL_DEFAULT_SPEED]
  /\ UNCHANGED <<mod, env, keyStatus, keep_speed, event, gear, filter,
                 pending, worker, button, history, fault>>

WheelSpeedStore(w) == WriterEnter(w) \/ WriterLock(w) \/ WriterStore(w)

-----------------------------------------------------------------------------
(* vms_func, run by one worker at a time.                                  *)

\* The workqueue clears the pending bit before it calls the function.
WorkStart ==
  /\ pending /\ wpc = "idle" /\ Runs("worker")
  /\ pending' = FALSE
  /\ wpc' = "lock"
  /\ fault' = Vms
  /\ UNCHANGED <<mod, env, keyStatus, keep_speed, event, wheel_speed, lock, gear,
                 filter, wcode, button, history, store>>

\* spin_lock, then the switch loads event_code.
WorkLoadCode ==
  /\ wpc = "lock" /\ Runs("worker")
  /\ lock = "free"
  /\ lock' = "worker"
  /\ wcode' = event_code
  /\ wpc' = "body"
  /\ fault' = Vms
  /\ UNCHANGED <<mod, env, keyStatus, keep_speed, event, wheel_speed, gear,
                 filter, pending, button, history, store>>

\* input_report_key passes on !!value.
SlipAlwaysPress(c, v) == button \cup {c}
ReportKey(c, v) == IF v # KEY_VAL_UP THEN button \cup {c} ELSE button \ {c}

SlipKeepsLock == lock' = lock
WorkUnlock == lock' = "free"

\* The case of the switch: vms->dev must be there for the mouse keys.
DevFault ==
  IF mod = "handler" THEN "no_dev"
  ELSE IF mod \in {"unreg", "closing"} THEN "dead_dev" ELSE Vms

WorkBody ==
  /\ wpc = "body" /\ Runs("worker")
  /\ fault' = IF wcode \in MouseKeys THEN DevFault ELSE Vms
  /\ IF fault' # "none"
     THEN UNCHANGED <<lock, gear, worker, button, applied>>    \* it dies holding the lock
     ELSE /\ gear' = IF wcode \in MoveKeys THEN Gearbox(value, gear, keep_speed) ELSE gear
          /\ button' = IF wcode \in ButtonKeys THEN ReportKey(wcode, value) ELSE button
          /\ applied' = (wcode = event_code)
          /\ wpc' = "idle" /\ wcode' = "NONE"
          /\ WorkUnlock
  /\ UNCHANGED <<mod, env, keyStatus, keep_speed, event, wheel_speed, filter,
                 pending, lost, undisturbed, store>>

Work == WorkStart \/ WorkLoadCode \/ WorkBody

-----------------------------------------------------------------------------
(* vkbd_connect and vkbd_disconnect, called by the input core as keyboards *)
(* come and go; it releases a keyboard's keys before it disconnects it.    *)
(* vkbd_connect refuses a device without keys.                             *)

VkbdConnect(k) ==
  /\ mod \in {"handler", "dev", "live", "removing", "unreg"}
  /\ k \notin handles /\ keys[k] # {}
  /\ handles' = handles \cup {k}
  /\ UNCHANGED <<mod, keys, pressed, keyStatus, keep_speed, event, wheel_speed, lock, gear,
                 filter, pending, worker, button, history, fault, store>>

VkbdDisconnect(k) ==
  /\ mod \in {"handler", "dev", "live", "removing", "unreg"}
  /\ k \in handles
  /\ pressed[k] = {} /\ fpc[k] = "idle"
  /\ handles' = handles \ {k}
  /\ UNCHANGED <<mod, keys, pressed, keyStatus, keep_speed, event, wheel_speed, lock, gear,
                 filter, pending, worker, button, history, fault, store>>

-----------------------------------------------------------------------------
(* vmouse_init and vmouse_exit.                                            *)

\* kzalloc, the two defaults, INIT_WORK and spin_lock_init; when kzalloc fails the
\* defaults are stored through a null pointer.
InitVms ==
  /\ mod = "absent"
  /\ \/ mod' = "vms" /\ UNCHANGED <<undisturbed, fault>>
     \/ mod' = "failed" /\ undisturbed' = FALSE /\ fault' = "null_vms"
  /\ UNCHANGED <<env, keyStatus, keep_speed, event, wheel_speed, lock, gear,
                 filter, pending, worker, button, applied, lost, store>>

\* input_register_handler connects the keyboards it finds, or fails.
InitHandler ==
  /\ mod = "vms"
  /\ \/ mod' = "handler" /\ handles' \in SUBSET {k \in Keyboards : keys[k] # {}}
     \/ mod' = "failed" /\ UNCHANGED handles
  /\ UNCHANGED <<keys, pressed, keyStatus, keep_speed, event, wheel_speed, lock, gear,
                 filter, pending, worker, button, history, fault, store>>

\* input_allocate_device; its failure leaves the handler behind, registered.
InitDevice ==
  /\ mod = "handler"
  /\ \/ mod' = "dev" /\ UNCHANGED undisturbed
     \/ mod' = "orphan" /\ undisturbed' = FALSE
  /\ UNCHANGED <<env, keyStatus, keep_speed, event, wheel_speed, lock, gear,
                 filter, pending, worker, button, applied, lost, fault, store>>

\* input_register_device and sysfs_create_file, whose results are ignored.
InitRegister ==
  /\ mod = "dev"
  /\ mod' = "live"
  /\ UNCHANGED <<env, keyStatus, keep_speed, event, wheel_speed, lock, gear,
                 filter, pending, worker, button, history, fault, store>>

\* sysfs_remove_file lets no new writer in,
ExitFile ==
  /\ mod = "live"
  /\ mod' = "removing"
  /\ UNCHANGED <<env, keyStatus, keep_speed, event, wheel_speed, lock, gear,
                 filter, pending, worker, button, history, fault, store>>

\* waits for those inside wheel_speed_store, and then input_unregister_device.
ExitDevice ==
  /\ mod = "removing"
  /\ \A w \in Writers : spc[w] = "idle"
  /\ mod' = "unreg"
  /\ undisturbed' = (undisturbed /\ ~Unread)
  /\ UNCHANGED <<env, keyStatus, keep_speed, event, wheel_speed, lock, gear,
                 filter, pending, worker, button, applied, lost, fault, store>>

\* input_unregister_handler closes every handle, waits for the filters that
\* still run, and frees the handles; then kfree(vms).
ExitHandler ==
  /\ mod = "unreg"
  /\ mod' = "closing"
  /\ UNCHANGED <<env, keyStatus, keep_speed, event, wheel_speed, lock, gear,
                 filter, pending, worker, button, history, fault, store>>

SlipFreeAtOnce ==
  /\ mod = "closing"
  /\ mod' = "freed"
  /\ handles' = {}
  /\ UNCHANGED <<keys, pressed, keyStatus, keep_speed, event, wheel_speed, lock, gear,
                 filter, pending, worker, button, history, fault, store>>

ExitFree ==
  /\ mod = "closing"
  /\ \A k \in Keyboards : fpc[k] = "idle"
  /\ mod' = "freed"
  /\ handles' = {}
  /\ UNCHANGED <<keys, pressed, keyStatus, keep_speed, event, wheel_speed, lock, gear,
                 filter, pending, worker, button, history, fault, store>>

VmouseInit == InitVms \/ InitHandler \/ InitDevice \/ InitRegister
VmouseExit == ExitFile \/ ExitDevice \/ ExitHandler \/ ExitFree

-----------------------------------------------------------------------------
Init ==
  /\ mod = "absent" /\ keys \in Layouts /\ handles = {}
  /\ pressed = [k \in Keyboards |-> {}]
  /\ ctrl_key_down = 0 /\ alt_key_down = 0 /\ capslock_key_down = 0
  /\ keep_speed = FALSE
  /\ event_code = "NONE" /\ value = 0
  /\ wheel_speed = WHEEL_DEFAULT_SPEED
  /\ lock = "free"
  /\ gear = NewGear
  /\ fpc = [k \in Keyboards |-> "idle"]
  /\ ev = [k \in Keyboards |-> NoEvent]
  /\ tmp = [k \in Keyboards |-> 0]
  /\ spc = [w \in Writers |-> "idle"]
  /\ newspeed = [w \in Writers |-> WHEEL_DEFAULT_SPEED]
  /\ pending = FALSE
  /\ wpc = "idle" /\ wcode = "NONE"
  /\ button = {}
  /\ applied = TRUE /\ lost = {} /\ undisturbed = TRUE
  /\ fault = "none"

Next ==
  \/ VmouseInit \/ VmouseExit
  \/ \E k \in Keyboards : FilterEnter(k) \/ Filter(k) \/ VkbdConnect(k) \/ VkbdDisconnect(k)
  \/ Work
  \/ \E w \in Writers : WheelSpeedStore(w)

Spec == Init /\ [][Next]_vars

\* Interrupt handlers, the workqueue, the writers and rmmod run on.  Strong
\* fairness states two things more: the spinlock is a queue lock, so that whoever
\* spins gets it in turn; and a task gets its CPU back between two key events
\* that interrupt it.
Fairness ==
  /\ \A k \in Keyboards : WF_vars(Filter(k))
  /\ SF_vars(Work)
  /\ \A w \in Writers : SF_vars(WriterLock(w) \/ WriterStore(w))
  /\ WF_vars(ExitDevice \/ ExitHandler \/ ExitFree)

FairSpec == Spec /\ Fairness

-----------------------------------------------------------------------------
(* Properties.                                                             *)

EventCodes == AllCodes \cup {"NONE"}

FieldsOK ==
  /\ mod \in {"absent", "vms", "handler", "dev", "live", "removing", "unreg", "closing", "freed",
              "failed", "orphan"}
  /\ handles \subseteq Keyboards
  /\ keys \in Layouts /\ pressed \in [Keyboards -> SUBSET AllCodes]
  /\ ctrl_key_down \in KeyValues /\ alt_key_down \in KeyValues
  /\ capslock_key_down \in {0, 1}
  /\ event_code \in EventCodes /\ value \in KeyValues
  /\ wheel_speed \in WHEEL_MIN_SPEED .. WHEEL_MAX_SPEED
  /\ lock \in Keyboards \cup Tasks \cup {"free"}
  /\ gear \in [count : Nat, step : Nat, speed : Nat]
  /\ fpc \in [Keyboards -> {"idle", "toggle", "lock", "keep", "test", "value", "sched"}]
  /\ ev \in [Keyboards -> [code : EventCodes, value : KeyValues]]
  /\ tmp \in [Keyboards -> {0, 1}]
  /\ spc \in [Writers -> {"idle", "lock", "store"}]
  /\ newspeed \in [Writers -> WHEEL_MIN_SPEED .. WHEEL_MAX_SPEED]
  /\ wpc \in {"idle", "lock", "body"} /\ wcode \in EventCodes
  /\ button \subseteq ButtonKeys /\ lost \subseteq ButtonKeys
  /\ fault \in {"none", "freed_vms", "unloaded", "no_dev", "dead_dev", "null_vms"}

FlagsOK == {keep_speed, pending, applied, undisturbed} \subseteq BOOLEAN

\* Every field keeps its type; in particular whatever is written to the sysfs
\* file, the wheel speed stays within WHEEL_MIN_SPEED..WHEEL_MAX_SPEED.
TypeOK == FieldsOK /\ FlagsOK

\* The gears up to the top one: step and speed.
Gears == {g \in {<<1, 2>>, <<3, 4>>, <<5, 8>>, <<7, 16>>, <<9, 32>>, <<11, 64>>} :
            g[2] <= MOVE_MAX_SPEED}

\* gearbox tests count with ==, so a count that ever passed step would leave the
\* speed stuck: the count stays below the step, and step and speed move together
\* through the six gears, whatever mix of torn and repeated events arrives.
GearInSync ==
  /\ gear.count < gear.step
  /\ <<gear.step, gear.speed>> \in Gears

\* Nothing changes the movement speed while Caps Lock keeps it.
SpeedKept == [][keep_speed => gear'.speed = gear.speed]_vars

\* Once no filter is between its Caps Lock toggle and the end of its critical
\* section, keep_speed agrees with the toggle, however many keyboards raced.
KeepSpeedFollowsCapslock ==
  (\A k \in Keyboards : fpc[k] \notin {"toggle", "lock", "keep"})
    => (keep_speed <=> capslock_key_down = 1)

AtRest ==
  /\ ~Unread /\ fault = "none"
  /\ \A k \in Keyboards : fpc[k] \notin {"value", "sched"}

\* No event is left behind: when nothing is queued, running or being stored, a run
\* of vms_func has acted on the last values of event_code and value, although
\* the filter stores the two one after the other and without the lock.
LastEventApplied == AtRest => applied

\* No two devices with keys.
OneKeyboard == \A j, k \in Keyboards : keys[j] # {} /\ keys[k] # {} => j = k

\* With one keyboard, a button disagrees with its key at rest only if the key's
\* last event was overwritten before the work ran, or came without both modifiers
\* held.  (The same key of a second keyboard would move the same button.)
ButtonsFollowKeys ==
  OneKeyboard /\ AtRest /\ (\A k \in Keyboards : fpc[k] = "idle") =>
    \A c \in ButtonKeys \ lost : c \in button <=> \E k \in Keyboards : c \in pressed[k]

\* The driver touches nothing that is gone, or not there yet, unless an event was
\* scheduled outside the live driver, work was outstanding when vmouse_exit
\* unregistered the device, or an allocation of vmouse_init failed.
SafeIfUndisturbed == undisturbed => fault = "none"

\* vmouse_exit always finishes: no writer and no filter it waits for is left
\* spinning.  Keyboards with Caps Lock must interrupt other CPUs than those of the
\* worker and of the writers for that (SpinsForGood in VmouseProofs).
ExitCompletes == mod = "removing" ~> mod = "freed" \/ fault # "none"
=============================================================================
