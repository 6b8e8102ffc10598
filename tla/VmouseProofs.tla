---------------------------- MODULE VmouseProofs ----------------------------
(***************************************************************************)
(* Vmouse for any number of keyboards, any set of keys and any writes to   *)
(* the sysfs file.                                                         *)
(***************************************************************************)
EXTENDS Vmouse, TLAPS

GearType == [count : Nat, step : Nat, speed : Nat]
InSync(g) == g.count < g.step /\ <<g.step, g.speed>> \in Gears

\* gearbox keeps the types, in gear or not.
LEMMA GearboxType ==
  ASSUME NEW g \in GearType, NEW v, NEW keep
  PROVE  Gearbox(v, g, keep) \in GearType
<1>1. NewGear \in GearType /\ WithCount(g, 0) \in GearType
  BY DEF NewGear, WithCount, GearType, MOVE_DEFAULT_SPEED, STEP_DEFAULT_VALUE
<1>2. Repeat(g) \in GearType
  BY DEF Repeat, ShiftUp, WithCount, GearType, STEP_GAIN_VALUE
<1>3. QED
  BY <1>1, <1>2, Zenon DEF Gearbox

\* One more repeat leaves count below step, and step and speed in the same gear.
LEMMA RepeatInSync ==
  ASSUME NEW g \in GearType, InSync(g)
  PROVE  Repeat(g) \in GearType /\ InSync(Repeat(g))
BY VmouseAssumption, SMTT(30)
   DEF Repeat, ShiftUp, WithCount, Gears, GearType, InSync, STEP_GAIN_VALUE

\* gearbox as a whole does.
LEMMA GearboxInSync ==
  ASSUME NEW g \in GearType, InSync(g), NEW v \in KeyValues, NEW keep \in BOOLEAN
  PROVE  Gearbox(v, g, keep) \in GearType /\ InSync(Gearbox(v, g, keep))
<1>1. NewGear \in GearType /\ InSync(NewGear)
  BY VmouseAssumption, SMTT(60) DEF NewGear, GearType, InSync, Gears, MOVE_DEFAULT_SPEED, STEP_DEFAULT_VALUE
<1>2. WithCount(g, 0) \in GearType /\ InSync(WithCount(g, 0))
  BY VmouseAssumption, SMTT(60) DEF WithCount, GearType, InSync, Gears
<1>3. QED
  BY <1>1, <1>2, RepeatInSync, Zenon DEF Gearbox

-----------------------------------------------------------------------------
(* Every reachable state is well typed.                                    *)

LEMMA FieldsInit == Init => FieldsOK
BY VmouseAssumption
   DEF Init, FieldsOK, NewGear, NoEvent, EventCodes, KeyValues, KEY_VAL_UP,
       KEY_VAL_DOWN, KEY_VAL_PRESS, WHEEL_DEFAULT_SPEED, WHEEL_MIN_SPEED, WHEEL_MAX_SPEED,
       MOVE_DEFAULT_SPEED, STEP_DEFAULT_VALUE

LEMMA FieldsStep == FieldsOK /\ [Next]_vars => FieldsOK'
<1> SUFFICES ASSUME FieldsOK, [Next]_vars PROVE FieldsOK'
  OBVIOUS
<1> USE DEF FieldsOK, env, keyStatus, event, filter, worker, store, history
<1>1. ASSUME NEW k \in Keyboards, FilterEnter(k) PROVE FieldsOK'
  <2>1. PICK c \in keys[k], v \in KeyValues :
          /\ pressed' = Pressed(k, c, v)
          /\ \/ FilterModifier(k, c, v)
             \/ c = "CAPSLOCK" /\ FilterCapslock(k, v)
             \/ FilterOther(k, c, v)
    BY <1>1 DEF FilterEnter
  <2> c \in AllCodes
    BY VmouseAssumption
  <2> c \in EventCodes
    BY DEF EventCodes
  <2>2. pressed' \in [Keyboards -> SUBSET AllCodes]
    BY <2>1 DEF Pressed
  <2>3. /\ mod' = mod /\ keys' = keys /\ handles' = handles /\ event_code' = event_code /\ value' = value
        /\ wheel_speed' = wheel_speed /\ lock' = lock /\ gear' = gear /\ spc' = spc /\ newspeed' = newspeed
        /\ wpc' = wpc /\ wcode' = wcode /\ button' = button /\ lost' = lost
        /\ fault' \in {"none", "freed_vms", "unloaded", "no_dev", "dead_dev", "null_vms"}
    BY <1>1 DEF FilterEnter, Vms
  <2>4. CASE FilterModifier(k, c, v)
    <3>1. /\ fpc' \in [Keyboards -> {"idle", "toggle", "lock", "keep", "test", "value", "sched"}]
          /\ ev' \in [Keyboards -> [code : EventCodes, value : KeyValues]]
      BY <2>4 DEF FilterModifier, GoOn
    <3>2. ctrl_key_down' \in KeyValues /\ alt_key_down' \in KeyValues
          /\ capslock_key_down' = capslock_key_down /\ tmp' = tmp
      BY <2>4 DEF FilterModifier
    <3>3. QED
      BY <2>2, <2>3, <3>1, <3>2
  <2>5. CASE c = "CAPSLOCK" /\ FilterCapslock(k, v)
    BY <2>2, <2>3, <2>5 DEF FilterCapslock, GoOn
  <2>6. CASE FilterOther(k, c, v)
    BY <2>2, <2>3, <2>6 DEF FilterOther, GoOn
  <2>7. QED
    BY <2>1, <2>4, <2>5, <2>6
<1>2. ASSUME NEW k \in Keyboards, FilterToggle(k) PROVE FieldsOK'
  BY <1>2, VmouseAssumption DEF FilterToggle, Vms
<1>3. ASSUME NEW k \in Keyboards, FilterLoadCapslock(k) PROVE FieldsOK'
  BY <1>3, VmouseAssumption DEF FilterLoadCapslock, Vms
<1>4. ASSUME NEW k \in Keyboards, FilterKeepSpeed(k) PROVE FieldsOK'
  BY <1>4, VmouseAssumption DEF FilterKeepSpeed, Vms
<1>5. ASSUME NEW k \in Keyboards, FilterTest(k) PROVE FieldsOK'
  <2>1. lost' \subseteq ButtonKeys
    BY <1>5 DEF FilterTest, LostBy
  <2>2. event_code' \in EventCodes
    BY <1>5 DEF FilterTest
  <2>3. fault' \in {"none", "freed_vms", "unloaded", "no_dev", "dead_dev", "null_vms"}
    BY <1>5 DEF FilterTest, Vms
  <2>4. /\ fpc' \in [Keyboards -> {"idle", "toggle", "lock", "keep", "test", "value", "sched"}]
        /\ ev' \in [Keyboards -> [code : EventCodes, value : KeyValues]]
    BY <1>5 DEF FilterTest, Return, NoEvent, EventCodes, KeyValues, KEY_VAL_UP
  <2>5. QED
    BY <1>5, <2>1, <2>2, <2>3, <2>4 DEF FilterTest
<1>6. ASSUME NEW k \in Keyboards, FilterValue(k) PROVE FieldsOK'
  BY <1>6, VmouseAssumption DEF FilterValue, Vms
<1>7. ASSUME NEW k \in Keyboards, FilterSchedule(k) PROVE FieldsOK'
  BY <1>7, VmouseAssumption DEF FilterSchedule, Return, NoEvent, Vms, EventCodes, KeyValues, KEY_VAL_UP
<1>8. ASSUME NEW k \in Keyboards, VkbdConnect(k) PROVE FieldsOK'
  BY <1>8, VmouseAssumption DEF VkbdConnect
<1>9. ASSUME NEW k \in Keyboards, VkbdDisconnect(k) PROVE FieldsOK'
  BY <1>9, VmouseAssumption DEF VkbdDisconnect
<1>10. ASSUME InitVms PROVE FieldsOK'
  BY <1>10, VmouseAssumption DEF InitVms
<1>11. ASSUME InitHandler PROVE FieldsOK'
  BY <1>11, VmouseAssumption DEF InitHandler
<1>12. ASSUME InitDevice PROVE FieldsOK'
  BY <1>12, VmouseAssumption DEF InitDevice
<1>13. ASSUME InitRegister PROVE FieldsOK'
  BY <1>13, VmouseAssumption DEF InitRegister
<1>14. ASSUME ExitFile \/ ExitDevice PROVE FieldsOK'
  BY <1>14, VmouseAssumption DEF ExitFile, ExitDevice
<1>15. ASSUME ExitHandler PROVE FieldsOK'
  BY <1>15, VmouseAssumption DEF ExitHandler
<1>16. ASSUME ExitFree PROVE FieldsOK'
  BY <1>16, VmouseAssumption DEF ExitFree
<1>17. ASSUME WorkStart PROVE FieldsOK'
  BY <1>17, VmouseAssumption DEF WorkStart, Vms
<1>18. ASSUME WorkLoadCode PROVE FieldsOK'
  BY <1>18, VmouseAssumption DEF WorkLoadCode, Vms, Tasks
<1>19. ASSUME WorkBody PROVE FieldsOK'
  <2>1. gear' \in GearType
    <3>1. gear' = gear \/ gear' = Gearbox(value, gear, keep_speed)
      BY <1>19 DEF WorkBody
    <3>2. QED
      BY <3>1, GearboxType DEF GearType
  <2>2. button' \subseteq ButtonKeys
    BY <1>19 DEF WorkBody, ReportKey
  <2>3. /\ lock' \in {lock, "free"} /\ wpc' \in {wpc, "idle"} /\ wcode' \in {wcode, "NONE"}
        /\ fault' \in {"none", "freed_vms", "unloaded", "no_dev", "dead_dev", "null_vms"}
    BY <1>19 DEF WorkBody, WorkUnlock, DevFault, Vms
  <2>4. QED
    BY <1>19, <2>1, <2>2, <2>3 DEF WorkBody, EventCodes, GearType
<1>20. ASSUME NEW w \in Writers, WheelSpeedStore(w) PROVE FieldsOK'
  <2>1. CASE WriterEnter(w)
    <3>1. PICK n \in WheelInputs : newspeed' = [newspeed EXCEPT ![w] = Clamp(n)]
      BY <2>1 DEF WriterEnter
    <3>2. Clamp(n) \in WHEEL_MIN_SPEED .. WHEEL_MAX_SPEED
      BY <3>1, VmouseAssumption DEF Clamp, WHEEL_MIN_SPEED, WHEEL_MAX_SPEED
    <3>3. newspeed' \in [Writers -> WHEEL_MIN_SPEED .. WHEEL_MAX_SPEED]
      BY <3>1, <3>2
    <3>4. QED
      BY <2>1, <3>3 DEF WriterEnter
  <2>2. CASE WriterLock(w)
    BY <2>2 DEF WriterLock, Tasks
  <2>3. CASE WriterStore(w)
    <3>1. WHEEL_DEFAULT_SPEED \in WHEEL_MIN_SPEED .. WHEEL_MAX_SPEED
      BY DEF WHEEL_DEFAULT_SPEED, WHEEL_MIN_SPEED, WHEEL_MAX_SPEED
    <3>2. QED
      BY <2>3, <3>1 DEF WriterStore
  <2>4. QED
    BY <1>20, <2>1, <2>2, <2>3 DEF WheelSpeedStore
<1>21. ASSUME UNCHANGED vars PROVE FieldsOK'
  BY <1>21 DEF vars
<1>22. QED
  BY <1>1, <1>2, <1>3, <1>4, <1>5, <1>6, <1>7, <1>8, <1>9, <1>10, <1>11, <1>12, <1>13, <1>14, <1>15, <1>16, <1>17, <1>18, <1>19, <1>20, <1>21
     DEF Next, VmouseInit, VmouseExit, Filter, Work

LEMMA FlagsInit == Init => FlagsOK
BY DEF Init, FlagsOK

LEMMA FlagsStep == FlagsOK /\ [Next]_vars => FlagsOK'
<1> SUFFICES ASSUME FlagsOK, [Next]_vars PROVE FlagsOK'
  OBVIOUS
<1> USE DEF FlagsOK, history
<1>1. ASSUME NEW k \in Keyboards, FilterEnter(k) PROVE FlagsOK'
  BY <1>1, Zenon DEF FilterEnter
<1>2. ASSUME NEW k \in Keyboards, FilterToggle(k) PROVE FlagsOK'
  BY <1>2, Zenon DEF FilterToggle
<1>3. ASSUME NEW k \in Keyboards, FilterLoadCapslock(k) PROVE FlagsOK'
  BY <1>3, Zenon DEF FilterLoadCapslock
<1>4. ASSUME NEW k \in Keyboards, FilterKeepSpeed(k) PROVE FlagsOK'
  BY <1>4, Zenon DEF FilterKeepSpeed
<1>5. ASSUME NEW k \in Keyboards, FilterTest(k) PROVE FlagsOK'
  BY <1>5, Zenon DEF FilterTest
<1>6. ASSUME NEW k \in Keyboards, FilterValue(k) PROVE FlagsOK'
  BY <1>6, Zenon DEF FilterValue
<1>7. ASSUME NEW k \in Keyboards, FilterSchedule(k) PROVE FlagsOK'
  BY <1>7, Zenon DEF FilterSchedule
<1>8. ASSUME NEW k \in Keyboards, VkbdConnect(k) PROVE FlagsOK'
  BY <1>8, Zenon DEF VkbdConnect
<1>9. ASSUME NEW k \in Keyboards, VkbdDisconnect(k) PROVE FlagsOK'
  BY <1>9, Zenon DEF VkbdDisconnect
<1>10. ASSUME InitVms PROVE FlagsOK'
  BY <1>10, Zenon DEF InitVms
<1>11. ASSUME InitHandler PROVE FlagsOK'
  BY <1>11, Zenon DEF InitHandler
<1>12. ASSUME InitDevice PROVE FlagsOK'
  BY <1>12, Zenon DEF InitDevice
<1>13. ASSUME InitRegister PROVE FlagsOK'
  BY <1>13, Zenon DEF InitRegister
<1>14. ASSUME ExitFile \/ ExitDevice PROVE FlagsOK'
  BY <1>14, Zenon DEF ExitFile, ExitDevice
<1>15. ASSUME ExitHandler PROVE FlagsOK'
  BY <1>15, Zenon DEF ExitHandler
<1>16. ASSUME ExitFree PROVE FlagsOK'
  BY <1>16, Zenon DEF ExitFree
<1>17. ASSUME WorkStart PROVE FlagsOK'
  BY <1>17, Zenon DEF WorkStart
<1>18. ASSUME WorkLoadCode PROVE FlagsOK'
  BY <1>18, Zenon DEF WorkLoadCode
<1>19. ASSUME WorkBody PROVE FlagsOK'
  BY <1>19, Zenon DEF WorkBody
<1>20. ASSUME NEW w \in Writers, WheelSpeedStore(w) PROVE FlagsOK'
  BY <1>20, Zenon DEF WheelSpeedStore, WriterEnter, WriterLock, WriterStore
<1>21. ASSUME UNCHANGED vars PROVE FlagsOK'
  BY <1>21, Zenon DEF vars
<1>22. QED
  BY <1>1, <1>2, <1>3, <1>4, <1>5, <1>6, <1>7, <1>8, <1>9, <1>10, <1>11, <1>12, <1>13, <1>14, <1>15, <1>16, <1>17, <1>18, <1>19, <1>20, <1>21
     DEF Next, VmouseInit, VmouseExit, Filter, Work

\* The types of all variables, as Vmouse states them.
THEOREM TypeCorrect == Spec => []TypeOK
<1>1. Init => FieldsOK /\ FlagsOK
  BY FieldsInit, FlagsInit
<1>2. (FieldsOK /\ FlagsOK) /\ [Next]_vars => (FieldsOK /\ FlagsOK)'
  BY FieldsStep, FlagsStep
<1>3. QED
  BY <1>1, <1>2, PTL DEF Spec, TypeOK

-----------------------------------------------------------------------------
(* The gears.                                                              *)

LEMMA GearFrame == [Next]_vars => gear' \in {gear, Gearbox(value, gear, keep_speed)}
<1> SUFFICES ASSUME [Next]_vars PROVE gear' \in {gear, Gearbox(value, gear, keep_speed)}
  OBVIOUS
<1>1. ASSUME NEW k \in Keyboards, FilterEnter(k) PROVE gear' \in {gear, Gearbox(value, gear, keep_speed)}
  BY <1>1 DEF FilterEnter
<1>2. ASSUME NEW k \in Keyboards, FilterToggle(k) PROVE gear' \in {gear, Gearbox(value, gear, keep_speed)}
  BY <1>2 DEF FilterToggle
<1>3. ASSUME NEW k \in Keyboards, FilterLoadCapslock(k) PROVE gear' \in {gear, Gearbox(value, gear, keep_speed)}
  BY <1>3 DEF FilterLoadCapslock
<1>4. ASSUME NEW k \in Keyboards, FilterKeepSpeed(k) PROVE gear' \in {gear, Gearbox(value, gear, keep_speed)}
  BY <1>4 DEF FilterKeepSpeed
<1>5. ASSUME NEW k \in Keyboards, FilterTest(k) PROVE gear' \in {gear, Gearbox(value, gear, keep_speed)}
  BY <1>5 DEF FilterTest
<1>6. ASSUME NEW k \in Keyboards, FilterValue(k) PROVE gear' \in {gear, Gearbox(value, gear, keep_speed)}
  BY <1>6 DEF FilterValue
<1>7. ASSUME NEW k \in Keyboards, FilterSchedule(k) PROVE gear' \in {gear, Gearbox(value, gear, keep_speed)}
  BY <1>7 DEF FilterSchedule
<1>8. ASSUME NEW k \in Keyboards, VkbdConnect(k) PROVE gear' \in {gear, Gearbox(value, gear, keep_speed)}
  BY <1>8 DEF VkbdConnect
<1>9. ASSUME NEW k \in Keyboards, VkbdDisconnect(k) PROVE gear' \in {gear, Gearbox(value, gear, keep_speed)}
  BY <1>9 DEF VkbdDisconnect
<1>10. ASSUME InitVms PROVE gear' \in {gear, Gearbox(value, gear, keep_speed)}
  BY <1>10 DEF InitVms
<1>11. ASSUME InitHandler PROVE gear' \in {gear, Gearbox(value, gear, keep_speed)}
  BY <1>11 DEF InitHandler
<1>12. ASSUME InitDevice PROVE gear' \in {gear, Gearbox(value, gear, keep_speed)}
  BY <1>12 DEF InitDevice
<1>13. ASSUME InitRegister PROVE gear' \in {gear, Gearbox(value, gear, keep_speed)}
  BY <1>13 DEF InitRegister
<1>14. ASSUME ExitFile \/ ExitDevice PROVE gear' \in {gear, Gearbox(value, gear, keep_speed)}
  BY <1>14 DEF ExitFile, ExitDevice
<1>15. ASSUME ExitHandler PROVE gear' \in {gear, Gearbox(value, gear, keep_speed)}
  BY <1>15 DEF ExitHandler
<1>16. ASSUME ExitFree PROVE gear' \in {gear, Gearbox(value, gear, keep_speed)}
  BY <1>16 DEF ExitFree
<1>17. ASSUME WorkStart PROVE gear' \in {gear, Gearbox(value, gear, keep_speed)}
  BY <1>17 DEF WorkStart
<1>18. ASSUME WorkLoadCode PROVE gear' \in {gear, Gearbox(value, gear, keep_speed)}
  BY <1>18 DEF WorkLoadCode
<1>19. ASSUME WorkBody PROVE gear' \in {gear, Gearbox(value, gear, keep_speed)}
  BY <1>19 DEF WorkBody
<1>20. ASSUME NEW w \in Writers, WheelSpeedStore(w) PROVE gear' \in {gear, Gearbox(value, gear, keep_speed)}
  BY <1>20 DEF WheelSpeedStore, WriterEnter, WriterLock, WriterStore
<1>21. ASSUME UNCHANGED vars PROVE gear' \in {gear, Gearbox(value, gear, keep_speed)}
  BY <1>21 DEF vars
<1>22. QED
  BY <1>1, <1>2, <1>3, <1>4, <1>5, <1>6, <1>7, <1>8, <1>9, <1>10, <1>11, <1>12, <1>13, <1>14, <1>15, <1>16, <1>17, <1>18, <1>19, <1>20, <1>21
     DEF Next, VmouseInit, VmouseExit, Filter, Work

\* The count of gearbox never reaches its step, and step and speed stay in the
\* same gear, in every reachable state.
THEOREM GearsStayInSync == Spec => []GearInSync
<1>1. Init => GearInSync
  BY VmouseAssumption
     DEF Init, GearInSync, Gears, NewGear, STEP_DEFAULT_VALUE, MOVE_DEFAULT_SPEED
<1>2. TypeOK /\ GearInSync /\ [Next]_vars => GearInSync'
  <2> SUFFICES ASSUME TypeOK, GearInSync, [Next]_vars PROVE GearInSync'
    OBVIOUS
  <2>1. gear \in GearType /\ value \in KeyValues /\ keep_speed \in BOOLEAN /\ InSync(gear)
    BY Zenon DEF TypeOK, FieldsOK, FlagsOK, GearType, InSync, GearInSync
  <2>2. InSync(Gearbox(value, gear, keep_speed))
    BY <2>1, GearboxInSync
  <2>3. gear' = gear \/ gear' = Gearbox(value, gear, keep_speed)
    BY GearFrame
  <2>4. InSync(gear')
    BY <2>1, <2>2, <2>3, Zenon
  <2>5. QED
    BY <2>4 DEF InSync, GearInSync
<1>3. QED
  BY <1>1, <1>2, TypeCorrect, PTL DEF Spec

\* While Caps Lock keeps the speed, no step changes it.
THEOREM SpeedIsKept == Spec => SpeedKept
<1>1. TypeOK /\ [Next]_vars => [keep_speed => gear'.speed = gear.speed]_vars
  <2> SUFFICES ASSUME TypeOK, [Next]_vars, keep_speed PROVE gear'.speed = gear.speed
    OBVIOUS
  <2>1. gear \in GearType
    BY DEF TypeOK, FieldsOK, GearType
  <2>2. gear' = gear \/ gear' = WithCount(gear, 0)
    BY GearFrame, Zenon DEF Gearbox
  <2>3. QED
    BY <2>1, <2>2 DEF GearType, WithCount
<1>2. QED
  BY <1>1, TypeCorrect, PTL DEF Spec, SpeedKept

-----------------------------------------------------------------------------
(* Caps Lock.  A filter inside its critical section either holds the       *)
(* current toggle, or another filter has toggled since and is still to     *)
(* come; outside any critical section the same goes for keep_speed.        *)

Coming == \E j \in Keyboards : fpc[j] = "lock"

CapsInv ==
  /\ \A k \in Keyboards : lock = k <=> fpc[k] = "keep"
  /\ wpc = "body" <=> lock = "worker"
  /\ \A w \in Writers : lock = w <=> spc[w] = "store"
  /\ lock \notin Keyboards => Coming \/ (keep_speed <=> capslock_key_down = 1)
  /\ \A k \in Keyboards : fpc[k] = "keep" => Coming \/ tmp[k] = capslock_key_down

LEMMA CapsStep == TypeOK /\ CapsInv /\ [Next]_vars => CapsInv'
<1> SUFFICES ASSUME TypeOK, CapsInv, [Next]_vars PROVE CapsInv'
  OBVIOUS
<1> /\ fpc \in [Keyboards -> {"idle", "toggle", "lock", "keep", "test", "value", "sched"}]
    /\ tmp \in [Keyboards -> {0, 1}] /\ lock \in Keyboards \cup Tasks \cup {"free"}
    /\ capslock_key_down \in {0, 1}
    /\ wpc \in {"idle", "lock", "body"}
    /\ spc \in [Writers -> {"idle", "lock", "store"}]
    /\ Tasks = Writers \cup {"worker"} /\ Keyboards \cap Tasks = {} /\ "free" \notin Keyboards \cup Tasks
    /\ "worker" \notin Writers
  BY VmouseAssumption DEF TypeOK, FieldsOK, Tasks
<1> USE DEF CapsInv, Coming, env, keyStatus, event, filter, worker, store, history
<1>1. ASSUME NEW k \in Keyboards, FilterEnter(k) PROVE CapsInv'
  BY <1>1 DEF FilterEnter, FilterModifier, FilterCapslock, FilterOther, GoOn
<1>2. ASSUME NEW k \in Keyboards, FilterToggle(k) PROVE CapsInv'
  BY <1>2 DEF FilterToggle
<1>3. ASSUME NEW k \in Keyboards, FilterLoadCapslock(k) PROVE CapsInv'
  BY <1>3 DEF FilterLoadCapslock
<1>4. ASSUME NEW k \in Keyboards, FilterKeepSpeed(k) PROVE CapsInv'
  BY <1>4 DEF FilterKeepSpeed
<1>5. ASSUME NEW k \in Keyboards, FilterTest(k) PROVE CapsInv'
  BY <1>5 DEF FilterTest, Return
<1>6. ASSUME NEW k \in Keyboards, FilterValue(k) PROVE CapsInv'
  BY <1>6 DEF FilterValue
<1>7. ASSUME NEW k \in Keyboards, FilterSchedule(k) PROVE CapsInv'
  BY <1>7 DEF FilterSchedule, Return
<1>8. ASSUME NEW k \in Keyboards, VkbdConnect(k) PROVE CapsInv'
  BY <1>8 DEF VkbdConnect
<1>9. ASSUME NEW k \in Keyboards, VkbdDisconnect(k) PROVE CapsInv'
  BY <1>9 DEF VkbdDisconnect
<1>10. ASSUME InitVms PROVE CapsInv'
  BY <1>10 DEF InitVms
<1>11. ASSUME InitHandler PROVE CapsInv'
  BY <1>11 DEF InitHandler
<1>12. ASSUME InitDevice PROVE CapsInv'
  BY <1>12 DEF InitDevice
<1>13. ASSUME InitRegister PROVE CapsInv'
  BY <1>13 DEF InitRegister
<1>14. ASSUME ExitFile \/ ExitDevice PROVE CapsInv'
  BY <1>14 DEF ExitFile, ExitDevice
<1>15. ASSUME ExitHandler PROVE CapsInv'
  BY <1>15 DEF ExitHandler
<1>16. ASSUME ExitFree PROVE CapsInv'
  BY <1>16 DEF ExitFree
<1>17. ASSUME WorkStart PROVE CapsInv'
  BY <1>17 DEF WorkStart
<1>18. ASSUME WorkLoadCode PROVE CapsInv'
  BY <1>18 DEF WorkLoadCode
<1>19. ASSUME WorkBody PROVE CapsInv'
  BY <1>19 DEF WorkBody, WorkUnlock
<1>20. ASSUME NEW w \in Writers, WheelSpeedStore(w) PROVE CapsInv'
  BY <1>20 DEF WheelSpeedStore, WriterEnter, WriterLock, WriterStore
<1>21. ASSUME UNCHANGED vars PROVE CapsInv'
  BY <1>21 DEF vars
<1>22. QED
  BY <1>1, <1>2, <1>3, <1>4, <1>5, <1>6, <1>7, <1>8, <1>9, <1>10, <1>11, <1>12, <1>13, <1>14, <1>15, <1>16, <1>17, <1>18, <1>19, <1>20, <1>21
     DEF Next, VmouseInit, VmouseExit, Filter, Work

\* With no filter between its toggle and the end of its critical section,
\* keep_speed is the Caps Lock toggle, for any number of racing keyboards.
THEOREM KeepSpeedIsCapslock == Spec => []KeepSpeedFollowsCapslock
<1>1. Init => CapsInv
  BY VmouseAssumption DEF Init, CapsInv, Coming
<1>2. TypeOK /\ CapsInv => KeepSpeedFollowsCapslock
  BY VmouseAssumption DEF TypeOK, FieldsOK, CapsInv, Coming, KeepSpeedFollowsCapslock, Tasks
<1>3. QED
  BY <1>1, <1>2, CapsStep, TypeCorrect, PTL DEF Spec

-----------------------------------------------------------------------------
(* Delivery.  Whatever the fields hold has been acted on, or will be: a    *)
(* filter is still storing it, the work is queued, or the run in progress  *)
(* has yet to load it.                                                     *)

Storing == \E k \in Keyboards : fpc[k] \in {"value", "sched"}

DeliveryInv ==
  /\ Storing \/ pending \/ wpc # "idle" \/ applied
  /\ wpc = "body" => Storing \/ pending \/ wcode = event_code

LEMMA DeliveryStep == TypeOK /\ DeliveryInv /\ [Next]_vars => DeliveryInv'
<1> SUFFICES ASSUME TypeOK, DeliveryInv, [Next]_vars PROVE DeliveryInv'
  OBVIOUS
<1> /\ fpc \in [Keyboards -> {"idle", "toggle", "lock", "keep", "test", "value", "sched"}]
    /\ wpc \in {"idle", "lock", "body"}
  BY DEF TypeOK, FieldsOK
<1> USE DEF DeliveryInv, Storing, env, keyStatus, event, filter, worker, store, history
<1>1. ASSUME NEW k \in Keyboards, FilterEnter(k) PROVE DeliveryInv'
  BY <1>1 DEF FilterEnter, FilterModifier, FilterCapslock, FilterOther, GoOn
<1>2. ASSUME NEW k \in Keyboards, FilterToggle(k) PROVE DeliveryInv'
  BY <1>2 DEF FilterToggle
<1>3. ASSUME NEW k \in Keyboards, FilterLoadCapslock(k) PROVE DeliveryInv'
  BY <1>3 DEF FilterLoadCapslock
<1>4. ASSUME NEW k \in Keyboards, FilterKeepSpeed(k) PROVE DeliveryInv'
  BY <1>4 DEF FilterKeepSpeed
<1>5. ASSUME NEW k \in Keyboards, FilterTest(k) PROVE DeliveryInv'
  BY <1>5 DEF FilterTest, Return
<1>6. ASSUME NEW k \in Keyboards, FilterValue(k) PROVE DeliveryInv'
  BY <1>6 DEF FilterValue
<1>7. ASSUME NEW k \in Keyboards, FilterSchedule(k) PROVE DeliveryInv'
  BY <1>7 DEF FilterSchedule, Return
<1>8. ASSUME NEW k \in Keyboards, VkbdConnect(k) PROVE DeliveryInv'
  BY <1>8 DEF VkbdConnect
<1>9. ASSUME NEW k \in Keyboards, VkbdDisconnect(k) PROVE DeliveryInv'
  BY <1>9 DEF VkbdDisconnect
<1>10. ASSUME InitVms PROVE DeliveryInv'
  BY <1>10 DEF InitVms
<1>11. ASSUME InitHandler PROVE DeliveryInv'
  BY <1>11 DEF InitHandler
<1>12. ASSUME InitDevice PROVE DeliveryInv'
  BY <1>12 DEF InitDevice
<1>13. ASSUME InitRegister PROVE DeliveryInv'
  BY <1>13 DEF InitRegister
<1>14. ASSUME ExitFile \/ ExitDevice PROVE DeliveryInv'
  BY <1>14 DEF ExitFile, ExitDevice
<1>15. ASSUME ExitHandler PROVE DeliveryInv'
  BY <1>15 DEF ExitHandler
<1>16. ASSUME ExitFree PROVE DeliveryInv'
  BY <1>16 DEF ExitFree
<1>17. ASSUME WorkStart PROVE DeliveryInv'
  BY <1>17 DEF WorkStart
<1>18. ASSUME WorkLoadCode PROVE DeliveryInv'
  BY <1>18 DEF WorkLoadCode
<1>19. ASSUME WorkBody PROVE DeliveryInv'
  BY <1>19 DEF WorkBody, WorkUnlock
<1>20. ASSUME NEW w \in Writers, WheelSpeedStore(w) PROVE DeliveryInv'
  BY <1>20 DEF WheelSpeedStore, WriterEnter, WriterLock, WriterStore
<1>21. ASSUME UNCHANGED vars PROVE DeliveryInv'
  BY <1>21 DEF vars
<1>22. QED
  BY <1>1, <1>2, <1>3, <1>4, <1>5, <1>6, <1>7, <1>8, <1>9, <1>10, <1>11, <1>12, <1>13, <1>14, <1>15, <1>16, <1>17, <1>18, <1>19, <1>20, <1>21
     DEF Next, VmouseInit, VmouseExit, Filter, Work

\* At rest, vms_func has acted on the event the fields hold.
THEOREM LastEventIsApplied == Spec => []LastEventApplied
<1>1. Init => DeliveryInv
  BY DEF Init, DeliveryInv
<1>2. DeliveryInv => LastEventApplied
  BY DEF DeliveryInv, Storing, LastEventApplied, AtRest, Unread
<1>3. QED
  BY <1>1, <1>2, DeliveryStep, TypeCorrect, PTL DEF Spec

-----------------------------------------------------------------------------
(* Init and exit.  A run nothing has disturbed has no work outstanding     *)
(* whenever the driver is not live, and no filter left once vms is freed.  *)

QuietInv ==
  /\ undisturbed => fault = "none"
  /\ undisturbed => Live \/ (~pending /\ wpc = "idle")
  /\ undisturbed => mod # "orphan"
  /\ mod = "freed" => \A k \in Keyboards : fpc[k] = "idle"

LEMMA QuietStep == TypeOK /\ QuietInv /\ [Next]_vars => QuietInv'
<1> SUFFICES ASSUME TypeOK, QuietInv, [Next]_vars PROVE QuietInv'
  OBVIOUS
<1> /\ fpc \in [Keyboards -> {"idle", "toggle", "lock", "keep", "test", "value", "sched"}]
    /\ wpc \in {"idle", "lock", "body"}
  BY DEF TypeOK, FieldsOK
<1> USE DEF QuietInv, Unread, Live, env, keyStatus, event, filter, worker, store, history
<1>1. ASSUME NEW k \in Keyboards, FilterEnter(k) PROVE QuietInv'
  BY <1>1 DEF FilterEnter, FilterModifier, FilterCapslock, FilterOther, GoOn, Vms, HandlerRegistered
<1>2. ASSUME NEW k \in Keyboards, FilterToggle(k) PROVE QuietInv'
  BY <1>2 DEF FilterToggle, Vms
<1>3. ASSUME NEW k \in Keyboards, FilterLoadCapslock(k) PROVE QuietInv'
  BY <1>3 DEF FilterLoadCapslock, Vms
<1>4. ASSUME NEW k \in Keyboards, FilterKeepSpeed(k) PROVE QuietInv'
  BY <1>4 DEF FilterKeepSpeed, Vms
<1>5. ASSUME NEW k \in Keyboards, FilterTest(k) PROVE QuietInv'
  BY <1>5 DEF FilterTest, Return, Vms
<1>6. ASSUME NEW k \in Keyboards, FilterValue(k) PROVE QuietInv'
  BY <1>6 DEF FilterValue, Vms
<1>7. ASSUME NEW k \in Keyboards, FilterSchedule(k) PROVE QuietInv'
  BY <1>7 DEF FilterSchedule, Return, Vms
<1>8. ASSUME NEW k \in Keyboards, VkbdConnect(k) PROVE QuietInv'
  BY <1>8 DEF VkbdConnect
<1>9. ASSUME NEW k \in Keyboards, VkbdDisconnect(k) PROVE QuietInv'
  BY <1>9 DEF VkbdDisconnect
<1>10. ASSUME InitVms PROVE QuietInv'
  BY <1>10 DEF InitVms
<1>11. ASSUME InitHandler PROVE QuietInv'
  BY <1>11 DEF InitHandler
<1>12. ASSUME InitDevice PROVE QuietInv'
  BY <1>12 DEF InitDevice
<1>13. ASSUME InitRegister PROVE QuietInv'
  BY <1>13 DEF InitRegister
<1>14. ASSUME ExitFile \/ ExitDevice PROVE QuietInv'
  <2>1. CASE ExitFile
    BY <2>1 DEF ExitFile
  <2>2. CASE ExitDevice
    BY <2>2 DEF ExitDevice
  <2>3. QED
    BY <1>14, <2>1, <2>2
<1>15. ASSUME ExitHandler PROVE QuietInv'
  BY <1>15 DEF ExitHandler
<1>16. ASSUME ExitFree PROVE QuietInv'
  BY <1>16 DEF ExitFree
<1>17. ASSUME WorkStart PROVE QuietInv'
  BY <1>17 DEF WorkStart, Vms
<1>18. ASSUME WorkLoadCode PROVE QuietInv'
  BY <1>18 DEF WorkLoadCode, Vms
<1>19. ASSUME WorkBody PROVE QuietInv'
  BY <1>19 DEF WorkBody, DevFault, Vms
<1>20. ASSUME NEW w \in Writers, WheelSpeedStore(w) PROVE QuietInv'
  BY <1>20 DEF WheelSpeedStore, WriterEnter, WriterLock, WriterStore
<1>21. ASSUME UNCHANGED vars PROVE QuietInv'
  BY <1>21 DEF vars
<1>22. QED
  BY <1>1, <1>2, <1>3, <1>4, <1>5, <1>6, <1>7, <1>8, <1>9, <1>10, <1>11, <1>12, <1>13, <1>14, <1>15, <1>16, <1>17, <1>18, <1>19, <1>20, <1>21
     DEF Next, VmouseInit, VmouseExit, Filter, Work

\* The order of vmouse_init and vmouse_exit is safe on its own: only an event
\* outside the live driver, work outstanding when the exit begins, or a failed
\* allocation can make the driver touch what is not there.
THEOREM SafeWhenUndisturbed == Spec => []SafeIfUndisturbed
<1>1. Init => QuietInv
  BY DEF Init, QuietInv, Live
<1>2. QuietInv => SafeIfUndisturbed
  BY DEF QuietInv, SafeIfUndisturbed
<1>3. QED
  BY <1>1, <1>2, QuietStep, TypeCorrect, PTL DEF Spec

-----------------------------------------------------------------------------
(* The buttons.                                                            *)

Held(c) == \E k \in Keyboards : c \in pressed[k]

\* The filter of k still has the event of key c in its locals.
Serves(k, c) == fpc[k] \in {"test", "value", "sched"} /\ ev[k].code = c

\* What the program counters of the filter and of vms_func say of their locals.
LocalsInv ==
  /\ \A k \in Keyboards : fpc[k] # "idle" \/ pressed[k] # {} => keys[k] # {}
  /\ \A k \in Keyboards : fpc[k] \in {"toggle", "lock", "keep"} => ev[k].code = "CAPSLOCK"
  /\ wpc # "body" => wcode = "NONE"

\* What one filter at a time has stored is what its locals hold.
StoredInv ==
  /\ \A k \in Keyboards : fpc[k] \in {"value", "sched"} => event_code = ev[k].code
  /\ \A k \in Keyboards : fpc[k] = "sched" => value = ev[k].value

\* The fields hold an event of c that vms_func has not acted on, and will.
InFields(c) ==
  /\ event_code = c /\ (value # KEY_VAL_UP <=> Held(c))
  /\ pending \/ wpc = "lock" \/ wcode = c

\* An event the filter serves agrees with the key; and a key whose last event was
\* not lost has it in a filter, in the fields of vms, or shown by its button.
ButtonInv(c) ==
  /\ \A k \in Keyboards : Serves(k, c) => (ev[k].value # KEY_VAL_UP <=> Held(c))
  /\ \/ c \in lost
     \/ \E k \in Keyboards : Serves(k, c)
     \/ IF Unread /\ c \in {event_code, wcode} THEN InFields(c)
        ELSE c \in button <=> Held(c)

ButtonsInv == StoredInv /\ \A c \in ButtonKeys : ButtonInv(c)

KeyboardInv == LocalsInv /\ (OneKeyboard => ButtonsInv)

LEMMA LocalsStep == TypeOK /\ LocalsInv /\ [Next]_vars => LocalsInv'
<1> SUFFICES ASSUME TypeOK, LocalsInv, [Next]_vars PROVE LocalsInv'
  OBVIOUS
<1> /\ fpc \in [Keyboards -> {"idle", "toggle", "lock", "keep", "test", "value", "sched"}]
    /\ ev \in [Keyboards -> [code : EventCodes, value : KeyValues]]
    /\ pressed \in [Keyboards -> SUBSET AllCodes]
    /\ wpc \in {"idle", "lock", "body"}
  BY DEF TypeOK, FieldsOK
<1> USE DEF LocalsInv, env, keyStatus, event, filter, worker, store, history
<1>1. ASSUME NEW k \in Keyboards, FilterEnter(k) PROVE LocalsInv'
  BY <1>1, SMTT(30) DEF FilterEnter, Pressed, FilterModifier, FilterCapslock, FilterOther, GoOn
<1>2. ASSUME NEW k \in Keyboards, FilterToggle(k) PROVE LocalsInv'
  BY <1>2 DEF FilterToggle
<1>3. ASSUME NEW k \in Keyboards, FilterLoadCapslock(k) PROVE LocalsInv'
  BY <1>3 DEF FilterLoadCapslock
<1>4. ASSUME NEW k \in Keyboards, FilterKeepSpeed(k) PROVE LocalsInv'
  BY <1>4 DEF FilterKeepSpeed
<1>5. ASSUME NEW k \in Keyboards, FilterTest(k) PROVE LocalsInv'
  BY <1>5 DEF FilterTest, Return
<1>6. ASSUME NEW k \in Keyboards, FilterValue(k) PROVE LocalsInv'
  BY <1>6 DEF FilterValue
<1>7. ASSUME NEW k \in Keyboards, FilterSchedule(k) PROVE LocalsInv'
  BY <1>7 DEF FilterSchedule, Return
<1>8. ASSUME NEW k \in Keyboards, VkbdConnect(k) PROVE LocalsInv'
  BY <1>8 DEF VkbdConnect
<1>9. ASSUME NEW k \in Keyboards, VkbdDisconnect(k) PROVE LocalsInv'
  BY <1>9 DEF VkbdDisconnect
<1>10. ASSUME InitVms PROVE LocalsInv'
  BY <1>10 DEF InitVms
<1>11. ASSUME InitHandler PROVE LocalsInv'
  BY <1>11 DEF InitHandler
<1>12. ASSUME InitDevice PROVE LocalsInv'
  BY <1>12 DEF InitDevice
<1>13. ASSUME InitRegister PROVE LocalsInv'
  BY <1>13 DEF InitRegister
<1>14. ASSUME ExitFile \/ ExitDevice PROVE LocalsInv'
  BY <1>14 DEF ExitFile, ExitDevice
<1>15. ASSUME ExitHandler PROVE LocalsInv'
  BY <1>15 DEF ExitHandler
<1>16. ASSUME ExitFree PROVE LocalsInv'
  BY <1>16 DEF ExitFree
<1>17. ASSUME WorkStart PROVE LocalsInv'
  BY <1>17 DEF WorkStart
<1>18. ASSUME WorkLoadCode PROVE LocalsInv'
  BY <1>18 DEF WorkLoadCode
<1>19. ASSUME WorkBody PROVE LocalsInv'
  BY <1>19 DEF WorkBody
<1>20. ASSUME NEW w \in Writers, WheelSpeedStore(w) PROVE LocalsInv'
  BY <1>20 DEF WheelSpeedStore, WriterEnter, WriterLock, WriterStore
<1>21. ASSUME UNCHANGED vars PROVE LocalsInv'
  BY <1>21 DEF vars
<1>22. QED
  BY <1>1, <1>2, <1>3, <1>4, <1>5, <1>6, <1>7, <1>8, <1>9, <1>10, <1>11, <1>12, <1>13, <1>14, <1>15, <1>16, <1>17, <1>18, <1>19, <1>20, <1>21
     DEF Next, VmouseInit, VmouseExit, Filter, Work

\* With one keyboard, a filter that runs is the only one, and its keyboard holds all
\* the keys that are down.
LEMMA Alone ==
  ASSUME LocalsInv, OneKeyboard, NEW k \in Keyboards, keys[k] # {}
  PROVE  /\ \A j \in Keyboards \ {k} : fpc[j] = "idle" /\ pressed[j] = {}
         /\ \A c : Held(c) <=> c \in pressed[k]
BY DEF LocalsInv, OneKeyboard, Held

LEMMA ButtonsStep ==
  TypeOK /\ LocalsInv /\ OneKeyboard /\ ButtonsInv /\ [Next]_vars => ButtonsInv'
<1> SUFFICES ASSUME TypeOK, LocalsInv, OneKeyboard, ButtonsInv, [Next]_vars PROVE ButtonsInv'
  OBVIOUS
<1> /\ fpc \in [Keyboards -> {"idle", "toggle", "lock", "keep", "test", "value", "sched"}]
    /\ ev \in [Keyboards -> [code : EventCodes, value : KeyValues]]
    /\ pressed \in [Keyboards -> SUBSET AllCodes]
    /\ wpc \in {"idle", "lock", "body"}
  BY DEF TypeOK, FieldsOK
<1> USE DEF ButtonsInv, StoredInv, ButtonInv, InFields, Serves, Held, Unread,
        env, keyStatus, event, filter, worker, store, history
<1>1. ASSUME NEW k \in Keyboards, FilterEnter(k) PROVE ButtonsInv'
  <2>0. PICK d \in keys[k], v \in KeyValues :
          /\ Legal(k, d, v) /\ pressed' = Pressed(k, d, v)
          /\ \/ d \in {"CTRL", "ALT"} /\ FilterModifier(k, d, v)
             \/ d = "CAPSLOCK" /\ FilterCapslock(k, v)
             \/ d \notin {"CTRL", "ALT", "CAPSLOCK"} /\ FilterOther(k, d, v)
    BY <1>1 DEF FilterEnter
  <2>1. /\ \A j \in Keyboards \ {k} : fpc[j] = "idle" /\ pressed[j] = {}
        /\ \A c : Held(c) <=> c \in pressed[k]
    BY <2>0, Alone
  <2>2. /\ fpc[k] = "idle"
        /\ UNCHANGED <<event_code, value, pending, wpc, wcode, button, lost>>
    BY <1>1 DEF FilterEnter
  <2>3. \A j \in Keyboards \ {k} : fpc'[j] = "idle" /\ pressed'[j] = {}
    BY <2>0, <2>1 DEF Pressed, FilterModifier, FilterCapslock, FilterOther, GoOn
  <2>4. \A c : Held(c)' <=> c \in pressed'[k]
    BY <2>3
  <2>5. \A c : c # d => (Held(c)' <=> Held(c))
    BY <2>0, <2>1, <2>4 DEF Pressed
  <2>6. d \in pressed'[k] <=> v # KEY_VAL_UP
    BY <2>0 DEF Pressed
  <2>7. fpc'[k] \notin {"value", "sched"}
    BY <2>0, <2>2 DEF FilterModifier, FilterCapslock, FilterOther, GoOn
  <2>8. ASSUME NEW c \in ButtonKeys PROVE ButtonInv(c)'
    <3>1. CASE c = d
      <4>1. Serves(k, c)' /\ ev'[k].value = v
        BY <2>0, <3>1 DEF FilterOther, GoOn, ButtonKeys
      <4>2. QED
        BY <4>1, <3>1, <2>3, <2>4, <2>6
    <3>2. CASE c # d
      <4>1. \A j \in Keyboards : ~Serves(j, c) /\ ~Serves(j, c)'
        BY <2>0, <2>1, <2>2, <2>3, <3>2 DEF FilterModifier, FilterCapslock, FilterOther, GoOn
      <4>2. Held(c)' <=> Held(c)
        BY <2>5, <3>2
      <4>3. QED
        BY <4>1, <4>2, <2>2
    <3>3. QED
      BY <3>1, <3>2
  <2>9. QED
    BY <2>3, <2>7, <2>8
<1>2. ASSUME NEW k \in Keyboards, FilterToggle(k) PROVE ButtonsInv'
  BY <1>2 DEF FilterToggle
<1>3. ASSUME NEW k \in Keyboards, FilterLoadCapslock(k) PROVE ButtonsInv'
  BY <1>3 DEF FilterLoadCapslock
<1>4. ASSUME NEW k \in Keyboards, FilterKeepSpeed(k) PROVE ButtonsInv'
  <2>1. ev[k].code = "CAPSLOCK"
    BY <1>4 DEF FilterKeepSpeed, LocalsInv
  <2>2. \A j \in Keyboards, c \in ButtonKeys : Serves(j, c)' <=> Serves(j, c)
    BY <1>4, <2>1 DEF FilterKeepSpeed, ButtonKeys
  <2>3. QED
    BY <1>4, <2>2 DEF FilterKeepSpeed
<1>5. ASSUME NEW k \in Keyboards, FilterTest(k) PROVE ButtonsInv'
  <2>0. keys[k] # {}
    BY <1>5 DEF FilterTest, LocalsInv
  <2>1. /\ \A j \in Keyboards \ {k} : fpc[j] = "idle" /\ pressed[j] = {}
        /\ \A c : Held(c) <=> c \in pressed[k]
    BY <2>0, Alone
  <2>2. /\ fpc[k] = "test"
        /\ UNCHANGED <<pressed, value, pending, wpc, wcode, button>>
    BY <1>5 DEF FilterTest
  <2>3. CASE ctrl_key_down # 0 /\ alt_key_down # 0
    <3>1. /\ event_code' = ev[k].code /\ lost' = LostBy(ev[k])
          /\ fpc' = [fpc EXCEPT ![k] = "value"] /\ ev' = ev
      BY <1>5, <2>3 DEF FilterTest
    <3>2. ASSUME NEW c \in ButtonKeys PROVE ButtonInv(c)'
      <4>1. \A j \in Keyboards : Serves(j, c)' <=> Serves(j, c)
        BY <2>2, <3>1
      <4>2. CASE Serves(k, c)
        BY <4>1, <4>2, <2>2, <3>1
      <4>3. CASE ~Serves(k, c)
        <5>1. ev[k].code # c /\ \A j \in Keyboards : ~Serves(j, c)
          BY <2>1, <2>2, <4>3
        <5>2. c \in lost' <=> c \in lost \/ (Unread /\ c \in {event_code, wcode})
          BY <3>1, <5>1 DEF LostBy
        <5>3. QED
          BY <2>2, <3>1, <4>1, <5>1, <5>2
      <4>4. QED
        BY <4>2, <4>3
    <3>3. QED
      BY <2>1, <3>1, <3>2
  <2>4. CASE ~(ctrl_key_down # 0 /\ alt_key_down # 0)
    <3>1. /\ event_code' = event_code /\ lost' = lost \cup (ButtonKeys \cap {ev[k].code})
          /\ \A j \in Keyboards : fpc'[j] = "idle"
      BY <1>5, <2>1, <2>4 DEF FilterTest, Return
    <3>2. QED
      BY <2>1, <2>2, <3>1
  <2>5. QED
    BY <2>3, <2>4
<1>6. ASSUME NEW k \in Keyboards, FilterValue(k) PROVE ButtonsInv'
  <2>0. keys[k] # {}
    BY <1>6 DEF FilterValue, LocalsInv
  <2>1. /\ \A j \in Keyboards \ {k} : fpc[j] = "idle" /\ pressed[j] = {}
        /\ \A c : Held(c) <=> c \in pressed[k]
    BY <2>0, Alone
  <2>2. /\ value' = ev[k].value /\ event_code = ev[k].code
        /\ fpc' = [fpc EXCEPT ![k] = "sched"] /\ fpc[k] = "value"
        /\ UNCHANGED <<pressed, ev, event_code, pending, wpc, wcode, button, lost>>
    BY <1>6 DEF FilterValue
  <2>3. ASSUME NEW c \in ButtonKeys PROVE ButtonInv(c)'
    <3>1. \A j \in Keyboards : Serves(j, c)' <=> Serves(j, c)
      BY <2>2
    <3>2. CASE Serves(k, c)
      BY <2>2, <3>1, <3>2
    <3>3. CASE ~Serves(k, c)
      <4>1. event_code # c /\ \A j \in Keyboards : ~Serves(j, c)
        BY <2>1, <2>2, <3>3
      <4>2. QED
        BY <2>2, <3>1, <4>1
    <3>4. QED
      BY <3>2, <3>3
  <2>4. QED
    BY <2>1, <2>2, <2>3
<1>7. ASSUME NEW k \in Keyboards, FilterSchedule(k) PROVE ButtonsInv'
  <2>0. keys[k] # {}
    BY <1>7 DEF FilterSchedule, LocalsInv
  <2>1. /\ \A j \in Keyboards \ {k} : fpc[j] = "idle" /\ pressed[j] = {}
        /\ \A c : Held(c) <=> c \in pressed[k]
    BY <2>0, Alone
  <2>2. /\ value = ev[k].value /\ event_code = ev[k].code /\ pending'
        /\ \A j \in Keyboards : fpc'[j] = "idle"
        /\ UNCHANGED <<pressed, value, event_code, wpc, wcode, button, lost>>
    BY <1>7, <2>1 DEF FilterSchedule, Return
  <2>3. wpc = "idle" => wcode = "NONE"
    BY DEF LocalsInv
  <2>4. ASSUME NEW c \in ButtonKeys PROVE ButtonInv(c)'
    <3>1. c # "NONE"
      BY DEF ButtonKeys
    <3>2. CASE Serves(k, c)
      BY <2>2, <3>2
    <3>3. CASE ~Serves(k, c)
      <4>1. event_code # c /\ \A j \in Keyboards : ~Serves(j, c)
        BY <1>7, <2>1, <2>2, <3>3 DEF FilterSchedule
      <4>2. QED
        BY <2>2, <2>3, <3>1, <4>1
    <3>4. QED
      BY <3>2, <3>3
  <2>5. QED
    BY <2>2, <2>4
<1>8. ASSUME NEW k \in Keyboards, VkbdConnect(k) PROVE ButtonsInv'
  BY <1>8 DEF VkbdConnect
<1>9. ASSUME NEW k \in Keyboards, VkbdDisconnect(k) PROVE ButtonsInv'
  BY <1>9 DEF VkbdDisconnect
<1>10. ASSUME InitVms PROVE ButtonsInv'
  BY <1>10 DEF InitVms
<1>11. ASSUME InitHandler PROVE ButtonsInv'
  BY <1>11 DEF InitHandler
<1>12. ASSUME InitDevice PROVE ButtonsInv'
  BY <1>12 DEF InitDevice
<1>13. ASSUME InitRegister PROVE ButtonsInv'
  BY <1>13 DEF InitRegister
<1>14. ASSUME ExitFile \/ ExitDevice PROVE ButtonsInv'
  BY <1>14 DEF ExitFile, ExitDevice
<1>15. ASSUME ExitHandler PROVE ButtonsInv'
  BY <1>15 DEF ExitHandler
<1>16. ASSUME ExitFree PROVE ButtonsInv'
  BY <1>16 DEF ExitFree
<1>17. ASSUME WorkStart PROVE ButtonsInv'
  BY <1>17 DEF WorkStart
<1>18. ASSUME WorkLoadCode PROVE ButtonsInv'
  BY <1>18 DEF WorkLoadCode
<1>19. ASSUME WorkBody PROVE ButtonsInv'
  <2>1. UNCHANGED <<pressed, event_code, value, fpc, ev, pending, lost>>
    BY <1>19 DEF WorkBody
  <2>2. CASE UNCHANGED <<button, wpc, wcode>>
    BY <2>1, <2>2
  <2>3. CASE ~UNCHANGED <<button, wpc, wcode>>
    <3>1. /\ button' = IF wcode \in ButtonKeys THEN ReportKey(wcode, value) ELSE button
          /\ wpc = "body" /\ wpc' = "idle" /\ wcode' = "NONE"
      BY <1>19, <2>3 DEF WorkBody
    <3>2. ASSUME NEW c \in ButtonKeys PROVE ButtonInv(c)'
      <4>1. c # "NONE" /\ (wcode # c => (c \in button' <=> c \in button))
        BY <3>1 DEF ButtonKeys, ReportKey
      <4>2. wcode = c => (c \in button' <=> value # KEY_VAL_UP)
        BY <3>1 DEF ReportKey
      <4>3. /\ Held(c)' <=> Held(c)
            /\ \A j \in Keyboards : Serves(j, c)' <=> Serves(j, c)
        BY <2>1
      <4>4. QED
        BY <2>1, <3>1, <4>1, <4>2, <4>3
    <3>3. QED
      BY <2>1, <3>2
  <2>4. QED
    BY <2>2, <2>3
<1>20. ASSUME NEW w \in Writers, WheelSpeedStore(w) PROVE ButtonsInv'
  BY <1>20 DEF WheelSpeedStore, WriterEnter, WriterLock, WriterStore
<1>21. ASSUME UNCHANGED vars PROVE ButtonsInv'
  BY <1>21 DEF vars
<1>22. QED
  BY <1>1, <1>2, <1>3, <1>4, <1>5, <1>6, <1>7, <1>8, <1>9, <1>10, <1>11, <1>12, <1>13, <1>14, <1>15, <1>16, <1>17, <1>18, <1>19, <1>20, <1>21
     DEF Next, VmouseInit, VmouseExit, Filter, Work

\* Which keys a device has never changes.
LEMMA KeysFixed == [Next]_vars => keys' = keys
BY DEF Next, VmouseInit, VmouseExit, Filter, Work, vars, env,
       FilterEnter, FilterToggle, FilterLoadCapslock, FilterKeepSpeed, FilterTest,
       FilterValue, FilterSchedule, VkbdConnect, VkbdDisconnect, InitVms, InitHandler,
       InitDevice, InitRegister, ExitFile, ExitDevice, ExitHandler, ExitFree, WorkStart,
       WorkLoadCode, WorkBody, WheelSpeedStore, WriterEnter, WriterLock, WriterStore

\* With one keyboard, at rest and with no filter running, a button of the mouse is
\* down exactly when its key is, for every keyboard and every speed of the worker,
\* unless the last event of the key was overwritten or passed through.
THEOREM ButtonsAreFollowed == Spec => []ButtonsFollowKeys
<1>1. Init => KeyboardInv
  BY DEF Init, KeyboardInv, LocalsInv, ButtonsInv, StoredInv, ButtonInv, Serves, Held, Unread
<1>2. TypeOK /\ KeyboardInv /\ [Next]_vars => KeyboardInv'
  <2>1. [Next]_vars /\ OneKeyboard' => OneKeyboard
    BY KeysFixed DEF OneKeyboard
  <2>2. QED
    BY <2>1, LocalsStep, ButtonsStep DEF KeyboardInv
<1>3. KeyboardInv => ButtonsFollowKeys
  BY DEF KeyboardInv, ButtonsInv, ButtonInv, Serves, Held, ButtonsFollowKeys, AtRest
<1>4. QED
  BY <1>1, <1>2, <1>3, TypeCorrect, PTL DEF Spec

-----------------------------------------------------------------------------
(* The safety half of ExitCompletes: writers and filters run out once none *)
(* comes in, and only an interrupt of a task's own CPU can keep one        *)
(* spinning.                                                               *)

\* Where a filter goes on to, and how many steps it has before it.
Onward == {<<"toggle", "lock">>, <<"lock", "keep">>, <<"keep", "test">>, <<"test", "value">>,
           <<"test", "idle">>, <<"value", "sched">>, <<"sched", "idle">>}
FilterSteps(p) == CASE p = "toggle" -> 6 [] p = "lock" -> 5 [] p = "keep" -> 4 [] p = "test" -> 3
                    [] p = "value" -> 2 [] p = "sched" -> 1 [] OTHER -> 0

LEMMA FilterGoesOn ==
  ASSUME TypeOK, NEW k \in Keyboards, Filter(k)
  PROVE  <<fpc[k], fpc'[k]>> \in Onward
<1>1. fpc \in [Keyboards -> {"idle", "toggle", "lock", "keep", "test", "value", "sched"}]
  BY DEF TypeOK, FieldsOK
<1>2. CASE FilterToggle(k) \/ FilterLoadCapslock(k) \/ FilterKeepSpeed(k)
  BY <1>1, <1>2 DEF FilterToggle, FilterLoadCapslock, FilterKeepSpeed, Onward
<1>3. CASE FilterTest(k)
  <2>1. fpc[k] = "test" /\ fpc'[k] \in {"value", "idle"}
    BY <1>1, <1>3 DEF FilterTest, Return
  <2>2. QED
    BY <2>1 DEF Onward
<1>4. CASE FilterValue(k) \/ FilterSchedule(k)
  BY <1>1, <1>4 DEF FilterValue, FilterSchedule, Return, Onward
<1>5. QED
  BY <1>2, <1>3, <1>4 DEF Filter

\* A filter that does not go on stays where it is, or an event comes in.
LEMMA FilterFrame ==
  ASSUME TypeOK, [Next]_vars, NEW k \in Keyboards
  PROVE  \/ fpc'[k] = fpc[k] \/ Filter(k)
         \/ /\ fpc[k] = "idle" /\ HandlerRegistered /\ fpc'[k] # "keep"
            /\ fpc'[k] \in {"toggle", "lock"} => "CAPSLOCK" \in keys[k]
<1>1. fpc \in [Keyboards -> {"idle", "toggle", "lock", "keep", "test", "value", "sched"}]
  BY DEF TypeOK, FieldsOK
<1>2. ASSUME NEW j \in Keyboards, FilterEnter(j)
      PROVE  \/ fpc'[k] = fpc[k]
             \/ /\ fpc[k] = "idle" /\ HandlerRegistered /\ fpc'[k] # "keep"
                /\ fpc'[k] \in {"toggle", "lock"} => "CAPSLOCK" \in keys[k]
  <2>1. PICK c \in keys[j], v \in KeyValues :
          \/ FilterModifier(j, c, v)
          \/ c = "CAPSLOCK" /\ FilterCapslock(j, v)
          \/ FilterOther(j, c, v)
    BY <1>2 DEF FilterEnter
  <2>2. fpc[j] = "idle" /\ HandlerRegistered
    BY <1>2 DEF FilterEnter
  <2>3. CASE FilterModifier(j, c, v) \/ FilterOther(j, c, v)
    <3>1. fpc' = fpc \/ fpc' = [fpc EXCEPT ![j] = "test"]
      BY <2>3 DEF FilterModifier, FilterOther, GoOn
    <3>2. QED
      BY <1>1, <2>2, <3>1
  <2>4. CASE c = "CAPSLOCK" /\ FilterCapslock(j, v)
    <3>1. fpc' = [fpc EXCEPT ![j] = "toggle"] \/ fpc' = [fpc EXCEPT ![j] = "lock"]
      BY <2>4 DEF FilterCapslock, GoOn
    <3>2. "CAPSLOCK" \in keys[j]
      BY <2>1, <2>4
    <3>3. QED
      BY <1>1, <2>2, <3>1, <3>2
  <2>5. QED
    BY <2>1, <2>3, <2>4
<1>3. ASSUME NEW j \in Keyboards, Filter(j), j # k
      PROVE  fpc'[k] = fpc[k]
  BY <1>1, <1>3 DEF Filter, FilterToggle, FilterLoadCapslock, FilterKeepSpeed, FilterTest, FilterValue,
                    FilterSchedule, Return
<1>4. ASSUME \/ VmouseInit \/ VmouseExit \/ Work \/ UNCHANGED vars
             \/ \E w \in Writers : WheelSpeedStore(w)
             \/ \E j \in Keyboards : VkbdConnect(j) \/ VkbdDisconnect(j)
      PROVE  fpc' = fpc
  BY <1>4 DEF VmouseInit, VmouseExit, Work, vars, filter, VkbdConnect, VkbdDisconnect, InitVms, InitHandler, InitDevice,
              InitRegister, ExitFile, ExitDevice, ExitHandler, ExitFree, WorkStart, WorkLoadCode, WorkBody, WheelSpeedStore, WriterEnter, WriterLock, WriterStore
<1>5. QED
  BY <1>2, <1>3, <1>4 DEF Next

\* A writer that does not go on stays where it is, or a new one comes in while the
\* file is there.
LEMMA WriterFrame ==
  ASSUME TypeOK, [Next]_vars, NEW w \in Writers
  PROVE  \/ spc'[w] = spc[w] \/ mod = "live"
         \/ <<spc[w], spc'[w]>> \in {<<"lock", "store">>, <<"store", "idle">>}
<1>1. spc \in [Writers -> {"idle", "lock", "store"}]
  BY DEF TypeOK, FieldsOK
<1>2. ASSUME NEW x \in Writers, WheelSpeedStore(x)
      PROVE  \/ spc'[w] = spc[w] \/ mod = "live"
             \/ <<spc[w], spc'[w]>> \in {<<"lock", "store">>, <<"store", "idle">>}
  BY <1>1, <1>2 DEF WheelSpeedStore, WriterEnter, WriterLock, WriterStore
<1>3. ASSUME NEW k \in Keyboards, FilterEnter(k) \/ Filter(k) \/ VkbdConnect(k) \/ VkbdDisconnect(k)
      PROVE  spc' = spc
  BY <1>3 DEF store, FilterEnter, Filter, FilterToggle, FilterLoadCapslock, FilterKeepSpeed, FilterTest, FilterValue,
              FilterSchedule, VkbdConnect, VkbdDisconnect
<1>4. ASSUME VmouseInit \/ VmouseExit \/ Work \/ UNCHANGED vars PROVE spc' = spc
  BY <1>4 DEF store, vars, VmouseInit, VmouseExit, Work, InitVms, InitHandler, InitDevice, InitRegister, ExitFile,
              ExitDevice, ExitHandler, ExitFree, WorkStart, WorkLoadCode, WorkBody
<1>5. QED
  BY <1>2, <1>3, <1>4 DEF Next

\* Only Caps Lock takes a filter to the lock.
AtLockInv == \A k \in Keyboards : fpc[k] \in {"toggle", "lock"} => "CAPSLOCK" \in keys[k]

\* The filter of an interrupt on a task's CPU spins for the lock the interrupted
\* vms_func or wheel_speed_store holds: each took it with interrupts enabled.
SpinsForGood == \E t \in Tasks : lock = t /\ \E k \in LocalKeyboards[t] : fpc[k] = "lock"

\* Otherwise, while a filter or a writer is inside, a filter goes on, or the lock is
\* free, or the task that holds it can go on; and only a keyboard with Caps Lock
\* that interrupts the CPU of a task can be stuck.
SomebodyGoesOn ==
  /\ fault = "none" /\ ((\E k \in Keyboards : fpc[k] # "idle") \/ \E w \in Writers : spc[w] # "idle") =>
       \/ \E k \in Keyboards : fpc[k] \notin {"idle", "lock"}
       \/ lock = "free"
       \/ wpc = "body" /\ Runs("worker")
       \/ \E w \in Writers : spc[w] = "store" /\ Runs(w)
       \/ SpinsForGood
  /\ SpinsForGood => \E t \in Tasks : \E k \in LocalKeyboards[t] : "CAPSLOCK" \in keys[k]

LEMMA LockAlways == Spec => [](TypeOK /\ CapsInv /\ AtLockInv)
<1>1. Init => CapsInv /\ AtLockInv
  BY VmouseAssumption DEF Init, CapsInv, Coming, AtLockInv
<1>2. TypeOK /\ AtLockInv /\ [Next]_vars => AtLockInv'
  <2> SUFFICES ASSUME TypeOK, AtLockInv, [Next]_vars, NEW k \in Keyboards, fpc'[k] \in {"toggle", "lock"}
               PROVE  "CAPSLOCK" \in keys'[k]
    BY DEF AtLockInv
  <2>1. keys' = keys
    BY KeysFixed
  <2>2. Filter(k) => fpc[k] = "toggle"
    BY FilterGoesOn DEF Onward
  <2>3. QED
    BY <2>1, <2>2, FilterFrame DEF AtLockInv
<1>3. QED
  BY <1>1, <1>2, CapsStep, TypeCorrect, PTL DEF Spec

\* While filters or writers run somebody can go on, unless a Caps Lock interrupt
\* has hit the worker or a writer inside its critical section; and that takes such
\* a keyboard on the CPU of that task.
THEOREM OnlyOwnCpuSpins == Spec => []SomebodyGoesOn
<1>1. TypeOK /\ CapsInv /\ AtLockInv => SomebodyGoesOn
  <2> SUFFICES ASSUME TypeOK, CapsInv, AtLockInv PROVE SomebodyGoesOn
    OBVIOUS
  <2>1. /\ \A t \in Tasks : LocalKeyboards[t] \subseteq Keyboards
        /\ lock \in Keyboards \cup Tasks \cup {"free"} /\ Tasks = Writers \cup {"worker"}
    BY VmouseAssumption DEF TypeOK, FieldsOK, Tasks
  <2>2. SpinsForGood => \E t \in Tasks : \E k \in LocalKeyboards[t] : "CAPSLOCK" \in keys[k]
    BY <2>1 DEF SpinsForGood, AtLockInv
  <2>3. ASSUME fault = "none", \A k \in Keyboards : fpc[k] \in {"idle", "lock"}, lock # "free", ~ SpinsForGood
        PROVE  \/ wpc = "body" /\ Runs("worker")
               \/ \E w \in Writers : spc[w] = "store" /\ Runs(w)
    <3>1. lock \in Tasks
      BY <2>1, <2>3 DEF CapsInv
    <3>2. \A k \in LocalKeyboards[lock] : fpc[k] = "idle"
      BY <2>1, <2>3, <3>1 DEF SpinsForGood
    <3>3. Runs(lock)
      BY <2>3, <3>2 DEF Runs
    <3>4. QED
      BY <2>1, <3>1, <3>3 DEF CapsInv
  <2>4. QED
    BY <2>2, <2>3 DEF SomebodyGoesOn
<1>2. QED
  BY <1>1, LockAlways, PTL

\* Once the sysfs file is removed no writer comes in and those inside go on to
\* their end.  When rmmod waits for the filters each of their steps brings them
\* closer to theirs, six at the most, and no event comes in.  But a filter that
\* spins for a lock its own CPU holds does so for good, and rmmod does not free vms,
\* nor unregister the device while it is a writer that holds it.
ExitDrains ==
  /\ mod # "live" => \A w \in Writers : \/ spc'[w] = spc[w]
                                        \/ <<spc[w], spc'[w]>> \in {<<"lock", "store">>, <<"store", "idle">>}
  /\ mod = "closing" => \A k \in Keyboards : IF Filter(k) THEN FilterSteps(fpc'[k]) < FilterSteps(fpc[k])
                                             ELSE fpc'[k] = fpc[k]
  /\ SpinsForGood => SpinsForGood' /\ ~ ExitFree /\ (lock \in Writers => ~ ExitDevice)

\* So the exit waits for at most two steps of each writer and six of each keyboard,
\* if none is stuck.
THEOREM FiltersRunOut == Spec => [][ExitDrains]_vars
<1>1. TypeOK /\ CapsInv /\ [Next]_vars => [ExitDrains]_vars
  <2> SUFFICES ASSUME TypeOK, CapsInv, [Next]_vars PROVE ExitDrains
    OBVIOUS
  <2>1. ASSUME mod = "closing", NEW k \in Keyboards, ~ Filter(k)
        PROVE  fpc'[k] = fpc[k]
    BY <2>1, FilterFrame DEF HandlerRegistered
  <2>2. ASSUME NEW k \in Keyboards, Filter(k)
        PROVE  FilterSteps(fpc'[k]) < FilterSteps(fpc[k])
    <3>1. <<fpc[k], fpc'[k]>> \in Onward
      BY <2>2, FilterGoesOn
    <3>2. QED
      BY <3>1 DEF Onward, FilterSteps
  <2>3. ASSUME mod # "live", NEW w \in Writers
        PROVE  spc'[w] = spc[w] \/ <<spc[w], spc'[w]>> \in {<<"lock", "store">>, <<"store", "idle">>}
    BY <2>3, WriterFrame
  <2>4. ASSUME SpinsForGood PROVE SpinsForGood' /\ ~ ExitFree /\ (lock \in Writers => ~ ExitDevice)
    <3>1. PICK t \in Tasks : lock = t /\ \E k \in LocalKeyboards[t] : fpc[k] = "lock"
      BY <2>4 DEF SpinsForGood
    <3>2. PICK k \in LocalKeyboards[t] : fpc[k] = "lock"
      BY <3>1
    <3>3. /\ k \in Keyboards /\ lock = t /\ lock \notin Keyboards /\ lock # "free" /\ ~ Runs(t)
          /\ Tasks = Writers \cup {"worker"} /\ "worker" \notin Writers
      BY <3>1, <3>2, VmouseAssumption DEF Runs, Tasks
    <3>4. ~ FilterLoadCapslock(k) /\ ~ ExitFree /\ (lock \in Writers => ~ ExitDevice)
      BY <3>2, <3>3 DEF FilterLoadCapslock, ExitFree, ExitDevice, CapsInv
    <3>5. fpc'[k] = fpc[k]
      <4>1. ~ Filter(k)
        BY <3>2, <3>4 DEF Filter, FilterToggle, FilterKeepSpeed, FilterTest, FilterValue, FilterSchedule
      <4>2. QED
        BY <3>2, <3>3, <4>1, FilterFrame
    <3>6. lock' = lock
      <4>1. ASSUME NEW j \in Keyboards, FilterEnter(j) \/ Filter(j) \/ VkbdConnect(j) \/ VkbdDisconnect(j)
            PROVE  lock' = lock
        <5>1. ~ FilterLoadCapslock(j)
          BY <3>3 DEF FilterLoadCapslock
        <5>2. ~ FilterKeepSpeed(j)
          BY <3>3 DEF FilterKeepSpeed, CapsInv
        <5>3. QED
          BY <4>1, <5>1, <5>2 DEF FilterEnter, Filter, FilterToggle, FilterTest, FilterValue, FilterSchedule, VkbdConnect,
                                  VkbdDisconnect
      <4>2. ASSUME VmouseInit \/ VmouseExit \/ UNCHANGED vars PROVE lock' = lock
        BY <4>2 DEF VmouseInit, VmouseExit, vars, InitVms, InitHandler, InitDevice, InitRegister, ExitFile, ExitDevice,
                    ExitHandler, ExitFree
      <4>3. Work => lock' = lock
        BY <3>3 DEF Work, WorkStart, WorkLoadCode, WorkBody, CapsInv
      <4>4. ASSUME NEW w \in Writers, WheelSpeedStore(w) PROVE lock' = lock
        BY <3>3, <4>4 DEF WheelSpeedStore, WriterEnter, WriterLock, WriterStore, CapsInv
      <4>5. QED
        BY <4>1, <4>2, <4>3, <4>4 DEF Next
    <3>7. QED
      BY <3>1, <3>2, <3>4, <3>5, <3>6 DEF SpinsForGood
  <2>5. QED
    BY <2>1, <2>2, <2>3, <2>4 DEF ExitDrains
<1>2. QED
  BY <1>1, LockAlways, PTL DEF Spec
=============================================================================
