\* Gears, kept speed, a mouse button and the race for Caps Lock.
CONSTANTS
  kb1 = kb1
  kb2 = kb2
  kb3 = kb3
  Keyboards = {kb1, kb2, kb3}
  w1 = w1
  Writers = {}
  LocalKeyboards <- MCNoneLocal
  Layouts <- MCLayouts
  WheelInputs = {}
  MOVE_MAX_SPEED = 4
SPECIFICATION Spec
INVARIANTS GearInSync KeepSpeedFollowsCapslock LastEventApplied ButtonsFollowKeys SafeIfUndisturbed
PROPERTY SpeedKept
CHECK_DEADLOCK FALSE
