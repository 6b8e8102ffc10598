\* rmmod under fair scheduling while a keyboard is in use and wheel_speed written.
CONSTANTS
  kb1 = kb1
  kb2 = kb2
  kb3 = kb3
  Keyboards = {kb1, kb2}
  w1 = w1
  Writers = {w1}
  LocalKeyboards <- MCLocal
  Layouts <- MCExitLayouts
  WheelInputs <- MCWheelInputs
  MOVE_MAX_SPEED = 2
SPECIFICATION FairSpec
INVARIANT TypeOK
PROPERTY ExitCompletes
CHECK_DEADLOCK FALSE
