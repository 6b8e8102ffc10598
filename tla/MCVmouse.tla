------------------------------ MODULE MCVmouse ------------------------------
(* Vmouse on a few devices with a few keys each; which devices there are is *)
(* chosen in the initial state.                                             *)
EXTENDS Vmouse

CONSTANTS kb1, kb2, kb3, w1

Only(codes) == [k \in Keyboards |-> IF k = kb1 THEN codes ELSE {}]

\* Gears and kept speed; a mouse button; the race for Caps Lock.
MCLayouts ==
  {Only({"CTRL", "ALT", "CAPSLOCK", "N"}),
   Only({"CTRL", "ALT", "SPACE", "OTHER"}),
   [k \in Keyboards |-> {"CAPSLOCK"}]}

\* Caps Lock on a device of another CPU, or none on a device of the tasks' own.
MCExitLayouts ==
  {Only({"CTRL", "ALT", "CAPSLOCK"}),
   [k \in Keyboards |-> IF k = kb2 THEN {"CTRL", "ALT"} ELSE {}]}

MCWheelInputs == {8}

\* No keyboard interrupts a task; or kb2 interrupts all of them.
MCNoneLocal == [t \in Tasks |-> {}]
MCLocal == [t \in Tasks |-> {kb2}]
=============================================================================
