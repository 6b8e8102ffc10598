----------------------------- MODULE ChrDrivers -----------------------------
(***************************************************************************)
(* Loading and unloading the character drivers mychar/mychar.c,            *)
(* ioctl/ioctl.c and dram/dram.c side by side: the major number, the       *)
(* class and the devices each takes, step by step, every step that may     *)
(* fail, and what the error paths and the exits give back.  The three      *)
(* share one numbering of devices, and ioctl and dram one major number.    *)
(*                                                                         *)
(* Operators named Slip... are wrong variants of the operator they         *)
(* precede.  No action uses them; they document which mistake each         *)
(* property below is able to notice.                                       *)
(***************************************************************************)
EXTENDS Integers

Drivers == {"mychar", "ioctl", "dram"}

\* mychar asks for any free major number, which no other driver has.
Major(d) == IF d = "mychar" THEN "dynamic" ELSE "123"
Majors == {"dynamic", "123"}

\* The minors the loop of init visits; mychar makes its only device without one.
MaxMinor == 4
Minors(d) == IF d = "mychar" THEN {0} ELSE {1, 4}

VARIABLES
  pc,       \* how far insmod or rmmod of each driver has got
  region,   \* the owner of each major number, or "none"
  classes,  \* the drivers whose class exists
  devices,  \* the devices: major, minor and the driver that created them
  made,     \* the minors each driver's loop has got past
  misc_mtx, \* dram's mutex: "free" or "held"
  late,     \* history: drivers that failed after creating a device
  fault     \* history: releases of something not held

vars == <<pc, region, classes, devices, made, misc_mtx, late, fault>>

Init ==
  /\ pc = [d \in Drivers |-> "out"]
  /\ region = [m \in Majors |-> "none"]
  /\ classes = {} /\ devices = {}
  /\ made = [d \in Drivers |-> {}]
  /\ misc_mtx = "free"
  /\ late = {} /\ fault = {}

Goto(d, from, to) == pc[d] = from /\ pc' = [pc EXCEPT ![d] = to]
Dev(d, n) == [major |-> Major(d), minor |-> n, owner |-> d]
DevicesOf(d) == {x \in devices : x.owner = d}

-----------------------------------------------------------------------------
(* mychar_init of each driver.                                             *)

SlipRegisterTaken(d) ==
  /\ Goto(d, "out", "region")
  /\ region' = [region EXCEPT ![Major(d)] = d]
  /\ UNCHANGED <<classes, devices, made, misc_mtx, late, fault>>

\* register_chrdev refuses a major number somebody holds, and insmod fails.
Register(d) ==
  /\ Goto(d, "out", "region")
  /\ region[Major(d)] = "none"
  /\ region' = [region EXCEPT ![Major(d)] = d]
  /\ UNCHANGED <<classes, devices, made, misc_mtx, late, fault>>

\* dram enters its loop with the mutex, once.
ClassCreate(d) ==
  /\ Goto(d, "region", "class")
  /\ classes' = classes \cup {d}
  /\ IF d = "dram" THEN misc_mtx = "free" /\ misc_mtx' = "held" ELSE UNCHANGED misc_mtx
  /\ UNCHANGED <<region, devices, made, late, fault>>

SlipClassFails(d) ==
  /\ Goto(d, "region", "out")
  /\ UNCHANGED <<region, classes, devices, made, misc_mtx, late, fault>>

ClassFails(d) ==
  /\ Goto(d, "region", "out")
  /\ region' = [region EXCEPT ![Major(d)] = "none"]
  /\ UNCHANGED <<classes, devices, made, misc_mtx, late, fault>>

\* dram gives the mutex back after each device, held or not.
Unlock(d) ==
  /\ misc_mtx' = IF d = "dram" THEN "free" ELSE misc_mtx
  /\ fault' = IF d = "dram" /\ misc_mtx = "free" THEN fault \cup {"unlock"} ELSE fault

\* The loop goes on with the next minor; a number that exists is refused.
NextMinor(d) == CHOOSE n \in Minors(d) \ made[d] : \A m \in Minors(d) \ made[d] : n <= m

DeviceCreate(d) ==
  /\ LET n == NextMinor(d)
     IN  /\ Goto(d, "class", IF made[d] \cup {n} = Minors(d) THEN "live" ELSE "class")
         /\ ~\E x \in devices : x.major = Major(d) /\ x.minor = n
         /\ devices' = devices \cup {Dev(d, n)}
         /\ made' = [made EXCEPT ![d] = @ \cup {n}]
  /\ Unlock(d)
  /\ UNCHANGED <<region, classes, late>>

\* The error path destroys the class and forgets the devices made so far.
DeviceFails(d) ==
  /\ Goto(d, "class", "out")
  /\ classes' = classes \ {d}
  /\ region' = [region EXCEPT ![Major(d)] = "none"]
  /\ late' = IF made[d] # {} THEN late \cup {d} ELSE late
  /\ made' = [made EXCEPT ![d] = {}]
  /\ Unlock(d)
  /\ UNCHANGED <<devices>>

-----------------------------------------------------------------------------
(* mychar_exit of each driver.                                             *)

\* device_destroy of each number in the class; dram holds its mutex meanwhile.
DevicesDestroy(d) ==
  /\ Goto(d, "live", IF d = "mychar" THEN "unclass" ELSE "nodevs")
  /\ devices' = {x \in devices : ~(x.owner = d /\ x.minor \in Minors(d))}
  /\ made' = [made EXCEPT ![d] = {}]
  /\ d = "dram" => misc_mtx = "free"
  /\ UNCHANGED <<region, classes, misc_mtx, late, fault>>

\* class_unregister, which only mychar calls.
ClassUnregister(d) ==
  /\ Goto(d, "unclass", "nodevs")
  /\ classes' = classes \ {d}
  /\ UNCHANGED <<region, devices, made, misc_mtx, late, fault>>

ClassDestroy(d) ==
  /\ Goto(d, "nodevs", "noclass")
  /\ classes' = classes \ {d}
  /\ fault' = IF d \in classes THEN fault ELSE fault \cup {"class"}
  /\ UNCHANGED <<region, devices, made, misc_mtx, late>>

Unregister(d) ==
  /\ Goto(d, "noclass", "out")
  /\ region' = [region EXCEPT ![Major(d)] = "none"]
  /\ UNCHANGED <<classes, devices, made, misc_mtx, late, fault>>

Insmod(d) == Register(d) \/ ClassCreate(d) \/ ClassFails(d) \/ DeviceCreate(d) \/ DeviceFails(d)
Rmmod(d) == DevicesDestroy(d) \/ ClassUnregister(d) \/ ClassDestroy(d) \/ Unregister(d)

Next == \E d \in Drivers : Insmod(d) \/ Rmmod(d)

Spec == Init /\ [][Next]_vars

-----------------------------------------------------------------------------
(* Properties.                                                             *)

TypeOK ==
  /\ pc \in [Drivers -> {"out", "region", "class", "live", "unclass", "nodevs", "noclass"}]
  /\ region \in [Majors -> Drivers \cup {"none"}]
  /\ classes \subseteq Drivers
  /\ devices \subseteq [major : Majors, minor : 0 .. MaxMinor, owner : Drivers]
  /\ made \in [Drivers -> SUBSET (0 .. MaxMinor)]
  /\ misc_mtx \in {"free", "held"}
  /\ late \subseteq Drivers
  /\ fault \subseteq {"unlock", "class"}

\* A driver that is loaded, loading or unloading owns its major number; so ioctl
\* and dram never run together, and neither exit takes the other's number away.
OwnsItsMajor == \A d \in Drivers : pc[d] # "out" => region[Major(d)] = d

\* A loaded driver has its class and every one of its devices; one that is not
\* loaded holds nothing, unless making its second device failed at some time.
AllOrNothing ==
  \A d \in Drivers :
    /\ pc[d] = "live" => d \in classes /\ {x.minor : x \in DevicesOf(d)} = Minors(d)
    /\ pc[d] = "out" => /\ d \notin classes /\ region[Major(d)] # d
                        /\ d \notin late => DevicesOf(d) = {}

\* "Clean up if there is an error": a failed insmod leaves no device.
CleansUpOnError == \A d \in Drivers : pc[d] = "out" => DevicesOf(d) = {}

\* "remove the device class": what class_destroy removes is there.
ClassRemovedOnce == "class" \notin fault
=============================================================================
