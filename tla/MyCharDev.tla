------------------------------ MODULE MyCharDev ------------------------------
(* mychardev.c: two cdevs and their device nodes, loaded, used and unloaded  *)
(* again and again.  The text that a read gives is left out, and what write  *)
(* takes, which it only prints.  Nodes are those device_create makes.        *)
EXTENDS Naturals

CONSTANTS
  Users,     \* processes that open the devices
  Majors,    \* the major numbers the kernel has left to give away
  MaxLoads   \* bound: how often the module is loaded

\* What is assumed of them.
MyCharDevAssumption == Majors \subseteq Nat /\ MaxLoads \in Nat

VARIABLES
  chd_pc,     \* the next step of insmod or rmmod, "live", "out", or "oops"
  chd_i,      \* i of the loops
  dev_major,
  regions,    \* the major numbers the kernel takes for ours
  cdevs,      \* device numbers with a cdev of the module that is in
  dangling,   \* device numbers with a cdev in memory of an unloaded module
  nodes,      \* device numbers with a node in /dev
  loads,      \* how often it was loaded
  user,       \* per process: "none", "lookup", "open", "past" the text, "lost"
  number      \* the device number it has looked up

vars == <<chd_pc, chd_i, dev_major, regions, cdevs, dangling, nodes, loads, user, number>>
chd == <<chd_i, dev_major, regions, cdevs, dangling, nodes, loads>>

MAX_DEV == 2
MINORMASK == 1048575

\* What dev holds when nothing was stored in it: an old number of ours, or any other.
Garbage == Majors \cup {0}
Numbers == Garbage \X (0 .. MAX_DEV - 1)
NoNumber == <<0, 0>>
Dev(i) == <<dev_major, i>>

Init ==
  /\ chd_pc = "out" /\ chd_i = 0 /\ dev_major = 0 /\ regions = {}
  /\ cdevs = {} /\ dangling = {} /\ nodes = {} /\ loads = 0
  /\ user = [p \in Users |-> "none"] /\ number = [p \in Users |-> NoNumber]

Goto(from, to) == chd_pc = from /\ chd_pc' = to /\ UNCHANGED <<user, number>>

\* alloc_chrdev_region, whose error nobody looks at.
AllocRegion ==
  /\ loads < MaxLoads /\ loads' = loads + 1
  /\ Goto("out", "class")
  /\ \/ \E m \in Majors \ regions : dev_major' = m /\ regions' = regions \cup {m}
     \/ dev_major' \in Garbage /\ UNCHANGED regions
  /\ chd_i' = 0 /\ UNCHANGED <<cdevs, dangling, nodes>>

\* class_create: an error pointer is written through by the next line.
ClassCreate == (Goto("class", "add") \/ Goto("class", "oops")) /\ UNCHANGED chd

\* A cdev that was added later is found first.  Both calls of the loop may fail unnoticed.
CdevAdd ==
  /\ Goto("add", "create")
  /\ cdevs' \in {cdevs, cdevs \cup {Dev(chd_i)}}
  /\ UNCHANGED <<chd_i, dev_major, regions, dangling, nodes, loads>>

DeviceCreate ==
  /\ Goto("create", IF chd_i + 1 = MAX_DEV THEN "live" ELSE "add")
  /\ nodes' \in {nodes, nodes \cup {Dev(chd_i)}}
  /\ chd_i' = chd_i + 1
  /\ UNCHANGED <<dev_major, regions, cdevs, dangling, loads>>

\* rmmod is refused while a file is open: the cdevs and the operations name
\* their owner.  From then on nobody gets a reference any more.
Referenced == \E p \in Users : user[p] \in {"open", "past"}
Rmmod ==
  /\ ~ Referenced /\ Goto("live", "destroy")
  /\ chd_i' = 0 /\ UNCHANGED <<dev_major, regions, cdevs, dangling, nodes, loads>>

DeviceDestroy ==
  /\ Goto("destroy", IF chd_i + 1 = MAX_DEV THEN "forget" ELSE "destroy")
  /\ nodes' = nodes \ {Dev(chd_i)} /\ chd_i' = chd_i + 1
  /\ UNCHANGED <<dev_major, regions, cdevs, dangling, loads>>

\* The class goes, and a region is given back by its exact size: this one has
\* MAX_DEV numbers, not MINORMASK, and stays taken.  The cdevs stay too, and
\* then the module's memory goes.
UnregisterRegion ==
  /\ Goto("forget", "out")
  /\ regions' = IF MINORMASK = MAX_DEV THEN regions \ {dev_major} ELSE regions
  /\ dangling' = dangling \cup cdevs /\ cdevs' = {}
  /\ UNCHANGED <<chd_i, dev_major, nodes, loads>>

Loading == AllocRegion \/ ClassCreate \/ CdevAdd \/ DeviceCreate
Unloading == Rmmod \/ DeviceDestroy \/ UnregisterRegion

\* ---- the files ----

Turns(p, from, to) == user[p] = from /\ user' = [user EXCEPT ![p] = to] /\ UNCHANGED <<chd_pc, chd>>

\* A path leads to a node, or to nothing.
Lookup(p) ==
  /\ Turns(p, "none", "lookup")
  /\ \E n \in nodes : number' = [number EXCEPT ![p] = n]

\* chrdev_open takes the cdev's module by its owner, unless it is going.  A cdev
\* in freed memory names no owner; what the open does then is not followed.
Going == chd_pc \in {"destroy", "forget", "out"}
ChrdevOpen(p) ==
  /\ Turns(p, "lookup", IF number[p] \in cdevs THEN IF Going THEN "none" ELSE "open"
                        ELSE IF number[p] \in dangling THEN "lost" ELSE "none")
  /\ number' = [number EXCEPT ![p] = NoNumber]

\* The first read moves the offset and those after it get nothing.
Read(p) == Turns(p, "open", "past") /\ UNCHANGED number

Release(p) ==
  /\ Turns(p, "open", "none") \/ Turns(p, "past", "none")
  /\ UNCHANGED number

Next == Loading \/ Unloading \/ \E p \in Users : Lookup(p) \/ ChrdevOpen(p) \/ Read(p) \/ Release(p)

Spec == Init /\ [][Next]_vars

---------------------------------------------------------------------------
TypeOK ==
  /\ chd_pc \in {"out", "class", "add", "create", "live", "destroy", "forget", "oops"}
  /\ chd_i \in 0 .. MAX_DEV /\ loads \in 0 .. MaxLoads /\ dev_major \in Garbage /\ regions \subseteq Majors
  /\ cdevs \subseteq Numbers /\ dangling \subseteq Numbers /\ nodes \subseteq Numbers
  /\ user \in [Users -> {"none", "lookup", "open", "past", "lost"}] /\ number \in [Users -> Numbers]

\* A file is open only while the module is in, and once it is out there is no
\* node that leads to the cdevs it leaves behind (mychardev.c:21, 67-79): whatever
\* loads failed in part, only an open that was under way can reach them.
FilesHaveModule ==
  /\ Going => ~ Referenced
  /\ chd_pc = "out" => nodes = {}
=============================================================================
