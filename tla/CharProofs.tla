----------------------------- MODULE CharProofs -----------------------------
(* The character drivers coming and going, and the memory device, for any  *)
(* number of threads, any page size and any counts and offsets.            *)
EXTENDS MCCharDevices, MsgProofs

-----------------------------------------------------------------------------
(* The drivers.                                                            *)

\* What the steps of insmod and rmmod have taken or given back so far.
RegionInv ==
  /\ region \in [Chr!Majors -> Chr!Drivers \cup {"none"}]
  /\ \A d \in Chr!Drivers : chr_pc[d] # "out" <=> region[Chr!Major(d)] = d
ClassInv ==
  \A d \in Chr!Drivers :
    /\ chr_pc[d] \in {"class", "live"} => d \in classes
    /\ chr_pc[d] \in {"out", "region", "noclass"} => d \notin classes
Owned == \A x \in devices : x.owner \in Chr!Drivers /\ x.minor \in Chr!Minors(x.owner)
Exists(d, num) == \E x \in devices : x.owner = d /\ x.minor = num
MadeInv ==
  \A d \in Chr!Drivers :
    /\ made[d] \subseteq Chr!Minors(d)
    /\ \A num \in made[d] : Exists(d, num)
    /\ d \in late \/ \A x \in devices : x.owner = d => x.minor \in made[d]
    /\ chr_pc[d] = "live" => made[d] = Chr!Minors(d)
    /\ chr_pc[d] = "class" => made[d] # Chr!Minors(d)
    /\ chr_pc[d] \notin {"class", "live"} => made[d] = {}
DriversInv ==
  /\ chr_pc \in [Chr!Drivers -> {"out", "region", "class", "live", "unclass", "nodevs", "noclass"}]
  /\ made \in [Chr!Drivers -> SUBSET (0 .. Chr!MaxMinor)]
  /\ RegionInv /\ ClassInv /\ Owned /\ MadeInv

LEMMA DriversInit == Chr!Init => DriversInv
BY DEF Chr!Init, DriversInv, RegionInv, ClassInv, Owned, MadeInv, Exists, Chr!Drivers, Chr!Major, Chr!Majors

\* The loop has a minor to go on with while it is not through.
LEMMA NextMinorIsOpen ==
  ASSUME NEW d \in Chr!Drivers, made[d] \subseteq Chr!Minors(d), made[d] # Chr!Minors(d)
  PROVE  Chr!NextMinor(d) \in Chr!Minors(d) \ made[d]
<1>1. \E num \in Chr!Minors(d) \ made[d] : \A m \in Chr!Minors(d) \ made[d] : num <= m
  <2>1. PICK num : num \in Chr!Minors(d) \ made[d]
    OBVIOUS
  <2>2. Chr!Minors(d) = {0} \/ Chr!Minors(d) = {1, 4}
    BY DEF Chr!Minors
  <2>3. QED
    BY <2>1, <2>2, SMTT(30)
<1>2. QED
  BY <1>1 DEF Chr!NextMinor

LEMMA DriversStep ==
  ASSUME DriversInv, Chr!Next
  PROVE  DriversInv'
<1> USE DEF DriversInv
<1>1. PICK d \in Chr!Drivers : Chr!Insmod(d) \/ Chr!Rmmod(d)
  BY DEF Chr!Next
<1>2. Chr!Major(d) \in Chr!Majors /\ Chr!Minors(d) \subseteq 0 .. Chr!MaxMinor /\ Chr!Minors(d) # {}
      /\ \A e \in Chr!Drivers : Chr!Major(e) \in Chr!Majors
  BY DEF Chr!Major, Chr!Majors, Chr!Minors, Chr!MaxMinor
<1> USE <1>2 DEF Chr!Goto
<1>3. CASE Chr!Register(d)
  <2>1. RegionInv'
    BY <1>3 DEF Chr!Register, RegionInv, Chr!Drivers
  <2>2. ClassInv'
    BY <1>3 DEF Chr!Register, ClassInv
  <2>3. Owned' /\ MadeInv'
    BY <1>3 DEF Chr!Register, Owned, MadeInv, Exists
  <2>4. QED
    BY <2>1, <2>2, <2>3, <1>3 DEF Chr!Register
<1>4. CASE Chr!ClassCreate(d)
  <2>1. RegionInv' /\ ClassInv'
    BY <1>4 DEF Chr!ClassCreate, RegionInv, ClassInv
  <2>2. Owned' /\ MadeInv'
    BY <1>4 DEF Chr!ClassCreate, Owned, MadeInv, Exists
  <2>3. QED
    BY <2>1, <2>2, <1>4 DEF Chr!ClassCreate
<1>5. CASE Chr!ClassFails(d)
  <2>1. RegionInv'
    BY <1>5 DEF Chr!ClassFails, RegionInv, Chr!Drivers
  <2>2. ClassInv'
    BY <1>5 DEF Chr!ClassFails, ClassInv
  <2>3. Owned' /\ MadeInv'
    BY <1>5 DEF Chr!ClassFails, Owned, MadeInv, Exists
  <2>4. QED
    BY <2>1, <2>2, <2>3, <1>5 DEF Chr!ClassFails
<1>6. CASE Chr!DeviceCreate(d)
  <2>1. made[d] \subseteq Chr!Minors(d) /\ made[d] # Chr!Minors(d)
    BY <1>6 DEF Chr!DeviceCreate, MadeInv
  <2>2. PICK num : num = Chr!NextMinor(d)
    OBVIOUS
  <2>3. num \in Chr!Minors(d) \ made[d]
    BY <2>1, <2>2, NextMinorIsOpen
  <2>4. /\ chr_pc[d] = "class"
        /\ chr_pc' = [chr_pc EXCEPT ![d] = IF made[d] \cup {num} = Chr!Minors(d) THEN "live" ELSE "class"]
        /\ devices' = devices \cup {Chr!Dev(d, num)}
        /\ made' = [made EXCEPT ![d] = @ \cup {num}]
        /\ UNCHANGED <<region, classes, late>>
    BY <1>6, <2>2 DEF Chr!DeviceCreate
  <2>5. RegionInv' /\ ClassInv'
    BY <2>4 DEF RegionInv, ClassInv
  <2>6. Chr!Dev(d, num).owner = d /\ Chr!Dev(d, num).minor = num
    BY DEF Chr!Dev
  <2>7. Owned'
    BY <2>3, <2>4, <2>6 DEF Owned
  <2>8. ASSUME NEW e \in Chr!Drivers, e # d
        PROVE  made'[e] = made[e] /\ chr_pc'[e] = chr_pc[e] /\ \A y \in devices' : y.owner = e => y \in devices
    BY <2>4, <2>6, <2>8
  <2>9. /\ made'[d] = made[d] \cup {num} /\ Chr!Dev(d, num) \in devices' /\ devices \subseteq devices'
        /\ chr_pc'[d] = IF made'[d] = Chr!Minors(d) THEN "live" ELSE "class"
    BY <2>4, <2>6
  <2>10. MadeInv'
    <3>1. ASSUME NEW e \in Chr!Drivers
          PROVE  made'[e] \subseteq Chr!Minors(e) /\ \A k \in made'[e] : Exists(e, k)'
      BY <2>3, <2>6, <2>8, <2>9 DEF MadeInv, Exists
    <3>2. ASSUME NEW e \in Chr!Drivers
          PROVE  e \in late' \/ \A y \in devices' : y.owner = e => y.minor \in made'[e]
      <4>1. CASE e = d
        BY <2>4, <2>6, <2>9, <4>1 DEF MadeInv
      <4>2. CASE e # d
        BY <2>4, <2>8, <4>2 DEF MadeInv
      <4>3. QED
        BY <4>1, <4>2
    <3>3. ASSUME NEW e \in Chr!Drivers
          PROVE  /\ chr_pc'[e] = "live" => made'[e] = Chr!Minors(e)
                 /\ chr_pc'[e] = "class" => made'[e] # Chr!Minors(e)
                 /\ chr_pc'[e] \notin {"class", "live"} => made'[e] = {}
      <4>1. CASE e = d
        BY <2>3, <2>9, <4>1
      <4>2. CASE e # d
        BY <2>8, <4>2 DEF MadeInv
      <4>3. QED
        BY <4>1, <4>2
    <3>4. QED
      BY <3>1, <3>2, <3>3, Zenon DEF MadeInv
  <2>11. QED
    BY <2>3, <2>4, <2>5, <2>7, <2>10
<1>7. CASE Chr!DeviceFails(d)
  <2>1. RegionInv'
    BY <1>7 DEF Chr!DeviceFails, RegionInv, Chr!Drivers
  <2>2. ClassInv'
    BY <1>7 DEF Chr!DeviceFails, ClassInv
  <2>3. Owned' /\ MadeInv'
    BY <1>7 DEF Chr!DeviceFails, Owned, MadeInv, Exists
  <2>4. QED
    BY <2>1, <2>2, <2>3, <1>7 DEF Chr!DeviceFails
<1>8. CASE Chr!DevicesDestroy(d)
  <2>1. RegionInv' /\ ClassInv'
    BY <1>8 DEF Chr!DevicesDestroy, RegionInv, ClassInv
  <2>2. Owned' /\ MadeInv'
    BY <1>8 DEF Chr!DevicesDestroy, Owned, MadeInv, Exists
  <2>3. QED
    BY <2>1, <2>2, <1>8 DEF Chr!DevicesDestroy
<1>9. CASE Chr!ClassUnregister(d) \/ Chr!ClassDestroy(d)
  <2>1. RegionInv' /\ ClassInv'
    BY <1>9 DEF Chr!ClassUnregister, Chr!ClassDestroy, RegionInv, ClassInv
  <2>2. Owned' /\ MadeInv'
    BY <1>9 DEF Chr!ClassUnregister, Chr!ClassDestroy, Owned, MadeInv, Exists
  <2>3. QED
    BY <2>1, <2>2, <1>9 DEF Chr!ClassUnregister, Chr!ClassDestroy
<1>10. CASE Chr!Unregister(d)
  <2>1. RegionInv'
    BY <1>10 DEF Chr!Unregister, RegionInv, Chr!Drivers
  <2>2. ClassInv'
    BY <1>10 DEF Chr!Unregister, ClassInv
  <2>3. Owned' /\ MadeInv'
    BY <1>10 DEF Chr!Unregister, Owned, MadeInv, Exists
  <2>4. QED
    BY <2>1, <2>2, <2>3, <1>10 DEF Chr!Unregister
<1>11. QED
  BY <1>1, <1>3, <1>4, <1>5, <1>6, <1>7, <1>8, <1>9, <1>10, Zenon DEF Chr!Insmod, Chr!Rmmod

\* The types of the rest: the devices, and the histories.
LEMMA DriversTypes ==
  ASSUME DriversInv, Chr!TypeOK, Chr!Next
  PROVE  Chr!TypeOK'
<1>1. DriversInv'
  BY DriversStep
<1>2. PICK d \in Chr!Drivers : Chr!Insmod(d) \/ Chr!Rmmod(d)
  BY DEF Chr!Next
<1>3. classes' \subseteq Chr!Drivers /\ late' \subseteq Chr!Drivers
  BY <1>2 DEF Chr!TypeOK, Chr!Insmod, Chr!Rmmod, Chr!Register, Chr!ClassCreate, Chr!ClassFails, Chr!DeviceCreate,
              Chr!DeviceFails, Chr!DevicesDestroy, Chr!ClassUnregister, Chr!ClassDestroy, Chr!Unregister
<1>4. misc_mtx' \in {"free", "held"}
  BY <1>2 DEF Chr!TypeOK, Chr!Insmod, Chr!Rmmod, Chr!Register, Chr!ClassCreate, Chr!ClassFails, Chr!DeviceCreate,
              Chr!DeviceFails, Chr!DevicesDestroy, Chr!ClassUnregister, Chr!ClassDestroy, Chr!Unregister, Chr!Unlock
<1>5. fault' \subseteq {"unlock", "class"}
  <2>1. fault' \subseteq fault \cup {"unlock", "class"}
    BY <1>2, Zenon DEF Chr!Insmod, Chr!Rmmod, Chr!Register, Chr!ClassCreate, Chr!ClassFails, Chr!DeviceCreate,
              Chr!DeviceFails, Chr!DevicesDestroy, Chr!ClassUnregister, Chr!ClassDestroy, Chr!Unregister, Chr!Unlock
  <2>2. QED
    BY <2>1 DEF Chr!TypeOK
<1>6. devices' \subseteq [major : Chr!Majors, minor : 0 .. Chr!MaxMinor, owner : Chr!Drivers]
  <2>1. CASE Chr!DeviceCreate(d)
    <3>1. made[d] \subseteq Chr!Minors(d) /\ made[d] # Chr!Minors(d)
      BY <2>1 DEF Chr!DeviceCreate, Chr!Goto, DriversInv, MadeInv
    <3>2. Chr!NextMinor(d) \in Chr!Minors(d)
      BY <3>1, NextMinorIsOpen
    <3>3. Chr!Minors(d) \subseteq 0 .. Chr!MaxMinor /\ Chr!Major(d) \in Chr!Majors
      BY DEF Chr!Minors, Chr!MaxMinor, Chr!Major, Chr!Majors
    <3>4. Chr!Dev(d, Chr!NextMinor(d)) \in [major : Chr!Majors, minor : 0 .. Chr!MaxMinor, owner : Chr!Drivers]
      BY <3>2, <3>3 DEF Chr!Dev
    <3>5. devices' = devices \cup {Chr!Dev(d, Chr!NextMinor(d))}
      BY <2>1 DEF Chr!DeviceCreate
    <3>6. QED
      BY <3>4, <3>5 DEF Chr!TypeOK
  <2>2. CASE ~ Chr!DeviceCreate(d)
    <3>1. devices' \subseteq devices
      BY <1>2, <2>2 DEF Chr!Insmod, Chr!Rmmod, Chr!Register, Chr!ClassCreate, Chr!ClassFails, Chr!DeviceFails,
                        Chr!DevicesDestroy, Chr!ClassUnregister, Chr!ClassDestroy, Chr!Unregister
    <3>2. QED
      BY <3>1 DEF Chr!TypeOK
  <2>3. QED
    BY <2>1, <2>2
<1>7. QED
  BY <1>1, <1>3, <1>4, <1>5, <1>6 DEF Chr!TypeOK, DriversInv, RegionInv

LEMMA DriversRest ==
  ASSUME DriversInv, UNCHANGED chrVars
  PROVE  DriversInv'
BY DEF DriversInv, RegionInv, ClassInv, Owned, MadeInv, Exists, chrVars

THEOREM DriversCorrect == MCSpec => []DriversInv
<1>1. MCInit => DriversInv
  BY DriversInit DEF MCInit
<1>2. DriversInv /\ [OnDrivers \/ OnMessage \/ OnMemory]_<<subject, chrVars, vars, dramVars>> => DriversInv'
  BY DriversStep, DriversRest, Zenon DEF OnDrivers, OnMessage, OnMemory
<1>3. QED
  BY <1>1, <1>2, PTL DEF MCSpec

\* Whatever fails and in whatever order the drivers come and go, each owns its
\* major number as long as it is not out.
THEOREM MajorIsOwned == MCSpec => []OwnsItsMajor
<1>1. DriversInv => OwnsItsMajor
  BY DEF DriversInv, RegionInv, OwnsItsMajor, Chr!OwnsItsMajor
<1>2. QED
  BY <1>1, DriversCorrect, PTL

\* A live driver is complete, and one that is out has left nothing.
THEOREM AllOrNothingHolds == MCSpec => []AllOrNothing
<1>1. DriversInv => AllOrNothing
  BY DEF DriversInv, RegionInv, ClassInv, Owned, MadeInv, Exists, AllOrNothing, Chr!AllOrNothing, Chr!DevicesOf
<1>2. QED
  BY <1>1, DriversCorrect, PTL

-----------------------------------------------------------------------------
(* The memory device.                                                      *)

LEMMA DivFacts ==
  ASSUME NEW P \in Nat \ {0}, NEW x \in Nat
  PROVE  /\ x \div P \in Nat /\ x % P \in 0 .. P - 1
         /\ x = P * (x \div P) + (x % P)
OBVIOUS

LEMMA DivUnique ==
  ASSUME NEW P \in Nat \ {0}, NEW q \in Nat, NEW x \in Nat, P * q <= x, x < P * q + P
  PROVE  x \div P = q
BY SMTT(30)

\* A page that begins below the end of a whole number of pages ends there too.
LEMMA WholePages ==
  ASSUME NEW P \in Nat \ {0}, NEW q \in Nat, NEW k \in Nat, P * q < k * P
  PROVE  P * q + P <= k * P
<1>1. q < k
  BY SMTT(30)
<1>2. P * (k - q) >= P
  BY <1>1, SMTT(30)
<1>3. QED
  BY <1>2, SMTT(30)

InOnePage(p, c) ==
  /\ p + c <= Dram!dram_size
  /\ c > 0 => p \div PAGE_SIZE = (p + c - 1) \div PAGE_SIZE
  /\ c = 0 <=> p = Dram!dram_size

LEMMA DramSize == Dram!dram_size \in Nat
BY CharDevicesAssumption DEF Dram!DramFileAssumption, Dram!dram_size

\* What is copied of a read that starts anywhere in the memory or at its end.
LEMMA CopiedInOnePage ==
  ASSUME NEW p \in 0 .. Dram!dram_size, NEW c \in Nat \ {0}
  PROVE  Dram!Copied(p, c) \in Nat /\ InOnePage(p, Dram!Copied(p, c))
<1> DEFINE P == PAGE_SIZE
           q == p \div P
           m == p % P
           r == Dram!Copied(p, c)
<1>1. P \in Nat \ {0} /\ Pages \in Nat \ {0}
  BY CharDevicesAssumption DEF Dram!DramFileAssumption
<1>2. Dram!dram_size = Pages * P /\ Dram!dram_size \in Nat /\ p \in Nat
  BY DramSize DEF Dram!dram_size
<1>3. q \in Nat /\ m \in 0 .. P - 1 /\ p = P * q + m /\ P * q \in Nat
  <2>1. p \div P \in Nat /\ p % P \in 0 .. P - 1 /\ p = P * (p \div P) + (p % P)
    BY <1>1, <1>2, DivFacts
  <2> HIDE DEF P
  <2>2. QED
    BY <1>1, <2>1
<1>4. CASE p = Dram!dram_size
  BY <1>2, <1>4 DEF Dram!Copied, InOnePage
<1>5. CASE p < Dram!dram_size
  <2>1. P * q + P <= Dram!dram_size
    <3>1. P * q < Pages * P
      BY <1>1, <1>2, <1>3, <1>5
    <3>2. QED
      BY <3>1, <1>1, <1>2, <1>3, WholePages
  <2>2. r \in Nat \ {0} /\ m + r <= P
    BY <1>1, <1>2, <1>3, <1>5 DEF Dram!Copied
  <2> HIDE DEF q, m, r
  <2>3. P * q <= p + r - 1 /\ p + r - 1 < P * q + P /\ p + r - 1 \in Nat /\ p + r <= Dram!dram_size
    BY <1>1, <1>2, <1>3, <2>1, <2>2
  <2>4. (p + r - 1) \div P = q
    BY <1>1, <1>3, <2>3, DivUnique
  <2>5. QED
    BY <1>2, <1>5, <2>2, <2>3, <2>4 DEF InOnePage, q, r
<1>6. QED
  BY <1>2, <1>4, <1>5

MemoryTypes ==
  /\ f_pos \in 0 .. Dram!dram_size
  /\ file_pc \in [Clients -> {"idle", "read", "copied"}]
  /\ pos \in [Clients -> 0 .. Dram!dram_size] /\ count \in [Clients -> Nat]
  /\ total \in Int
\* One call at a time as long as the history counts, and it has the file's position.
Lonely ==
  total # -1 =>
    /\ total = f_pos
    /\ \A t \in Clients : file_pc[t] # "idle" =>
         pos[t] = f_pos /\ \A u \in Clients \ {t} : file_pc[u] = "idle"
MemoryInv ==
  /\ MemoryTypes /\ Lonely
  /\ \A t \in Clients : file_pc[t] = "read" => count[t] > 0
  /\ \A t \in Clients : file_pc[t] = "copied" => InOnePage(pos[t], count[t])

LEMMA MemoryInit == Dram!Init => MemoryInv
BY DramSize DEF Dram!Init, MemoryInv, MemoryTypes, Lonely

LEMMA MemoryStep ==
  ASSUME MemoryInv, Dram!Next
  PROVE  MemoryInv'
<1> USE DramSize DEF MemoryInv, MemoryTypes, Dram!Set
<1>1. PICK t \in Clients : Dram!DevRead(t) \/ Dram!Lseek(t)
  BY DEF Dram!Next
<1>2. CASE Dram!ReadBegin(t)
  <2>1. Counts \subseteq Nat \ {0}
    BY CharDevicesAssumption DEF Dram!DramFileAssumption
  <2>2. Lonely'
    BY <1>2 DEF Dram!ReadBegin, Lonely
  <2>3. QED
    BY <1>2, <2>1, <2>2 DEF Dram!ReadBegin
<1>3. CASE Dram!ReadCopies(t)
  <2>1. Dram!Copied(pos[t], count[t]) \in Nat /\ InOnePage(pos[t], Dram!Copied(pos[t], count[t]))
    BY <1>3, CopiedInOnePage DEF Dram!ReadCopies
  <2>2. Lonely'
    BY <1>3 DEF Dram!ReadCopies, Lonely
  <2>3. QED
    BY <1>3, <2>1, <2>2 DEF Dram!ReadCopies
<1>4. CASE Dram!ReadFaults(t)
  <2>1. Lonely'
    BY <1>4 DEF Dram!ReadFaults, Lonely
  <2>2. QED
    BY <1>4, <2>1 DEF Dram!ReadFaults
<1>5. CASE Dram!ReadEnd(t)
  <2>1. InOnePage(pos[t], count[t])
    BY <1>5 DEF Dram!ReadEnd
  <2>2. f_pos' \in 0 .. Dram!dram_size /\ f_pos' = pos[t] + count[t]
    BY <1>5, <2>1 DEF Dram!ReadEnd, InOnePage
  <2>3. Lonely'
    BY <1>5, <2>2 DEF Dram!ReadEnd, Lonely
  <2>4. QED
    BY <1>5, <2>2, <2>3 DEF Dram!ReadEnd
<1>6. CASE Dram!Lseek(t)
  <2>1. f_pos' \in 0 .. Dram!dram_size
    <3>1. \A o \in MCOffsets, w \in {Dram!SEEK_SET, Dram!SEEK_CUR, Dram!SEEK_END} : Dram!Newpos(o, w) \in Int
      BY DEF MCOffsets, Dram!Newpos, Dram!SEEK_SET, Dram!SEEK_CUR, Dram!SEEK_END
    <3>2. QED
      BY <1>6, <3>1 DEF Dram!Lseek
  <2>2. total' = -1 /\ UNCHANGED <<file_pc, pos, count>>
    BY <1>6 DEF Dram!Lseek
  <2>3. QED
    BY <2>1, <2>2 DEF Lonely
<1>7. QED
  BY <1>1, <1>2, <1>3, <1>4, <1>5, <1>6 DEF Dram!DevRead

LEMMA MemoryRest ==
  ASSUME MemoryInv, UNCHANGED dramVars
  PROVE  MemoryInv'
BY DEF MemoryInv, MemoryTypes, Lonely, InOnePage, Dram!dram_size, dramVars

THEOREM MemoryCorrect == MCSpec => []MemoryInv
<1>1. MCInit => MemoryInv
  BY MemoryInit DEF MCInit
<1>2. MemoryInv /\ [OnDrivers \/ OnMessage \/ OnMemory]_<<subject, chrVars, vars, dramVars>> => MemoryInv'
  BY MemoryStep, MemoryRest, Zenon DEF OnDrivers, OnMessage, OnMemory
<1>3. QED
  BY <1>1, <1>2, PTL DEF MCSpec

\* A read copies from the one page it has mapped, whatever the threads do to the
\* position they share.
THEOREM CopiesInOnePage == MCSpec => []CopyInOnePage
<1>1. MemoryInv => CopyInOnePage
  BY DEF MemoryInv, InOnePage, CopyInOnePage, Dram!CopyInOnePage
<1>2. QED
  BY <1>1, MemoryCorrect, PTL

\* A file that is read by one call at a time gives each byte once.
THEOREM BytesOnce == MCSpec => []EachByteOnce
<1>1. MemoryInv => EachByteOnce
  BY DEF MemoryInv, Lonely, EachByteOnce, Dram!EachByteOnce
<1>2. QED
  BY <1>1, MemoryCorrect, PTL

\* No read stops short of the end of memory with nothing.
THEOREM NothingMeansEnd == MCSpec => []NothingOnlyAtEnd
<1>1. MemoryInv => NothingOnlyAtEnd
  BY DEF MemoryInv, InOnePage, NothingOnlyAtEnd, Dram!NothingOnlyAtEnd
<1>2. QED
  BY <1>1, MemoryCorrect, PTL

-----------------------------------------------------------------------------
(* Types.                                                                  *)

\* The types in all three, whatever their constants are; above all the position of
\* a file of the memory device stays in the memory, at its end at most, and no text
\* is ever longer than the buffer of the message device.
THEOREM CharTypes == MCSpec => []TypesOK
<1>1. MCInit => MsgTypeInv /\ Chr!TypeOK
  <2>1. MCInit => MsgTypeInv
    BY MsgTypeInvInit DEF MCInit
  <2>2. Chr!Init => Chr!TypeOK
    BY DEF Chr!Init, Chr!TypeOK
  <2>3. QED
    BY <2>1, <2>2 DEF MCInit
<1>2. DriversInv /\ MsgTypeInv /\ Chr!TypeOK /\ [OnDrivers \/ OnMessage \/ OnMemory]_<<subject, chrVars, vars, dramVars>>
      => (MsgTypeInv /\ Chr!TypeOK)'
  <2>1. MsgTypeInv /\ UNCHANGED vars => MsgTypeInv'
    BY MsgTypeInvStep
  <2>2. Chr!TypeOK /\ UNCHANGED chrVars => Chr!TypeOK'
    BY DEF Chr!TypeOK, chrVars
  <2>3. QED
    BY <2>1, <2>2, MsgTypeInvStep, DriversTypes, Zenon DEF OnDrivers, OnMessage, OnMemory
<1>3. MemoryInv /\ MsgTypeInv /\ Chr!TypeOK => TypesOK
  <2>1. MemoryInv => Dram!TypeOK
    BY DEF MemoryInv, MemoryTypes, Dram!TypeOK
  <2>2. QED
    BY <2>1, MsgTypeInvIsTypeOK DEF TypesOK
<1>4. QED
  BY <1>1, <1>2, <1>3, DriversCorrect, MemoryCorrect, PTL DEF MCSpec
=============================================================================
