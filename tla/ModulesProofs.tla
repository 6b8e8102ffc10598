---------------------------- MODULE ModulesProofs ----------------------------
(* The generic netlink family, the netlink modules, the PCI driver and       *)
(* mychardev, for any number of processes and cards, any queue, any majors.  *)
EXTENDS MapleProofs

\* ---- genl_multicast.c ----

\* The timer is idle outside the time the module can use it, and only then.
TimerInv == timer = "idle" <=> genl_pc \in {"out", "register", "failing", "start", "forget"}

LEMMA TimerInit == Ge!Init => TimerInv
BY DEF Ge!Init, TimerInv

LEMMA TimerStep == TimerInv /\ Ge!Next => TimerInv'
<1> SUFFICES ASSUME TimerInv, Ge!Next PROVE TimerInv'
  OBVIOUS
<1>1. CASE Ge!Insmod \/ Ge!RegisterFamily \/ Ge!ErrorOut \/ Ge!InitializeTimer
  BY <1>1 DEF TimerInv, Ge!Insmod, Ge!RegisterFamily, Ge!ErrorOut, Ge!InitializeTimer
<1>2. CASE Ge!Fire \/ Ge!Callback
  BY <1>2 DEF TimerInv, Ge!Fire, Ge!Callback, Ge!NewMessage, Ge!PutMessage, Ge!Multicast, Ge!Rearm, Ge!CallbackReturns
<1>3. CASE Ge!Rmmod \/ Ge!DelTimerSync \/ Ge!UnregisterFamily
  BY <1>3 DEF TimerInv, Ge!Rmmod, Ge!DelTimerSync, Ge!UnregisterFamily
<1>4. QED
  BY <1>1, <1>2, <1>3 DEF Ge!Next

\* ---- the netlink modules and the programs ----

Places == {"none", "start", "bind", "setsockopt", "sendmsg", "input", "recvmsg", "close", "exited"}

NlTypes ==
  /\ sk \in [Nl!Units -> Nl!Modules \cup {"none"}]
  /\ prog \in [Procs -> Nl!Programs] /\ nl_pc \in [Procs -> Places]
  /\ port \in [Procs -> BOOLEAN] /\ groups \in [Procs -> SUBSET Nat]
  /\ queue \in [Procs -> 0 .. QueueLength]
  /\ multi \in [Procs -> BOOLEAN] /\ dropped \in [Procs -> BOOLEAN]

\* Each module owns the socket of its own unit only.
UnitsInv == \A u \in Nl!Units : sk[u] # "none" => Nl!UnitOf(sk[u]) = u

\* What holds of a process by where it is.  A socket on a unit keeps its module;
\* multi is set while a receiver waits, and then its queue is not empty.
ProcInv(p) ==
  /\ Nl!HasSocket(p) => sk[Nl!Unit(p)] # "none"
  /\ nl_pc[p] = "setsockopt" => prog[p] = "recv"
  /\ nl_pc[p] = "input" => port[p] = TRUE
  /\ nl_pc[p] = "recvmsg" => prog[p] = "recv" \/ prog[p] = "um_unicast"
  /\ nl_pc[p] = "recvmsg" /\ prog[p] = "recv" => Nl!MCAST_GROUP_ID \in groups[p]
  /\ multi[p] = TRUE => nl_pc[p] = "recvmsg" \/ nl_pc[p] = "close"
  /\ multi[p] = TRUE /\ nl_pc[p] = "recvmsg" => queue[p] > 0
  /\ nl_pc[p] = "recvmsg" /\ prog[p] = "um_unicast" =>
       queue[p] > 0 \/ dropped[p] = TRUE \/ sk[Nl!Unit(p)] = "test"

NlInv == NlTypes /\ UnitsInv /\ \A p \in Procs : ProcInv(p)

LEMMA QueueLengthIs == QueueLength \in Nat \ {0}
BY ModulesAssumption DEF Nl!NlModulesAssumption

LEMMA NlInit == Nl!Init => NlInv
<1> SUFFICES ASSUME Nl!Init PROVE NlInv
  OBVIOUS
<1>1. NlTypes
  BY QueueLengthIs DEF Nl!Init, NlTypes, Nl!Modules, Nl!Programs, Places
<1>2. UnitsInv /\ \A p \in Procs : ProcInv(p)
  BY DEF Nl!Init, UnitsInv, ProcInv, Nl!HasSocket
<1>3. QED
  BY <1>1, <1>2 DEF NlInv

LEMMA UnitFacts ==
  /\ \A p : Nl!Unit(p) \in Nl!Units
  /\ \A m : Nl!UnitOf(m) \in Nl!Units
BY DEF Nl!Unit, Nl!Units, Nl!UnitOf

LEMMA LoadStep ==
  ASSUME NlInv, NEW m \in Nl!Modules, Nl!NlInsmod(m) \/ Nl!NlRmmod(m)
  PROVE  NlInv'
<1>1. UNCHANGED <<prog, nl_pc, port, groups, queue, multi, dropped>>
  BY DEF Nl!NlInsmod, Nl!NlRmmod, Nl!user
<1>2. NlTypes' /\ UnitsInv'
  BY <1>1, UnitFacts DEF NlInv, NlTypes, UnitsInv, Nl!NlInsmod, Nl!NlRmmod
<1>3. ASSUME NEW p \in Procs PROVE ProcInv(p)'
  <2>1. Nl!Unit(p)' = Nl!Unit(p) /\ (Nl!HasSocket(p)' <=> Nl!HasSocket(p)) /\ ProcInv(p)
    BY <1>1 DEF Nl!Unit, Nl!HasSocket, NlInv
  <2>2. Nl!HasSocket(p) => sk'[Nl!Unit(p)] = sk[Nl!Unit(p)]
    BY <1>3, <2>1, UnitFacts DEF NlInv, NlTypes, Nl!NlInsmod, Nl!NlRmmod, ProcInv
  <2>3. nl_pc[p] = "recvmsg" => Nl!HasSocket(p)
    BY DEF Nl!HasSocket
  <2>4. QED
    BY <1>1, <2>1, <2>2, <2>3 DEF ProcInv
<1>4. QED
  BY <1>2, <1>3 DEF NlInv

\* Everything but what an input function does changes the process itself only.
LEMMA OthersInv ==
  ASSUME NlInv, NEW p \in Procs, NEW q \in Procs \ {p}, sk' = sk,
         /\ prog'[q] = prog[q] /\ nl_pc'[q] = nl_pc[q] /\ port'[q] = port[q] /\ groups'[q] = groups[q]
         /\ queue'[q] = queue[q] /\ multi'[q] = multi[q] /\ dropped'[q] = dropped[q]
  PROVE  ProcInv(q)'
BY DEF NlInv, ProcInv, Nl!HasSocket, Nl!Unit

LEMMA GroupFacts == \A mask : Nl!MaskGroups(mask) \in SUBSET Nat
BY DEF Nl!MaskGroups

LEMMA OwnStep ==
  ASSUME NlInv, NEW p \in Procs,
         \/ Nl!Exec(p) \/ Nl!OpenSocket(p) \/ Nl!Bind(p) \/ Nl!Join(p) \/ Nl!SendMsg(p)
         \/ Nl!SendMsgFails(p) \/ Nl!RecvMsg(p) \/ Nl!Exit(p)
  PROVE  NlInv'
<1> DEFINE Goal == NlTypes' /\ ProcInv(p)' /\ sk' = sk
<1>0. NlTypes /\ ProcInv(p) /\ UnitsInv
  BY DEF NlInv
<1>1. ASSUME Nl!Exec(p) PROVE Goal
  <2>1. NlTypes'
    BY <1>0, <1>1 DEF Nl!Exec, Nl!Goto, NlTypes, Places
  <2>2. nl_pc'[p] = "start" /\ multi'[p] = multi[p] /\ nl_pc[p] = "none" /\ sk' = sk
    BY <1>0, <1>1 DEF Nl!Exec, Nl!Goto, NlTypes
  <2>3. QED
    BY <1>0, <2>1, <2>2 DEF ProcInv, Nl!HasSocket
<1>2. ASSUME Nl!OpenSocket(p) PROVE Goal
  <2>1. NlTypes'
    BY <1>0, <1>2 DEF Nl!OpenSocket, Nl!Goto, NlTypes, Places
  <2>2. /\ nl_pc[p] = "start" /\ UNCHANGED <<sk, prog, port, groups, queue, multi, dropped>>
        /\ nl_pc'[p] = "exited" \/ ((nl_pc'[p] = "bind" \/ nl_pc'[p] = "sendmsg") /\ sk[Nl!Unit(p)] # "none")
    BY <1>0, <1>2 DEF Nl!OpenSocket, Nl!Goto, NlTypes
  <2>3. QED
    BY <1>0, <2>1, <2>2 DEF ProcInv, Nl!HasSocket, Nl!Unit
<1>3. ASSUME Nl!Bind(p) PROVE Goal
  <2>1. PICK bound \in BOOLEAN :
          /\ port' = [port EXCEPT ![p] = bound]
          /\ groups' = [groups EXCEPT ![p] =
               IF bound /\ prog[p] = "recv" THEN Nl!MaskGroups(Nl!MCAST_GROUP_ID) ELSE {}]
          /\ Nl!Goto(p, IF prog[p] # "recv" THEN "sendmsg" ELSE IF bound THEN "setsockopt" ELSE "close")
    BY <1>3 DEF Nl!Bind
  <2>2. /\ nl_pc[p] = "bind" /\ UNCHANGED <<sk, prog, queue, multi, dropped>>
    BY <1>3 DEF Nl!Bind
  <2>3. port' \in [Procs -> BOOLEAN] /\ groups' \in [Procs -> SUBSET Nat]
    BY <1>0, <2>1, GroupFacts DEF NlTypes
  <2>4. /\ nl_pc' \in [Procs -> Places]
        /\ (nl_pc'[p] = "setsockopt" /\ prog[p] = "recv") \/ nl_pc'[p] = "sendmsg" \/ nl_pc'[p] = "close"
    BY <1>0, <2>1 DEF NlTypes, Nl!Goto, Places
  <2>5. QED
    BY <1>0, <2>2, <2>3, <2>4 DEF NlTypes, ProcInv, Nl!HasSocket, Nl!Unit
<1>4. ASSUME Nl!Join(p) PROVE Goal
  <2>1. NlTypes'
    BY <1>0, <1>4 DEF Nl!Join, Nl!Goto, NlTypes, Places, Nl!MCAST_GROUP_ID
  <2>2. /\ nl_pc[p] = "setsockopt" /\ UNCHANGED <<sk, prog, port, queue, multi, dropped>>
        /\ (nl_pc'[p] = "recvmsg" /\ Nl!MCAST_GROUP_ID \in groups'[p]) \/ nl_pc'[p] = "close"
    BY <1>0, <1>4 DEF Nl!Join, Nl!Goto, NlTypes
  <2>3. QED
    BY <1>0, <2>1, <2>2 DEF ProcInv, Nl!HasSocket, Nl!Unit
<1>5. ASSUME Nl!SendMsg(p) PROVE Goal
  <2>1. NlTypes'
    BY <1>0, <1>5 DEF Nl!SendMsg, Nl!Goto, NlTypes, Places
  <2>2. /\ nl_pc[p] = "sendmsg" /\ nl_pc'[p] = "input" /\ port'[p] = TRUE
        /\ UNCHANGED <<sk, prog, groups, queue, multi, dropped>>
    BY <1>0, <1>5 DEF Nl!SendMsg, Nl!Goto, NlTypes
  <2>3. QED
    BY <1>0, <2>1, <2>2 DEF ProcInv, Nl!HasSocket, Nl!Unit
<1>6. ASSUME Nl!RecvMsg(p) PROVE Goal
  <2>1. NlTypes'
    BY <1>0, <1>6, QueueLengthIs DEF Nl!RecvMsg, Nl!Goto, NlTypes, Places
  <2>2. /\ nl_pc[p] = "recvmsg" /\ nl_pc'[p] = "close" /\ UNCHANGED <<sk, prog, port, groups, multi, dropped>>
    BY <1>0, <1>6 DEF Nl!RecvMsg, Nl!Goto, NlTypes
  <2>3. QED
    BY <1>0, <2>1, <2>2 DEF ProcInv, Nl!HasSocket, Nl!Unit
<1>7. ASSUME Nl!Exit(p) PROVE Goal
  <2>1. NlTypes'
    BY <1>0, <1>7, QueueLengthIs DEF Nl!Exit, Nl!Goto, NlTypes, Places
  <2>2. nl_pc'[p] = "none" /\ multi'[p] = FALSE /\ sk' = sk
    BY <1>0, <1>7 DEF Nl!Exit, Nl!Goto, NlTypes
  <2>3. QED
    BY <2>1, <2>2 DEF ProcInv, Nl!HasSocket
<1>f. ASSUME Nl!SendMsgFails(p) PROVE Goal
  <2>1. port' \in [Procs -> BOOLEAN] /\ dropped' \in [Procs -> BOOLEAN]
    BY <1>0, <1>f DEF Nl!SendMsgFails, NlTypes
  <2>2. /\ nl_pc' \in [Procs -> Places] /\ nl_pc[p] = "sendmsg" /\ dropped'[p] = TRUE
        /\ (nl_pc'[p] = "recvmsg" /\ prog[p] = "um_unicast") \/ nl_pc'[p] = "close"
        /\ UNCHANGED <<sk, prog, groups, queue, multi>>
    BY <1>0, <1>f DEF Nl!SendMsgFails, Nl!AfterSending, Nl!Goto, NlTypes, Places
  <2>3. QED
    BY <1>0, <2>1, <2>2 DEF NlTypes, ProcInv, Nl!HasSocket, Nl!Unit
<1>8. Goal
  BY <1>1, <1>2, <1>3, <1>4, <1>5, <1>6, <1>7, <1>f
<1>9. UnitsInv'
  BY <1>0, <1>8 DEF UnitsInv
<1>10. ASSUME NEW q \in Procs \ {p} PROVE ProcInv(q)'
  <2>1. prog'[q] = prog[q] /\ nl_pc'[q] = nl_pc[q] /\ port'[q] = port[q]
    BY <1>0 DEF NlTypes, Nl!Exec, Nl!OpenSocket, Nl!Bind, Nl!Join, Nl!SendMsg, Nl!SendMsgFails, Nl!RecvMsg, Nl!Exit, Nl!Goto
  <2>2. groups'[q] = groups[q] /\ queue'[q] = queue[q]
    BY <1>0 DEF NlTypes, Nl!Exec, Nl!OpenSocket, Nl!Bind, Nl!Join, Nl!SendMsg, Nl!SendMsgFails, Nl!RecvMsg, Nl!Exit, Nl!Goto
  <2>3. multi'[q] = multi[q] /\ dropped'[q] = dropped[q]
    BY <1>0 DEF NlTypes, Nl!Exec, Nl!OpenSocket, Nl!Bind, Nl!Join, Nl!SendMsg, Nl!SendMsgFails, Nl!RecvMsg, Nl!Exit, Nl!Goto
  <2>4. QED
    BY <1>8, <2>1, <2>2, <2>3, OthersInv
<1>11. QED
  BY <1>8, <1>9, <1>10 DEF NlInv

\* One more message makes a queue longer, or finds it full, and so not empty; it never outgrows the buffer.
LEMMA QueuedFacts ==
  ASSUME NlTypes, NEW q \in Procs
  PROVE  Nl!Queued(q, 1) \in 1 .. QueueLength
BY QueueLengthIs DEF NlTypes, Nl!Queued

\* The input function of netlink_multicast.c.
LEMMA MulticastStep ==
  ASSUME NlInv, NEW p \in Procs, Nl!Input(p), Nl!netlink_recv_msg_fn(p)
  PROVE  NlInv'
<1>0. NlTypes /\ UnitsInv /\ sk[Nl!Unit(p)] = "multicast" /\ Nl!Unit(p) \in Nl!Units
  BY UnitFacts DEF NlInv, Nl!netlink_recv_msg_fn
<1>1. PICK memory \in BOOLEAN :
        LET heard == {q \in Procs : memory /\ Nl!MCAST_GROUP_ID \in groups[q]}
        IN  /\ queue' = [q \in Procs |-> IF q \in heard THEN Nl!Queued(q, 1) ELSE queue[q]]
            /\ multi' = [q \in Procs |-> multi[q] \/ (memory /\ prog[q] = "recv" /\ nl_pc[q] = "recvmsg")]
  BY DEF Nl!netlink_recv_msg_fn
<1>2. UNCHANGED <<sk, prog, port, groups, dropped>>
  BY DEF Nl!Input, Nl!netlink_recv_msg_fn
<1>3. nl_pc[p] = "input" /\ prog[p] # "um_unicast" /\ nl_pc' = [nl_pc EXCEPT ![p] = "close"]
  <2>1. Nl!Unit(p) = Nl!NETLINK_TEST_PROTOCOL
    BY <1>0 DEF UnitsInv, Nl!UnitOf
  <2>2. prog[p] # "um_unicast"
    BY <2>1 DEF Nl!Unit, Nl!NETLINK_TEST_PROTOCOL, Nl!NETLINK_TESTFAMILY
  <2>3. QED
    BY <2>2 DEF Nl!Input, Nl!AfterSending, Nl!Goto
<1>4. \A q \in Procs : queue'[q] \in 0 .. QueueLength /\ (queue[q] > 0 => queue'[q] > 0)
  BY <1>0, <1>1, QueuedFacts, QueueLengthIs DEF NlTypes
<1>5. NlTypes' /\ UnitsInv'
  <2>1. queue' \in [Procs -> 0 .. QueueLength]
    BY <1>1, <1>4
  <2>2. multi' \in [Procs -> BOOLEAN]
    BY <1>1
  <2>3. QED
    BY <1>0, <1>2, <1>3, <2>1, <2>2 DEF NlTypes, UnitsInv, Places
<1>6. ASSUME NEW q \in Procs PROVE ProcInv(q)'
  <2>1. ProcInv(q)
    BY DEF NlInv
  <2>2. nl_pc'[q] = IF q = p THEN "close" ELSE nl_pc[q]
    BY <1>0, <1>3 DEF NlTypes
  <2>3. multi'[q] = TRUE => multi[q] = TRUE \/ (memory /\ prog[q] = "recv" /\ nl_pc[q] = "recvmsg")
    BY <1>0, <1>1, Zenon DEF NlTypes
  <2>4. memory /\ Nl!MCAST_GROUP_ID \in groups[q] => queue'[q] > 0
    BY <1>0, <1>1, QueuedFacts
  <2>5. QED
    BY <1>2, <1>3, <1>4, <2>1, <2>2, <2>3, <2>4 DEF ProcInv, Nl!HasSocket, Nl!Unit
<1>7. QED
  BY <1>5, <1>6 DEF NlInv

\* The input functions of netlink_unicast.c and netlink_test.c.
LEMMA AnswerStep ==
  ASSUME NlInv, NEW p \in Procs, Nl!Input(p), Nl!test_nl_receive_message(p) \/ Nl!test_nl_receive_only(p)
  PROVE  NlInv'
<1>0. NlTypes /\ UnitsInv /\ ProcInv(p)
  BY DEF NlInv
<1>1. UNCHANGED <<sk, prog, port, groups, multi>>
  BY DEF Nl!Input, Nl!test_nl_receive_message, Nl!test_nl_receive_only
<1>2. /\ nl_pc[p] = "input" /\ port[p] = TRUE
      /\ nl_pc' = [nl_pc EXCEPT ![p] = IF prog[p] = "um_unicast" THEN "recvmsg" ELSE "close"]
  BY <1>0 DEF Nl!Input, Nl!AfterSending, Nl!Goto, ProcInv
<1>3. /\ queue' \in [Procs -> 0 .. QueueLength] /\ dropped' \in [Procs -> BOOLEAN]
      /\ \A q \in Procs \ {p} : queue'[q] = queue[q] /\ dropped'[q] = dropped[q]
      /\ queue'[p] > 0 \/ dropped'[p] = TRUE \/ sk[Nl!Unit(p)] = "test"
  <2>1. CASE Nl!test_nl_receive_message(p)
    <3>1. PICK memory \in BOOLEAN :
            /\ queue' = [queue EXCEPT ![p] = IF memory /\ port[p] THEN Nl!Queued(p, 1) ELSE @]
            /\ dropped' = [dropped EXCEPT ![p] = ~ memory]
      BY <2>1 DEF Nl!test_nl_receive_message
    <3>2. CASE memory = TRUE
      BY <1>0, <1>2, <3>1, <3>2, QueuedFacts DEF NlTypes
    <3>3. CASE memory = FALSE
      BY <1>0, <3>1, <3>3 DEF NlTypes
    <3>4. QED
      BY <3>2, <3>3
  <2>2. CASE Nl!test_nl_receive_only(p)
    BY <1>0, <2>2 DEF NlTypes, Nl!test_nl_receive_only
  <2>3. QED
    BY <2>1, <2>2
<1>4. NlTypes' /\ UnitsInv'
  BY <1>0, <1>1, <1>2, <1>3 DEF NlTypes, UnitsInv, Places
<1>5. ProcInv(p)'
  <2>1. nl_pc'[p] = IF prog[p] = "um_unicast" THEN "recvmsg" ELSE "close"
    BY <1>0, <1>2 DEF NlTypes
  <2>2. multi[p] # TRUE
    BY <1>0, <1>2 DEF ProcInv
  <2>3. QED
    BY <1>0, <1>1, <1>2, <1>3, <2>1, <2>2 DEF ProcInv, Nl!HasSocket, Nl!Unit
<1>6. ASSUME NEW q \in Procs \ {p} PROVE ProcInv(q)'
  <2>1. nl_pc'[q] = nl_pc[q]
    BY <1>0, <1>2 DEF NlTypes
  <2>2. QED
    BY <1>1, <1>3, <2>1, OthersInv
<1>7. QED
  BY <1>4, <1>5, <1>6 DEF NlInv

LEMMA NlStep == NlInv /\ Nl!Next => NlInv'
<1> SUFFICES ASSUME NlInv, Nl!Next PROVE NlInv'
  OBVIOUS
<1>1. CASE \E m \in Nl!Modules : Nl!NlInsmod(m) \/ Nl!NlRmmod(m)
  BY <1>1, LoadStep
<1>2. ASSUME NEW p \in Procs, Nl!Process(p) PROVE NlInv'
  <2>1. CASE Nl!Input(p)
    BY <2>1, MulticastStep, AnswerStep DEF Nl!Input
  <2>2. CASE ~ Nl!Input(p)
    BY <1>2, <2>2, OwnStep DEF Nl!Process
  <2>3. QED
    BY <2>1, <2>2
<1>3. QED
  BY <1>1, <1>2 DEF Nl!Next

\* ---- test_pci_module.c ----

PciPlaces == {"unbound", "enable", "request", "kzalloc", "ioremap", "vectors", "irq", "bound", "failed", "release"}

PciTypes ==
  /\ pci_pc \in [Devs -> PciPlaces]
  /\ held \in [Devs -> SUBSET Pci!Resources]
  /\ drvdata \in [Devs -> BOOLEAN] /\ leaks \in [Devs -> BOOLEAN]

\* What probe has taken by where it is, whatever an earlier probe left behind,
\* and who can have the handler.
CardInv(d) ==
  /\ pci_pc[d] = "request" => {"device"} \subseteq held[d]
  /\ pci_pc[d] = "kzalloc" => {"device", "region"} \subseteq held[d]
  /\ pci_pc[d] = "ioremap" => {"device", "region", "drv_priv"} \subseteq held[d]
  /\ pci_pc[d] = "vectors" => {"device", "region", "drv_priv", "hwmem"} \subseteq held[d] /\ drvdata[d] = TRUE
  /\ pci_pc[d] = "irq" \/ pci_pc[d] = "bound" => Pci!Resources \subseteq held[d] /\ drvdata[d] = TRUE
  /\ pci_pc[d] = "bound" => irq = {d}
  /\ d \in irq => pci_pc[d] = "bound" \/ pci_pc[d] = "release"
  /\ pci_pc[d] = "release" => held[d] \subseteq Pci!Released
  /\ pci_pc[d] = "unbound" \/ pci_pc[d] = "failed" => leaks[d] = TRUE \/ held[d] = {}

PciInv == PciTypes /\ \A d \in Devs : CardInv(d)

LEMMA PciInit == Pci!Init => PciInv
BY DEF Pci!Init, PciInv, PciTypes, CardInv, PciPlaces

\* The answer of a probe that failed: what is left is a leak.
LEMMA FailsFacts ==
  ASSUME PciTypes, NEW d \in Devs, NEW rest \in SUBSET Pci!Resources, Pci!Fails(d, rest)
  PROVE  /\ held' \in [Devs -> SUBSET Pci!Resources] /\ held'[d] = rest
         /\ drvdata' \in [Devs -> BOOLEAN] /\ leaks' \in [Devs -> BOOLEAN]
         /\ leaks'[d] = TRUE \/ rest = {}
         /\ \A e \in Devs \ {d} : held'[e] = held[e] /\ drvdata'[e] = drvdata[e] /\ leaks'[e] = leaks[e]
<1>1. leaks' = [leaks EXCEPT ![d] = @ \/ rest # {}]
  BY DEF Pci!Fails
<1>2. leaks' \in [Devs -> BOOLEAN] /\ (leaks'[d] = TRUE \/ rest = {})
  BY <1>1, Zenon DEF PciTypes
<1>3. QED
  BY <1>1, <1>2 DEF PciTypes, Pci!Fails

Probing(d) ==
  \/ Pci!Probe(d) \/ Pci!EnableDevice(d) \/ Pci!RequestRegion(d) \/ Pci!Kzalloc(d) \/ Pci!Ioremap(d)
  \/ Pci!AllocVectors(d) \/ Pci!RequestIrq(d)

\* A step for one card: its own part, and the others keep theirs.
CardStep(d) ==
  /\ PciTypes' /\ CardInv(d)'
  /\ \A e \in Devs \ {d} :
       /\ pci_pc'[e] = pci_pc[e] /\ held'[e] = held[e] /\ drvdata'[e] = drvdata[e] /\ leaks'[e] = leaks[e]
       /\ (e \in irq') <=> (e \in irq)
  /\ irq' \in {irq, irq \ {d}} \/ (irq = {} /\ irq' = {d})

LEMMA OneCard == ASSUME PciInv, NEW d \in Devs, CardStep(d) PROVE PciInv'
<1>1. ASSUME NEW e \in Devs \ {d} PROVE CardInv(e)'
  <2>1. CardInv(e)
    BY DEF PciInv
  <2>2. pci_pc[e] = "bound" => irq' = {e}
    BY <2>1 DEF CardStep, CardInv
  <2>3. QED
    BY <2>1, <2>2 DEF CardStep, CardInv
<1>2. QED
  BY <1>1 DEF PciInv, CardStep

\* A step that gives d what it takes; the handler stays with whom it is.
LEMMA Succeeds ==
  ASSUME PciInv, NEW d \in Devs, NEW from \in PciPlaces, NEW to \in PciPlaces,
         NEW r \in Pci!Resources, Pci!Goto(d, from, to), Pci!Takes(d, r)
  PROVE  /\ pci_pc' \in [Devs -> PciPlaces] /\ pci_pc[d] = from /\ pci_pc'[d] = to
         /\ held' \in [Devs -> SUBSET Pci!Resources] /\ held'[d] = held[d] \cup {r}
         /\ \A e \in Devs \ {d} : pci_pc'[e] = pci_pc[e] /\ held'[e] = held[e]
BY DEF PciInv, PciTypes, Pci!Goto, Pci!Takes

LEMMA GotoFacts ==
  ASSUME PciTypes, NEW d \in Devs, NEW from \in PciPlaces, NEW to \in PciPlaces, Pci!Goto(d, from, to)
  PROVE  /\ pci_pc' \in [Devs -> PciPlaces] /\ pci_pc[d] = from /\ pci_pc'[d] = to
         /\ \A e \in Devs \ {d} : pci_pc'[e] = pci_pc[e]
BY DEF PciTypes, Pci!Goto

\* A probe that fails.
LEMMA FailsStep ==
  ASSUME PciInv, NEW d \in Devs, NEW from \in PciPlaces, from # "bound", from # "release",
         NEW rest \in SUBSET Pci!Resources, Pci!Goto(d, from, "failed"), Pci!Fails(d, rest),
         irq' = irq \/ irq' = irq \ {d}
  PROVE  CardStep(d)
<1>1. PciTypes /\ CardInv(d)
  BY DEF PciInv
<1>2. /\ pci_pc' \in [Devs -> PciPlaces] /\ pci_pc[d] = from /\ pci_pc'[d] = "failed"
      /\ \A e \in Devs \ {d} : pci_pc'[e] = pci_pc[e]
  BY <1>1, GotoFacts DEF PciPlaces
<1>3. /\ held' \in [Devs -> SUBSET Pci!Resources] /\ held'[d] = rest
      /\ drvdata' \in [Devs -> BOOLEAN] /\ leaks' \in [Devs -> BOOLEAN]
      /\ leaks'[d] = TRUE \/ rest = {}
      /\ \A e \in Devs \ {d} : held'[e] = held[e] /\ drvdata'[e] = drvdata[e] /\ leaks'[e] = leaks[e]
  BY <1>1, FailsFacts
<1>4. d \notin irq
  BY <1>1, <1>2 DEF CardInv
<1>5. PciTypes' /\ CardInv(d)'
  BY <1>2, <1>3, <1>4 DEF PciTypes, CardInv
<1>6. QED
  BY <1>2, <1>3, <1>5 DEF CardStep

LEMMA ProbeStep ==
  ASSUME PciInv, NEW d \in Devs, Probing(d)
  PROVE  CardStep(d)
<1>0. PciTypes /\ CardInv(d) /\ held[d] \in SUBSET Pci!Resources
  BY DEF PciInv, PciTypes
<1>1. ASSUME Pci!Probe(d) PROVE CardStep(d)
  BY <1>0, <1>1 DEF Pci!Probe, Pci!Goto, PciTypes, PciPlaces, CardStep, CardInv
<1>2. ASSUME Pci!EnableDevice(d) PROVE CardStep(d)
  <2>1. CASE Pci!Goto(d, "enable", "request") /\ Pci!Takes(d, "device") /\ UNCHANGED <<drvdata, leaks>>
    <3>1. irq' = irq
      BY <1>2 DEF Pci!EnableDevice
    <3>2. /\ pci_pc' \in [Devs -> PciPlaces] /\ pci_pc[d] = "enable" /\ pci_pc'[d] = "request"
          /\ held' \in [Devs -> SUBSET Pci!Resources] /\ held'[d] = held[d] \cup {"device"}
          /\ \A e \in Devs \ {d} : pci_pc'[e] = pci_pc[e] /\ held'[e] = held[e]
      BY <2>1, Succeeds DEF PciPlaces, Pci!Resources
    <3>3. PciTypes' /\ CardInv(d)'
      BY <1>0, <2>1, <3>1, <3>2 DEF PciTypes, CardInv
    <3>4. QED
      BY <2>1, <3>1, <3>2, <3>3 DEF CardStep
  <2>2. CASE Pci!Goto(d, "enable", "failed") /\ Pci!Fails(d, held[d])
    BY <1>0, <1>2, <2>2, FailsStep DEF Pci!EnableDevice, PciPlaces
  <2>3. QED
    BY <1>2, <2>1, <2>2 DEF Pci!EnableDevice
<1>3. ASSUME Pci!RequestRegion(d) PROVE CardStep(d)
  <2>1. CASE Pci!Goto(d, "request", "kzalloc") /\ Pci!Takes(d, "region") /\ UNCHANGED <<drvdata, leaks>>
    <3>1. irq' = irq
      BY <1>3 DEF Pci!RequestRegion
    <3>2. /\ pci_pc' \in [Devs -> PciPlaces] /\ pci_pc[d] = "request" /\ pci_pc'[d] = "kzalloc"
          /\ held' \in [Devs -> SUBSET Pci!Resources] /\ held'[d] = held[d] \cup {"region"}
          /\ \A e \in Devs \ {d} : pci_pc'[e] = pci_pc[e] /\ held'[e] = held[e]
      BY <2>1, Succeeds DEF PciPlaces, Pci!Resources
    <3>3. PciTypes' /\ CardInv(d)'
      BY <1>0, <2>1, <3>1, <3>2 DEF PciTypes, CardInv
    <3>4. QED
      BY <2>1, <3>1, <3>2, <3>3 DEF CardStep
  <2>2. CASE Pci!Goto(d, "request", "failed") /\ Pci!Fails(d, held[d] \ {"device"})
    BY <1>0, <1>3, <2>2, FailsStep DEF Pci!RequestRegion, PciPlaces
  <2>3. QED
    BY <1>3, <2>1, <2>2 DEF Pci!RequestRegion
<1>4. ASSUME Pci!Kzalloc(d) PROVE CardStep(d)
  <2>1. CASE Pci!Goto(d, "kzalloc", "ioremap") /\ Pci!Takes(d, "drv_priv") /\ UNCHANGED <<irq, drvdata, leaks>>
    <3>1. /\ pci_pc' \in [Devs -> PciPlaces] /\ pci_pc[d] = "kzalloc" /\ pci_pc'[d] = "ioremap"
          /\ held' \in [Devs -> SUBSET Pci!Resources] /\ held'[d] = held[d] \cup {"drv_priv"}
          /\ \A e \in Devs \ {d} : pci_pc'[e] = pci_pc[e] /\ held'[e] = held[e]
      BY <2>1, Succeeds DEF PciPlaces, Pci!Resources
    <3>2. PciTypes' /\ CardInv(d)'
      BY <1>0, <2>1, <3>1 DEF PciTypes, CardInv
    <3>3. QED
      BY <2>1, <3>1, <3>2 DEF CardStep
  <2>2. CASE Pci!Goto(d, "kzalloc", "failed") /\ Pci!Fails(d, held[d] \ Pci!Released) /\ irq' = Pci!ReleaseIrq(d)
    BY <1>0, <2>2, FailsStep DEF PciPlaces, Pci!ReleaseIrq
  <2>3. QED
    BY <1>4, <2>1, <2>2 DEF Pci!Kzalloc
<1>5. ASSUME Pci!Ioremap(d) PROVE CardStep(d)
  <2>1. CASE /\ Pci!Goto(d, "ioremap", "vectors") /\ Pci!Takes(d, "hwmem")
             /\ drvdata' = [drvdata EXCEPT ![d] = TRUE] /\ UNCHANGED <<irq, leaks>>
    <3>1. /\ drvdata' \in [Devs -> BOOLEAN] /\ drvdata'[d] = TRUE
          /\ \A e \in Devs \ {d} : drvdata'[e] = drvdata[e]
      BY <1>0, <2>1 DEF PciTypes
    <3>2. /\ pci_pc' \in [Devs -> PciPlaces] /\ pci_pc[d] = "ioremap" /\ pci_pc'[d] = "vectors"
          /\ held' \in [Devs -> SUBSET Pci!Resources] /\ held'[d] = held[d] \cup {"hwmem"}
          /\ \A e \in Devs \ {d} : pci_pc'[e] = pci_pc[e] /\ held'[e] = held[e]
      BY <2>1, Succeeds DEF PciPlaces, Pci!Resources
    <3>3. PciTypes' /\ CardInv(d)'
      BY <1>0, <2>1, <3>1, <3>2 DEF PciTypes, CardInv
    <3>4. QED
      BY <2>1, <3>1, <3>2, <3>3 DEF CardStep
  <2>2. CASE Pci!Goto(d, "ioremap", "failed") /\ Pci!Fails(d, held[d] \ Pci!Released) /\ irq' = Pci!ReleaseIrq(d)
    BY <1>0, <2>2, FailsStep DEF PciPlaces, Pci!ReleaseIrq
  <2>3. QED
    BY <1>5, <2>1, <2>2 DEF Pci!Ioremap
<1>6. ASSUME Pci!AllocVectors(d) PROVE CardStep(d)
  <2>1. CASE Pci!Goto(d, "vectors", "irq") /\ Pci!Takes(d, "vectors") /\ UNCHANGED <<drvdata, leaks>>
    <3>1. /\ pci_pc' \in [Devs -> PciPlaces] /\ pci_pc[d] = "vectors" /\ pci_pc'[d] = "irq"
          /\ held' \in [Devs -> SUBSET Pci!Resources] /\ held'[d] = held[d] \cup {"vectors"}
          /\ \A e \in Devs \ {d} : pci_pc'[e] = pci_pc[e] /\ held'[e] = held[e]
      BY <2>1, Succeeds DEF PciPlaces, Pci!Resources
    <3>2. Pci!Resources \subseteq held'[d]
      BY <1>0, <3>1 DEF CardInv, Pci!Resources
    <3>3. irq' = irq /\ drvdata' = drvdata /\ leaks' = leaks
      BY <1>6, <2>1 DEF Pci!AllocVectors
    <3>4. PciTypes' /\ CardInv(d)'
      BY <1>0, <3>1, <3>2, <3>3 DEF PciTypes, CardInv
    <3>5. QED
      BY <3>1, <3>3, <3>4 DEF CardStep
  <2>2. CASE Pci!Goto(d, "vectors", "failed") /\ Pci!Fails(d, held[d])
    BY <1>0, <1>6, <2>2, FailsStep DEF Pci!AllocVectors, PciPlaces
  <2>3. QED
    BY <1>6, <2>1, <2>2 DEF Pci!AllocVectors
<1>7. ASSUME Pci!RequestIrq(d) PROVE CardStep(d)
  <2>1. CASE irq = {} /\ Pci!Goto(d, "irq", "bound") /\ irq' = {d} /\ UNCHANGED <<held, drvdata, leaks>>
    <3>1. /\ pci_pc' \in [Devs -> PciPlaces] /\ pci_pc[d] = "irq" /\ pci_pc'[d] = "bound"
          /\ \A e \in Devs \ {d} : pci_pc'[e] = pci_pc[e]
      BY <1>0, <2>1, GotoFacts DEF PciPlaces
    <3>2. QED
      BY <1>0, <2>1, <3>1 DEF PciTypes, CardStep, CardInv
  <2>2. CASE Pci!Goto(d, "irq", "failed") /\ Pci!Fails(d, held[d]) /\ irq' = irq
    BY <1>0, <2>2, FailsStep DEF PciPlaces
  <2>3. QED
    BY <1>7, <2>1, <2>2 DEF Pci!RequestIrq
<1>8. QED
  BY <1>1, <1>2, <1>3, <1>4, <1>5, <1>6, <1>7 DEF Probing

LEMMA RemoveStep ==
  ASSUME PciInv, NEW d \in Devs, Pci!Rescan(d) \/ Pci!Remove(d) \/ Pci!ReleaseDevice(d)
  PROVE  CardStep(d)
<1>0. PciTypes /\ CardInv(d) /\ held[d] \in SUBSET Pci!Resources
  BY DEF PciInv, PciTypes
<1>1. ASSUME Pci!Rescan(d) PROVE CardStep(d)
  BY <1>0, <1>1 DEF Pci!Rescan, Pci!Goto, PciTypes, PciPlaces, CardStep, CardInv
<1>2. ASSUME Pci!Remove(d) PROVE CardStep(d)
  <2>1. pci_pc[d] = "bound" /\ drvdata[d] = TRUE
    BY <1>0, <1>2 DEF Pci!Remove, Pci!Goto, CardInv
  <2>2. held' = [held EXCEPT ![d] = held[d] \ {"hwmem", "vectors", "drv_priv"}] /\ UNCHANGED <<irq, drvdata, leaks>>
    BY <1>0, <1>2, <2>1 DEF Pci!Remove, Pci!Drops
  <2>3. /\ pci_pc' \in [Devs -> PciPlaces] /\ pci_pc'[d] = "release"
        /\ \A e \in Devs \ {d} : pci_pc'[e] = pci_pc[e]
    BY <1>0, <1>2, GotoFacts DEF Pci!Remove, PciPlaces
  <2>4. held[d] \ {"hwmem", "vectors", "drv_priv"} \subseteq Pci!Released
    BY <1>0 DEF Pci!Resources, Pci!Released
  <2>5. QED
    BY <1>0, <2>1, <2>2, <2>3, <2>4 DEF PciTypes, CardStep, CardInv
<1>3. ASSUME Pci!ReleaseDevice(d) PROVE CardStep(d)
  <2>1. /\ irq' = irq \ {d} /\ held' = [held EXCEPT ![d] = held[d] \ Pci!Released]
        /\ drvdata' = [drvdata EXCEPT ![d] = FALSE] /\ leaks' = leaks
    BY <1>3 DEF Pci!ReleaseDevice, Pci!ReleaseIrq, Pci!Drops
  <2>2. /\ pci_pc' \in [Devs -> PciPlaces] /\ pci_pc[d] = "release" /\ pci_pc'[d] = "unbound"
        /\ \A e \in Devs \ {d} : pci_pc'[e] = pci_pc[e]
    BY <1>0, <1>3, GotoFacts DEF Pci!ReleaseDevice, PciPlaces
  <2>3. held[d] \ Pci!Released = {}
    BY <1>0, <2>2 DEF CardInv
  <2>4. QED
    BY <1>0, <2>1, <2>2, <2>3 DEF PciTypes, CardStep, CardInv
<1>4. QED
  BY <1>1, <1>2, <1>3

LEMMA PciStep == PciInv /\ Pci!Next => PciInv'
<1> SUFFICES ASSUME PciInv, Pci!Next PROVE PciInv'
  OBVIOUS
<1>1. CASE Pci!Register \/ Pci!Unregister
  BY <1>1 DEF Pci!Register, Pci!Unregister, PciInv, PciTypes, CardInv
<1>2. ASSUME NEW d \in Devs, Probing(d) PROVE PciInv'
  BY <1>2, ProbeStep, OneCard
<1>3. ASSUME NEW d \in Devs, Pci!Rescan(d) \/ Pci!Remove(d) \/ Pci!ReleaseDevice(d) PROVE PciInv'
  BY <1>3, RemoveStep, OneCard
<1>4. QED
  BY <1>1, <1>2, <1>3 DEF Pci!Next, Probing

-----------------------------------------------------------------------------
(* All of them together.                                                    *)

\* ---- mychardev.c ----

\* The nodes are those the loop of insmod has come past, or that of rmmod has
\* not, and a file is open only where the module can be used.
NodesOf(js) == {Chd!Dev(j) : j \in js}
ChdInv ==
  /\ chd_i \in Int
  /\ user \in [Users -> {"none", "lookup", "open", "past", "lost"}]
  /\ Chd!Going => ~ Chd!Referenced
  /\ chd_pc \in {"out", "class"} => nodes = {}
  /\ chd_pc = "class" => chd_i = 0
  /\ chd_pc \in {"add", "create"} => nodes \subseteq NodesOf(0 .. chd_i - 1)
  /\ chd_pc \in {"add", "create", "destroy"} => chd_i \in 0 .. Chd!MAX_DEV - 1
  /\ chd_pc = "live" => nodes \subseteq NodesOf(0 .. Chd!MAX_DEV - 1)
  /\ chd_pc = "destroy" => nodes \subseteq NodesOf(chd_i .. Chd!MAX_DEV - 1)
  /\ chd_pc = "forget" => nodes = {}

LEMMA ChdInit == Chd!Init => ChdInv
BY DEF Chd!Init, ChdInv, Chd!Referenced, Chd!Going

LEMMA ChdLoad == ChdInv /\ (Chd!Loading \/ Chd!Unloading) => ChdInv'
<1> SUFFICES ASSUME ChdInv, Chd!Loading \/ Chd!Unloading PROVE ChdInv'
  OBVIOUS
<1> USE DEF ChdInv, NodesOf, Chd!Goto, Chd!Going, Chd!Referenced, Chd!Dev, Chd!MAX_DEV
<1>1. CASE Chd!AllocRegion
  BY <1>1 DEF Chd!AllocRegion
<1>2. CASE Chd!ClassCreate
  BY <1>2 DEF Chd!ClassCreate, Chd!chd
<1>3. CASE Chd!CdevAdd
  BY <1>3 DEF Chd!CdevAdd
<1>4. CASE Chd!DeviceCreate
  BY <1>4, SMTT(30) DEF Chd!DeviceCreate
<1>5. CASE Chd!Rmmod
  BY <1>5 DEF Chd!Rmmod
<1>6. CASE Chd!DeviceDestroy
  BY <1>6, SMTT(30) DEF Chd!DeviceDestroy
<1>7. CASE Chd!UnregisterRegion
  BY <1>7 DEF Chd!UnregisterRegion
<1>8. QED
  BY <1>1, <1>2, <1>3, <1>4, <1>5, <1>6, <1>7 DEF Chd!Loading, Chd!Unloading

\* A process gets a file open only where the module is not going.
LEMMA ChdUse ==
  ASSUME ChdInv, NEW p \in Users, Chd!Lookup(p) \/ Chd!ChrdevOpen(p) \/ Chd!Read(p) \/ Chd!Release(p)
  PROVE  ChdInv'
<1> USE DEF ChdInv, Chd!Turns, Chd!chd
<1>1. UNCHANGED <<chd_pc, chd_i, dev_major, nodes>>
  BY DEF Chd!Lookup, Chd!ChrdevOpen, Chd!Read, Chd!Release
<1>2. user' \in [Users -> {"none", "lookup", "open", "past", "lost"}]
  BY DEF Chd!Lookup, Chd!ChrdevOpen, Chd!Read, Chd!Release
<1>3. ASSUME Chd!Going PROVE ~ Chd!Referenced'
  <2>1. user[p] \notin {"open", "past"} /\ \A q \in Users : user[q] \notin {"open", "past"}
    BY <1>3 DEF Chd!Referenced
  <2>2. user'[p] \notin {"open", "past"} /\ \A q \in Users \ {p} : user'[q] = user[q]
    BY <1>3, <2>1 DEF Chd!Lookup, Chd!ChrdevOpen, Chd!Read, Chd!Release
  <2>3. QED
    BY <2>1, <2>2 DEF Chd!Referenced
<1>4. NodesOf(0 .. chd_i - 1)' = NodesOf(0 .. chd_i - 1)
      /\ NodesOf(0 .. Chd!MAX_DEV - 1)' = NodesOf(0 .. Chd!MAX_DEV - 1)
      /\ NodesOf(chd_i .. Chd!MAX_DEV - 1)' = NodesOf(chd_i .. Chd!MAX_DEV - 1)
  BY <1>1 DEF NodesOf, Chd!Dev
<1>5. QED
  BY <1>1, <1>2, <1>3, <1>4 DEF Chd!Going

LEMMA ChdStep == ChdInv /\ Chd!Next => ChdInv'
BY ChdLoad, ChdUse DEF Chd!Next

ModulesInv == TimerInv /\ NlInv /\ PciInv /\ ChdInv

LEMMA ModulesInit == MCInit => ModulesInv
BY TimerInit, NlInit, PciInit, ChdInit DEF MCInit, ModulesInv

LEMMA Unmoved ==
  /\ TimerInv /\ UNCHANGED genlVars => TimerInv'
  /\ NlInv /\ UNCHANGED nlVars => NlInv'
  /\ PciInv /\ UNCHANGED pciVars => PciInv'
  /\ ChdInv /\ UNCHANGED chdVars => ChdInv'
<1>1. TimerInv /\ UNCHANGED genlVars => TimerInv'
  BY DEF TimerInv, genlVars
<1>2. NlInv /\ UNCHANGED nlVars => NlInv'
  BY DEF NlInv, NlTypes, UnitsInv, ProcInv, nlVars, Nl!HasSocket, Nl!Unit
<1>3. PciInv /\ UNCHANGED pciVars => PciInv'
  BY DEF PciInv, PciTypes, CardInv, pciVars
<1>4. ChdInv /\ UNCHANGED chdVars => ChdInv'
  BY DEF ChdInv, chdVars, NodesOf, Chd!Dev, Chd!Going, Chd!Referenced
<1>5. QED
  BY <1>1, <1>2, <1>3, <1>4

LEMMA ModulesStep == ModulesInv /\ [MCNext]_MCVars => ModulesInv'
<1> SUFFICES ASSUME ModulesInv, [MCNext]_MCVars PROVE ModulesInv'
  OBVIOUS
<1>1. (Ge!Next \/ UNCHANGED genlVars) /\ (Nl!Next \/ UNCHANGED nlVars) /\ (Pci!Next \/ UNCHANGED pciVars)
      /\ (Chd!Next \/ UNCHANGED chdVars)
  BY Zenon DEF MCNext, MCVars, OnMaple, OnGenl, OnNetlink, OnNetmon, OnRoute, OnPci, OnMyCharDev, OnRbTree
<1>2. QED
  BY <1>1, TimerStep, NlStep, PciStep, ChdStep, Unmoved, Zenon DEF ModulesInv

THEOREM ModulesCorrect == MCSpec => []ModulesInv
BY ModulesInit, ModulesStep, PTL DEF MCSpec

\* Neither the timer's callback nor an input function nor a file operation runs
\* once its module is gone, for any number of programs, loads and major numbers.
THEOREM NothingRunsLate == MCSpec => []NothingRunsWhenGone
<1>1. ModulesInv => NothingRunsWhenGone
  BY DEF ModulesInv, TimerInv, NlInv, ProcInv, NothingRunsWhenGone, Ge!TimerGone, Nl!InputHasModule, Nl!HasSocket,
            ChdInv, Chd!FilesHaveModule
<1>2. QED
  BY <1>1, ModulesCorrect, PTL

\* No program waits for a message that went past it, for any number of programs
\* and any queue.
THEOREM NoneIsPassedOver == MCSpec => []NobodyPassedOver
<1>1. ModulesInv => NobodyPassedOver
  <2> SUFFICES ASSUME NlInv, NEW p \in Procs, nl_pc[p] = "recvmsg", queue[p] = 0
               PROVE  IF prog[p] = "recv" THEN ~ multi[p] ELSE dropped[p] \/ sk[Nl!Unit(p)] = "test"
    BY DEF ModulesInv, NobodyPassedOver, Nl!NobodyPassedOver
  <2>1. ProcInv(p) /\ multi[p] \in BOOLEAN /\ dropped[p] \in BOOLEAN /\ ~ (queue[p] > 0)
    BY DEF NlInv, NlTypes
  <2>2. multi[p] # TRUE
    BY <2>1 DEF ProcInv
  <2>3. prog[p] # "recv" => dropped[p] = TRUE \/ sk[Nl!Unit(p)] = "test"
    BY <2>1 DEF ProcInv
  <2>4. QED
    BY <2>1, <2>2, <2>3, Zenon
<1>2. QED
  BY <1>1, ModulesCorrect, PTL

\* A bound card owns all it needs and an unbound one nothing but what a failed
\* probe kept, for any number of cards that share the interrupt.
THEOREM BoundCardsOwnAll == MCSpec => []BoundOwnsAll
<1>1. ModulesInv => BoundOwnsAll
  <2> SUFFICES ASSUME PciInv, NEW d \in Devs
               PROVE  /\ pci_pc[d] = "bound" => held[d] = Pci!Resources /\ irq = {d} /\ drvdata[d]
                      /\ pci_pc[d] \in {"unbound", "failed"} => d \notin irq /\ (leaks[d] \/ held[d] = {})
    BY DEF ModulesInv, BoundOwnsAll, Pci!BoundOwnsAll
  <2>1. CardInv(d) /\ held[d] \subseteq Pci!Resources
    BY DEF PciInv, PciTypes
  <2>2. pci_pc[d] = "bound" => held[d] = Pci!Resources /\ irq = {d} /\ drvdata[d] = TRUE
    BY <2>1 DEF CardInv
  <2>3. pci_pc[d] \in {"unbound", "failed"} => d \notin irq /\ (leaks[d] = TRUE \/ held[d] = {})
    BY <2>1 DEF CardInv
  <2>4. QED
    BY <2>2, <2>3, Zenon
<1>2. QED
  BY <1>1, ModulesCorrect, PTL

-----------------------------------------------------------------------------
(* Types in all of them.                                                    *)

LEMMA GenlTypes == Ge!TypeOK /\ Ge!Next => Ge!TypeOK'
<1> SUFFICES ASSUME Ge!TypeOK, Ge!Next PROVE Ge!TypeOK'
  OBVIOUS
<1>0. MaxLost \in Nat
  BY ModulesAssumption DEF Ge!GenlAssumption
<1> USE DEF Ge!TypeOK
<1>1. CASE Ge!Insmod \/ Ge!RegisterFamily \/ Ge!ErrorOut \/ Ge!InitializeTimer
  BY <1>1 DEF Ge!Insmod, Ge!RegisterFamily, Ge!ErrorOut, Ge!InitializeTimer
<1>2. CASE Ge!Fire \/ Ge!Callback
  <2>1. CASE Ge!Multicast
    <3>1. skb_lost' = skb_lost \/ (skb_lost < MaxLost /\ skb_lost' = skb_lost + 1)
      BY <2>1 DEF Ge!Multicast
    <3>2. skb_lost' \in 0 .. MaxLost
      BY <1>0, <3>1
    <3>3. QED
      BY <2>1, <3>2 DEF Ge!Multicast
  <2>2. CASE Ge!Fire \/ Ge!NewMessage \/ Ge!PutMessage \/ Ge!Rearm \/ Ge!CallbackReturns
    BY <2>2 DEF Ge!Fire, Ge!NewMessage, Ge!PutMessage, Ge!Rearm, Ge!CallbackReturns
  <2>3. QED
    BY <1>2, <2>1, <2>2 DEF Ge!Callback
<1>3. CASE Ge!Rmmod \/ Ge!DelTimerSync \/ Ge!UnregisterFamily
  BY <1>3 DEF Ge!Rmmod, Ge!DelTimerSync, Ge!UnregisterFamily
<1>4. QED
  BY <1>1, <1>2, <1>3 DEF Ge!Next

PciRest == loaded \in BOOLEAN /\ irq \subseteq Devs

LEMMA PciRestStep == PciInv /\ PciRest /\ Pci!Next => PciRest'
<1> SUFFICES ASSUME PciInv, PciRest, Pci!Next PROVE PciRest'
  OBVIOUS
<1>1. CASE Pci!Register \/ Pci!Unregister
  BY <1>1 DEF Pci!Register, Pci!Unregister, PciRest
<1>2. ASSUME NEW d \in Devs, Probing(d) \/ Pci!Rescan(d) \/ Pci!Remove(d) \/ Pci!ReleaseDevice(d) PROVE PciRest'
  <2>1. irq' \in {irq, irq \ {d}} \/ (irq = {} /\ irq' = {d})
    BY <1>2, ProbeStep, RemoveStep DEF CardStep
  <2>2. loaded' = loaded
    BY <1>2 DEF Probing, Pci!Probe, Pci!EnableDevice, Pci!RequestRegion, Pci!Kzalloc, Pci!Ioremap, Pci!AllocVectors,
                Pci!RequestIrq, Pci!Rescan, Pci!Remove, Pci!ReleaseDevice
  <2>3. QED
    BY <2>1, <2>2 DEF PciRest
<1>3. QED
  BY <1>1, <1>2 DEF Pci!Next, Probing

LEMMA ChdTypes == ChdInv /\ Chd!TypeOK /\ Chd!Next => Chd!TypeOK'
<1> SUFFICES ASSUME ChdInv, Chd!TypeOK, Chd!Next PROVE Chd!TypeOK'
  OBVIOUS
<1>0. MaxLoads \in Nat /\ Majors \subseteq Nat
  BY ModulesAssumption DEF Chd!MyCharDevAssumption
<1> USE DEF Chd!TypeOK, Chd!Goto, Chd!Garbage, Chd!MAX_DEV
<1>1. /\ chd_i \in Int /\ (chd_pc \in {"add", "create", "destroy"} => chd_i \in 0 .. 1)
      /\ chd_pc \in {"add", "create", "destroy"} => Chd!Dev(chd_i) \in Chd!Numbers
  BY DEF ChdInv, Chd!Dev, Chd!Numbers
<1>2. CASE Chd!AllocRegion
  <2>1. loads' \in 0 .. MaxLoads
    BY <1>0, <1>2 DEF Chd!AllocRegion
  <2>2. QED
    BY <1>2, <2>1 DEF Chd!AllocRegion, Chd!Numbers
<1>3. CASE Chd!ClassCreate
  BY <1>3 DEF Chd!ClassCreate, Chd!chd, Chd!Numbers
<1>4. CASE Chd!CdevAdd
  BY <1>1, <1>4 DEF Chd!CdevAdd, Chd!Numbers
<1>5. CASE Chd!DeviceCreate
  BY <1>1, <1>5 DEF Chd!DeviceCreate, Chd!Numbers
<1>6. CASE Chd!Rmmod
  BY <1>6 DEF Chd!Rmmod, Chd!Numbers
<1>7. CASE Chd!DeviceDestroy
  BY <1>1, <1>7 DEF Chd!DeviceDestroy, Chd!Numbers
<1>8. CASE Chd!UnregisterRegion
  BY <1>8 DEF Chd!UnregisterRegion, Chd!Numbers
<1>9. ASSUME NEW p \in Users, Chd!Lookup(p) \/ Chd!ChrdevOpen(p) \/ Chd!Read(p) \/ Chd!Release(p)
      PROVE  Chd!TypeOK'
  <2>1. UNCHANGED <<chd_pc, Chd!chd>>
    BY <1>9 DEF Chd!Lookup, Chd!ChrdevOpen, Chd!Read, Chd!Release, Chd!Turns
  <2>2. user' \in [Users -> {"none", "lookup", "open", "past", "lost"}]
    BY <1>9 DEF Chd!Lookup, Chd!ChrdevOpen, Chd!Read, Chd!Release, Chd!Turns
  <2>3. Chd!NoNumber \in Chd!Numbers
    BY DEF Chd!NoNumber, Chd!Numbers
  <2>4. number' \in [Users -> Chd!Numbers]
    BY <1>9, <2>3 DEF Chd!Lookup, Chd!ChrdevOpen, Chd!Read, Chd!Release
  <2>5. QED
    BY <2>1, <2>2, <2>4 DEF Chd!chd, Chd!Numbers
<1>10. QED
  BY <1>2, <1>3, <1>4, <1>5, <1>6, <1>7, <1>8, <1>9 DEF Chd!Next, Chd!Loading, Chd!Unloading

\* A cursor of the maple tree, and what the calls make of it.
Cursor(c) ==
  /\ c = [index |-> c.index, last |-> c.last, node |-> c.node, entry |-> c.entry]
  /\ c.node \in {"start", "active", "pause", "none", "stale"}

LEMMA CursorOps ==
  ASSUME NEW c, Cursor(c), NEW t, NEW m
  PROVE  /\ Cursor(mas_reset(c)) /\ Cursor(Released(c)) /\ Cursor(Released(mas_pause(c))) /\ Cursor(mas_pause(c))
         /\ Cursor(mas_walk(t, c)) /\ Cursor(mas_next(t, c, m)) /\ Cursor(mas_prev(t, c, m))
         /\ Cursor(mas_find(t, c, m)) /\ Cursor(mas_find_rev(t, c, m))
<1>1. \A i, j : Cursor(mas_set_range(i, j)) /\ Cursor(OffTheEnd(i))
  BY DEF Cursor, mas_set_range, OffTheEnd
<1>2. \A r : Cursor(OnRange(r))
  BY DEF Cursor, OnRange
<1>3. \A d : Cursor(mas_walk(t, d))
  BY <1>2 DEF Cursor, mas_walk
<1>4. \A d : Cursor(mas_next(t, d, m)) /\ Cursor(mas_prev(t, d, m))
  BY <1>1, <1>2 DEF mas_next, mas_prev
<1>5. \A d, n : d = [index |-> d.index, last |-> d.last, node |-> d.node, entry |-> d.entry]
             => [d EXCEPT !.node = n] = [index |-> d.index, last |-> d.last, node |-> n, entry |-> d.entry]
  OBVIOUS
<1>6. \A d : Cursor(d) => Cursor(mas_reset(d)) /\ Cursor(mas_pause(d)) /\ Cursor(Released(d))
  BY <1>5 DEF Cursor, mas_reset, mas_pause, Released
<1>7. Cursor(mas_find(t, c, m)) /\ Cursor(mas_find_rev(t, c, m))
  BY <1>1, <1>3, <1>4 DEF mas_find, mas_find_rev
<1>8. QED
  BY <1>3, <1>4, <1>6, <1>7

MtRest == Cursor(mas) /\ {alloc, rcu, lock, passed} \subseteq BOOLEAN /\ index \in Nat /\ loop \in Nat

LEMMA MtRestStep == ASSUME MtInv, MtRest, MtNext PROVE MtRest'
<1>0. TestStep /\ Ranges(tree) /\ step \in Nat \ {0} /\ todo = CallAt(step)
  BY DEF MtNext, MtInv
<1>1. ASSUME NEW b, MT_BUG_ON(b) PROVE passed' \in BOOLEAN
  BY <1>1, Zenon DEF MT_BUG_ON
<1>2. passed' \in BOOLEAN
  <2>1. CASE passed' = passed
    BY <2>1 DEF MtRest
  <2>2. ASSUME NEW e, Round(e) PROVE passed' \in BOOLEAN
    BY <1>1, <2>2, <2>1 DEF Round
  <2>3. CASE MtreeInsert \/ MtreeStore \/ MtreeErase \/ MtreeAlloc \/ MtreeAllocRev
    BY <1>1, <2>3 DEF MtreeInsert, MtreeStore, MtreeErase, MtreeAlloc, MtreeAllocRev, TreeCall
  <2>4. CASE CheckLoad \/ CheckOwnLoad \/ CheckEmpty \/ CheckHeight \/ CheckOn \/ CheckOnEither \/ CheckTimes \/ CheckAtMost \/ MtFind
    BY <1>1, <2>4 DEF CheckLoad, CheckOwnLoad, CheckEmpty, CheckHeight, CheckOn, CheckOnEither, CheckTimes, CheckAtMost, MtFind, Look
  <2>5. CASE \/ MasSet \/ MasReset \/ MasWalk \/ MasNext \/ MasPrev \/ MasFind \/ MasFindRev
             \/ MasEmptyAreaUp \/ MasEmptyAreaDown
    BY <1>1, <2>5 DEF MasSet, MasReset, MasWalk, MasNext, MasPrev, MasFind, MasFindRev, Move,
                      MasEmptyAreaUp, MasEmptyAreaDown, MasEmptyArea
  <2>6. CASE MasForEach \/ MasForEachPausing \/ MtForEachRound \/ MasFork
    BY <2>2, <2>6 DEF MasForEach, MasForEachPausing, MtForEachRound, MasFork
  <2>7. CASE \/ MtInitFlags \/ MtreeDestroy \/ MasStoreGfp \/ MasErase \/ RcuReadLock \/ RcuReadUnlock
             \/ MasLock \/ MasUnlock \/ StartLoop \/ NewTree
    BY <2>1, <2>7 DEF MtInitFlags, MtreeDestroy, MasStoreGfp, MasErase, RcuReadLock, RcuReadUnlock, MasLock, MasUnlock,
                      StartLoop, NewTree
  <2>8. QED
    BY <1>0, <2>3, <2>4, <2>5, <2>6, <2>7 DEF TestStep
<1>3. Cursor(mas')
  <2>0. Cursor(mas) /\ \A t, m : /\ Cursor(mas_reset(mas)) /\ Cursor(Released(mas))
                                 /\ Cursor(mas_walk(t, mas)) /\ Cursor(mas_next(t, mas, m)) /\ Cursor(mas_prev(t, mas, m))
                                 /\ Cursor(mas_find(t, mas, m)) /\ Cursor(mas_find_rev(t, mas, m))
    BY CursorOps DEF MtRest
  <2>1. CASE mas' = mas
    BY <2>0, <2>1
  <2>2. CASE MasSet
    BY <2>2 DEF MasSet, Move, Cursor, mas_set_range
  <2>3. CASE MasReset \/ MasWalk \/ MasNext \/ MasPrev \/ MasFind \/ MasFindRev
    BY <2>0, <2>3 DEF MasReset, MasWalk, MasNext, MasPrev, MasFind, MasFindRev, Move
  <2>4. CASE MasEmptyAreaUp \/ MasEmptyAreaDown
    <3>1. PICK i, j : mas' = [mas EXCEPT !.index = i, !.last = j, !.node = "active"]
      BY <2>4 DEF MasEmptyAreaUp, MasEmptyAreaDown, MasEmptyArea
    <3>2. mas' = [index |-> i, last |-> j, node |-> "active", entry |-> mas.entry]
      BY <2>0, <3>1 DEF Cursor
    <3>3. QED
      BY <3>2 DEF Cursor
  <2>5. CASE MasStoreGfp
    BY <2>5 DEF MasStoreGfp, Cursor
  <2>6. CASE MasErase \/ RcuReadUnlock \/ MasUnlock
    BY <2>0, <2>6 DEF MasErase, RcuReadUnlock, MasUnlock
  <2>7. CASE MasForEach \/ MasFork
    BY <2>0, <2>7 DEF MasForEach, MasFork
  <2>8. CASE MasForEachPausing
    <3> DEFINE found == mas_find(tree, mas, todo.b)
    <3>1. Cursor(found)
      BY <2>0
    <3>2. mas' \in {found, Released(mas_pause(found)), mas_pause(found)}
      BY <2>8 DEF MasForEachPausing
    <3> HIDE DEF found
    <3>3. QED
      BY <3>1, <3>2, CursorOps
  <2>9. CASE \/ MtreeInsert \/ MtreeStore \/ MtreeErase \/ MtreeAlloc \/ MtreeAllocRev \/ MtInitFlags \/ MtreeDestroy
             \/ CheckLoad \/ CheckOwnLoad \/ CheckEmpty \/ CheckHeight \/ CheckOn \/ CheckOnEither \/ CheckTimes \/ CheckAtMost \/ MtFind
    BY <2>1, <2>9 DEF MtreeInsert, MtreeStore, MtreeErase, MtreeAlloc, MtreeAllocRev, TreeCall, MtInitFlags, MtreeDestroy,
                      CheckLoad, CheckOwnLoad, CheckEmpty, CheckHeight, CheckOn, CheckOnEither, CheckTimes, CheckAtMost, MtFind, Look
  <2>10. CASE RcuReadLock \/ MasLock \/ StartLoop \/ NewTree \/ MtForEachRound
    BY <2>1, <2>10 DEF RcuReadLock, MasLock, StartLoop, NewTree, MtForEachRound
  <2>11. QED
    BY <1>0, <2>2, <2>3, <2>4, <2>5, <2>6, <2>7, <2>8, <2>9, <2>10 DEF TestStep
<1>4. loop' \in Nat /\ {alloc', rcu', lock'} \subseteq BOOLEAN
  <2>1. ASSUME NEW e, Round(e) PROVE loop' \in Nat
    BY <2>1 DEF Round, MtRest
  <2>2. CASE MasForEach \/ MasForEachPausing \/ MtForEachRound \/ MasFork
    BY <2>1, <2>2 DEF MasForEach, MasForEachPausing, MtForEachRound, MasFork, MtRest
  <2>3. CASE MtInitFlags
    BY <1>0, <2>3, CallFacts DEF MtInitFlags, Is, MtRest
  <2>4. CASE MtreeInsert \/ MtreeStore \/ MtreeErase \/ MtreeAlloc \/ MtreeAllocRev \/ MtreeDestroy
    BY <2>4 DEF MtreeInsert, MtreeStore, MtreeErase, MtreeAlloc, MtreeAllocRev, TreeCall, MtreeDestroy, MtRest
  <2>5. CASE CheckLoad \/ CheckOwnLoad \/ CheckEmpty \/ CheckHeight \/ CheckOn \/ CheckOnEither \/ CheckTimes \/ CheckAtMost \/ MtFind
    BY <2>5 DEF CheckLoad, CheckOwnLoad, CheckEmpty, CheckHeight, CheckOn, CheckOnEither, CheckTimes, CheckAtMost, MtFind, Look, MtRest
  <2>6. CASE \/ MasSet \/ MasReset \/ MasWalk \/ MasNext \/ MasPrev \/ MasFind \/ MasFindRev
             \/ MasEmptyAreaUp \/ MasEmptyAreaDown
    BY <2>6 DEF MasSet, MasReset, MasWalk, MasNext, MasPrev, MasFind, MasFindRev, Move,
                MasEmptyAreaUp, MasEmptyAreaDown, MasEmptyArea, MtRest
  <2>7. CASE MasStoreGfp \/ MasErase \/ RcuReadLock \/ RcuReadUnlock \/ MasLock \/ MasUnlock
    BY <2>7 DEF MasStoreGfp, MasErase, RcuReadLock, RcuReadUnlock, MasLock, MasUnlock, MtRest
  <2>8. CASE StartLoop \/ NewTree
    BY <2>8 DEF StartLoop, NewTree, MtRest
  <2>9. QED
    BY <1>0, <2>2, <2>3, <2>4, <2>5, <2>6, <2>7, <2>8 DEF TestStep
<1>5. index' \in Nat
  <2>1. CASE index' = index
    BY <2>1 DEF MtRest
  <2>2. CASE MtForEachRound
    <3>1. mt_find(tree, index, todo.b).index \in Nat
      <4> DEFINE next == {r \in tree : r.last >= index /\ r.first <= todo.b /\ r.entry # XA_ZERO_ENTRY}
                 r0 == CHOOSE r \in next : \A s \in next : r.first <= s.first
      <4>1. next # {} => r0 \in next
        <5>1. next \subseteq tree
          OBVIOUS
        <5> HIDE DEF next
        <5>2. next # {} => \E r \in next : \A s \in next : r.first <= s.first
          BY <1>0, <5>1, FirstOf
        <5>3. QED
          BY <5>2
      <4>2. next # {} => r0.last \in Nat
        BY <1>0, <4>1, RngIs DEF Ranges
      <4>3. mt_find(tree, index, todo.b).index =
              IF next = {} THEN index ELSE IF r0.last = ULONG_MAX THEN 0 ELSE r0.last + 1
        BY DEF mt_find
      <4> HIDE DEF next, r0
      <4>4. QED
        BY <4>2, <4>3 DEF MtRest
    <3>2. QED
      BY <2>2, <3>1 DEF MtForEachRound
  <2>3. CASE StartLoop
    BY <2>3 DEF StartLoop
  <2>4. CASE \/ MtreeInsert \/ MtreeStore \/ MtreeErase \/ MtreeAlloc \/ MtreeAllocRev \/ MtInitFlags \/ MtreeDestroy
             \/ CheckLoad \/ CheckOwnLoad \/ CheckEmpty \/ CheckHeight \/ CheckOn \/ CheckOnEither \/ CheckTimes \/ CheckAtMost \/ MtFind
    BY <2>1, <2>4 DEF MtreeInsert, MtreeStore, MtreeErase, MtreeAlloc, MtreeAllocRev, TreeCall, MtInitFlags, MtreeDestroy,
                      CheckLoad, CheckOwnLoad, CheckEmpty, CheckHeight, CheckOn, CheckOnEither, CheckTimes, CheckAtMost, MtFind, Look
  <2>5. CASE \/ MasSet \/ MasReset \/ MasWalk \/ MasNext \/ MasPrev \/ MasFind \/ MasFindRev
             \/ MasEmptyAreaUp \/ MasEmptyAreaDown
    BY <2>1, <2>5 DEF MasSet, MasReset, MasWalk, MasNext, MasPrev, MasFind, MasFindRev, Move,
                      MasEmptyAreaUp, MasEmptyAreaDown, MasEmptyArea
  <2>6. CASE \/ MasStoreGfp \/ MasErase \/ RcuReadLock \/ RcuReadUnlock \/ MasLock \/ MasUnlock \/ NewTree
             \/ MasForEach \/ MasForEachPausing \/ MasFork
    BY <2>1, <2>6 DEF MasStoreGfp, MasErase, RcuReadLock, RcuReadUnlock, MasLock, MasUnlock, NewTree,
                      MasForEach, MasForEachPausing, MasFork
  <2>7. QED
    BY <1>0, <2>2, <2>3, <2>4, <2>5, <2>6 DEF TestStep
<1>6. QED
  BY <1>2, <1>3, <1>4, <1>5 DEF MtRest, Cursor

TypesInv == Ge!TypeOK /\ PciRest /\ Chd!TypeOK /\ MtRest

LEMMA TypesInit == MCInit => TypesInv
<1> SUFFICES ASSUME MCInit PROVE TypesInv
  OBVIOUS
<1>1. Ge!TypeOK
  <2>1. MaxLost \in Nat
    BY ModulesAssumption DEF Ge!GenlAssumption
  <2>2. genl_pc = "out" /\ family = FALSE /\ error = FALSE /\ timer = "idle" /\ rearmed = FALSE /\ skb_lost = 0
    BY DEF MCInit, Ge!Init
  <2>3. skb_lost \in 0 .. MaxLost
    BY <2>1, <2>2
  <2>4. QED
    BY <2>2, <2>3 DEF Ge!TypeOK
<1>2. PciRest
  BY DEF MCInit, Pci!Init, PciRest
<1>3. Chd!TypeOK
  <2>1. MaxLoads \in Nat
    BY ModulesAssumption DEF Chd!MyCharDevAssumption
  <2>2. QED
    BY <2>1 DEF MCInit, Chd!Init, Chd!TypeOK, Chd!MAX_DEV, Chd!Garbage, Chd!NoNumber, Chd!Numbers
<1>4. MtRest
  BY DEF MCInit, MtInit, MtRest, Cursor, mas_set_range
<1>5. QED
  BY <1>1, <1>2, <1>3, <1>4 DEF TypesInv

LEMMA TypesStep == ModulesInv /\ MtInv /\ TypesInv /\ [MCNext]_MCVars => TypesInv'
<1> SUFFICES ASSUME ModulesInv, MtInv, TypesInv, [MCNext]_MCVars PROVE TypesInv'
  OBVIOUS
<1>1. (Ge!Next \/ UNCHANGED genlVars) /\ (Pci!Next \/ UNCHANGED pciVars) /\ (Chd!Next \/ UNCHANGED chdVars)
      /\ (MtNext \/ UNCHANGED vars)
  BY Zenon DEF MCNext, MCVars, OnMaple, OnGenl, OnNetlink, OnNetmon, OnRoute, OnPci, OnMyCharDev, OnRbTree
<1>2. UNCHANGED genlVars => Ge!TypeOK'
  BY DEF TypesInv, genlVars, Ge!TypeOK
<1>3. UNCHANGED pciVars => PciRest'
  BY DEF TypesInv, pciVars, PciRest
<1>4. UNCHANGED chdVars => Chd!TypeOK'
  BY DEF TypesInv, chdVars, Chd!TypeOK, Chd!Garbage, Chd!Numbers
<1>5. UNCHANGED vars => MtRest'
  BY DEF TypesInv, vars, MtRest, Cursor
<1>6. QED
  BY <1>1, <1>2, <1>3, <1>4, <1>5, GenlTypes, PciRestStep, ChdTypes, MtRestStep, Zenon DEF ModulesInv, TypesInv

\* Types, for any values of the constants: above all a receive queue never
\* outgrows its socket's buffer (netlink_multicast.c:146, netlink_unicast.c:56),
\* and the ranges of a maple tree stay within the indexes there are.
THEOREM ModulesTypes == MCSpec => []ModulesTypesOK
<1>1. MCSpec => []TypesInv
  BY TypesInit, TypesStep, ModulesCorrect, MtAlways, PTL DEF MCSpec
<1>2. ModulesInv /\ MtInv /\ MonInv /\ RouteInv /\ TypesInv => ModulesTypesOK
  <2> SUFFICES ASSUME ModulesInv, MtInv, MonInv, RouteInv, TypesInv PROVE ModulesTypesOK
    OBVIOUS
  <2>1. MtTypeOK
    <3>1. step \in Nat \ {0} /\ tree \subseteq Rng /\ newmt \subseteq Rng
          /\ \A r \in tree \cup newmt : r.first <= r.last
      BY DEF MtInv, Ranges
    <3>2. \A r \in tree \cup newmt : 0 <= r.first /\ r.first <= r.last /\ r.last <= ULONG_MAX /\ r.entry # NULL
      BY <3>1, RngIs
    <3>3. QED
      BY <3>1, <3>2 DEF TypesInv, MtRest, Cursor, MtTypeOK
  <2>2. Nl!TypeOK
    BY DEF ModulesInv, NlInv, NlTypes, Places, Nl!TypeOK
  <2>3. Pci!TypeOK
    BY DEF ModulesInv, PciInv, PciTypes, PciPlaces, TypesInv, PciRest, Pci!TypeOK
  <2>4. Mon!TypeOK
    BY DEF MonInv, Mon!TypeOK
  <2>5. QED
    BY <2>1, <2>2, <2>3, <2>4 DEF TypesInv, RouteInv, ModulesTypesOK
<1>3. QED
  BY <1>1, <1>2, ModulesCorrect, MtAlways, MonAlways, RouteAlways, PTL

\* How many steps the timer's callback has left, 0 when it is not running.
CallbackLeft ==
  IF timer = "new" THEN 5 ELSE IF timer = "put" THEN 4 ELSE IF timer = "multicast" THEN 3
  ELSE IF timer = "end" THEN (IF rearmed THEN 1 ELSE 2) ELSE 0

\* Where hello_exit waits in del_timer_sync.
DelTimerWaits ==
  genl_pc = "stop" => IF Ge!Running THEN CallbackLeft \in 1 .. 5 ELSE timer = "pending" /\ CallbackLeft = 0

\* What can happen while it waits: it takes the timer out between two rounds, the
\* callback gets nearer to its end, or another round begins.  Behind it nothing moves
\* but rmmod, and nothing puts the timer back.
DelTimerGoesOn ==
  /\ genl_pc = "stop" =>
       \/ UNCHANGED genlVars
       \/ ~ Ge!Running /\ genl_pc' = "forget" /\ timer' = "idle"
       \/ genl_pc' = "stop" /\ CallbackLeft' < CallbackLeft
       \/ genl_pc' = "stop" /\ timer = "pending" /\ CallbackLeft' = 5
  /\ genl_pc = "forget" => UNCHANGED genlVars \/ (genl_pc' = "out" /\ timer' = "idle" /\ ~ family')

\* del_timer_sync always finds the timer pending or a callback with at most five
\* steps to go, although the callback puts the timer back itself (genl_multicast.c:160
\* and 209): the safety half of UnloadCompletes.
THEOREM UnloadCanGoOn == MCSpec => []DelTimerWaits
<1>1. TimerInv /\ Ge!TypeOK => DelTimerWaits
  BY DEF TimerInv, Ge!TypeOK, DelTimerWaits, Ge!Running, CallbackLeft
<1>2. MCSpec => []Ge!TypeOK
  <2>1. MCSpec => []ModulesTypesOK
    BY ModulesTypes
  <2>2. ModulesTypesOK => Ge!TypeOK
    BY DEF ModulesTypesOK
  <2>3. QED
    BY <2>1, <2>2, PTL
<1>3. ModulesInv => TimerInv
  BY DEF ModulesInv
<1>4. QED
  BY <1>1, <1>2, <1>3, ModulesCorrect, PTL

\* And no step but a new round of the timer takes rmmod further away from its end:
\* it is for those rounds, two seconds apart, that UnloadCompletes assumes strong
\* fairness of del_timer_sync (genl_multicast.c:207-212).
THEOREM UnloadGetsCloser == MCSpec => [][DelTimerGoesOn]_MCVars
<1>1. ASSUME TimerInv, Ge!Next PROVE DelTimerGoesOn
  <2> USE DEF DelTimerGoesOn, CallbackLeft, Ge!Running, TimerInv, genlVars
  <2>1. CASE Ge!Insmod \/ Ge!RegisterFamily \/ Ge!ErrorOut \/ Ge!InitializeTimer
    BY <2>1 DEF Ge!Insmod, Ge!RegisterFamily, Ge!ErrorOut, Ge!InitializeTimer
  <2>2. CASE Ge!Fire
    BY <1>1, <2>2 DEF Ge!Fire
  <2>3. CASE Ge!Callback
    <3>1. timer' \in {"put", "multicast", "end", "pending"} /\ genl_pc' = genl_pc /\ genl_pc # "forget"
      BY <1>1, <2>3 DEF Ge!Callback, Ge!NewMessage, Ge!PutMessage, Ge!Multicast, Ge!Rearm, Ge!CallbackReturns
    <3>2. CallbackLeft' < CallbackLeft
      BY <2>3 DEF Ge!Callback, Ge!NewMessage, Ge!PutMessage, Ge!Multicast, Ge!Rearm, Ge!CallbackReturns
    <3>3. QED
      BY <3>1, <3>2
  <2>4. CASE Ge!Rmmod \/ Ge!DelTimerSync \/ Ge!UnregisterFamily
    BY <1>1, <2>4 DEF Ge!Rmmod, Ge!DelTimerSync, Ge!UnregisterFamily
  <2>5. QED
    BY <1>1, <2>1, <2>2, <2>3, <2>4 DEF Ge!Next
<1>2. ASSUME UNCHANGED genlVars PROVE DelTimerGoesOn
  BY <1>2 DEF DelTimerGoesOn, genlVars
<1>3. [MCNext]_MCVars => Ge!Next \/ UNCHANGED genlVars
  BY Zenon DEF MCNext, MCVars, OnMaple, OnGenl, OnNetlink, OnNetmon, OnRoute, OnPci, OnMyCharDev, OnRbTree
<1>4. ModulesInv /\ [MCNext]_MCVars => DelTimerGoesOn
  BY <1>1, <1>2, <1>3 DEF ModulesInv
<1>5. QED
  BY <1>4, ModulesCorrect, PTL DEF MCSpec
=============================================================================
