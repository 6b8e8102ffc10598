------------------------------ MODULE NlModules -------------------------------
(* The netlink modules netlink_multicast.c (unit 31), netlink_unicast.c and  *)
(* netlink_test.c (both unit 25), and the programs that talk to them.  A     *)
(* module's input function runs inside its caller's sendmsg.  The texts are  *)
(* left out; a queue holds as many messages as its socket's buffer takes.    *)
(* Operators named Slip... are wrong variants of the operator they precede;  *)
(* they document which mistake each property is able to notice.              *)
EXTENDS Naturals, FiniteSets

CONSTANTS
  Procs,         \* processes, each with its own port id
  QueueLength    \* messages a socket's receive buffer holds

\* What is assumed of it.
NlModulesAssumption == QueueLength \in Nat \ {0}

VARIABLES
  sk,        \* for each unit, the module that owns its kernel socket, or "none"
  prog,      \* what each process runs
  nl_pc,     \* and where it is
  port,      \* the port id is bound to the process's socket
  groups,    \* the multicast groups its socket is in
  queue,     \* messages waiting at its socket
  multi,     \* a multicast was sent while it waited for one
  dropped    \* its message could not be sent, or the answer to it not be allocated

vars == <<sk, prog, nl_pc, port, groups, queue, multi, dropped>>
user == <<prog, nl_pc, port, groups, queue, multi, dropped>>

NETLINK_TEST_PROTOCOL == 31
NETLINK_TESTFAMILY == 25
MCAST_GROUP_ID == 16
Units == {NETLINK_TESTFAMILY, NETLINK_TEST_PROTOCOL}

Modules == {"multicast", "unicast", "test"}
UnitOf(m) == IF m = "multicast" THEN NETLINK_TEST_PROTOCOL ELSE NETLINK_TESTFAMILY

\* The programs, with the unit that each opens a socket on.
Programs == {"sender", "recv", "um_unicast", "um_test"}
Unit(p) == IF prog[p] \in {"sender", "recv"} THEN NETLINK_TEST_PROTOCOL ELSE NETLINK_TESTFAMILY

HasSocket(p) == nl_pc[p] \notin {"none", "start", "exited"}

Init ==
  /\ sk = [u \in Units |-> "none"]
  /\ prog = [p \in Procs |-> "um_test"] /\ nl_pc = [p \in Procs |-> "none"]
  /\ port = [p \in Procs |-> FALSE] /\ groups = [p \in Procs |-> {}]
  /\ queue = [p \in Procs |-> 0] /\ multi = [p \in Procs |-> FALSE]
  /\ dropped = [p \in Procs |-> FALSE]

\* ---- the kernel modules ----

\* netlink_kernel_create fails, and insmod with it, where the unit has its
\* kernel socket, or for want of memory.
NlInsmod(m) ==
  /\ sk[UnitOf(m)] = "none"
  /\ sk' = [sk EXCEPT ![UnitOf(m)] = m]
  /\ UNCHANGED user

\* netlink_kernel_release.  Every socket a program opened on the unit holds the module.
NlRmmod(m) ==
  /\ sk[UnitOf(m)] = m
  /\ \A p \in Procs : HasSocket(p) => Unit(p) # UnitOf(m)
  /\ sk' = [sk EXCEPT ![UnitOf(m)] = "none"]
  /\ UNCHANGED user

SlipQueued(p, n) == queue[p] + n
Queued(p, n) == IF queue[p] < QueueLength THEN queue[p] + n ELSE queue[p]

\* netlink_recv_msg_fn: whatever came in, one multicast to the group, unless
\* there is no memory for it; a socket whose buffer is full misses it.
netlink_recv_msg_fn(p) ==
  /\ sk[Unit(p)] = "multicast"
  /\ \E alloc \in BOOLEAN :
       LET heard == {q \in Procs : alloc /\ MCAST_GROUP_ID \in groups[q]}
       IN  /\ queue' = [q \in Procs |-> IF q \in heard THEN Queued(q, 1) ELSE queue[q]]
           /\ multi' = [q \in Procs |-> multi[q] \/ (alloc /\ prog[q] = "recv" /\ nl_pc[q] = "recvmsg")]
  /\ UNCHANGED dropped

\* test_nl_receive_message of netlink_unicast.c: the answer goes to the port id
\* in the message, which is the sender's process id.
test_nl_receive_message(p) ==
  /\ sk[Unit(p)] = "unicast"
  /\ \E alloc \in BOOLEAN :
       /\ queue' = [queue EXCEPT ![p] = IF alloc /\ port[p] THEN Queued(p, 1) ELSE @]
       /\ dropped' = [dropped EXCEPT ![p] = ~ alloc]
  /\ UNCHANGED multi

\* That of netlink_test.c only writes to the log.
test_nl_receive_only(p) ==
  /\ sk[Unit(p)] = "test"
  /\ UNCHANGED <<queue, multi, dropped>>

\* ---- the programs ----

Goto(p, to) == nl_pc' = [nl_pc EXCEPT ![p] = to]

\* A process starts one of the programs.
Exec(p) ==
  /\ nl_pc[p] = "none"
  /\ \E to \in Programs : prog' = [prog EXCEPT ![p] = to]
  /\ Goto(p, "start")
  /\ UNCHANGED <<sk, port, groups, queue, multi, dropped>>

\* socket(): an error where no module is behind the unit, or for want of memory.
OpenSocket(p) ==
  /\ nl_pc[p] = "start"
  /\ \/ Goto(p, "exited")
     \/ sk[Unit(p)] # "none" /\ Goto(p, IF prog[p] \in {"recv", "um_unicast"} THEN "bind" ELSE "sendmsg")
  /\ UNCHANGED <<sk, prog, port, groups, queue, multi, dropped>>

\* The lowest n groups are a bit mask in bind: the 16 of the receiver's nl_groups is group 5.
MaskGroups(mask) == {g \in 1 .. 8 : (mask \div 2^(g - 1)) % 2 = 1}

\* bind() may fail: the receiver ends, um_unicast does not look.
Bind(p) ==
  /\ nl_pc[p] = "bind"
  /\ \E bound \in BOOLEAN :
       /\ port' = [port EXCEPT ![p] = bound]
       /\ groups' = [groups EXCEPT ![p] = IF bound /\ prog[p] = "recv" THEN MaskGroups(MCAST_GROUP_ID) ELSE {}]
       /\ Goto(p, IF prog[p] # "recv" THEN "sendmsg" ELSE IF bound THEN "setsockopt" ELSE "close")
  /\ UNCHANGED <<sk, prog, queue, multi, dropped>>

\* NETLINK_ADD_MEMBERSHIP, by the group's number; the receiver ends where it fails.
SlipJoinByMask(p) ==
  /\ nl_pc[p] = "setsockopt"
  /\ groups' = [groups EXCEPT ![p] = @ \cup MaskGroups(MCAST_GROUP_ID)]
  /\ Goto(p, "recvmsg")
  /\ UNCHANGED <<sk, prog, port, queue, multi, dropped>>

Join(p) ==
  /\ nl_pc[p] = "setsockopt"
  /\ \/ groups' = [groups EXCEPT ![p] = @ \cup {MCAST_GROUP_ID}] /\ Goto(p, "recvmsg")
     \/ Goto(p, "close") /\ UNCHANGED groups
  /\ UNCHANGED <<sk, prog, port, queue, multi, dropped>>

\* Where a program that has sent its message goes on, whether it arrived or not.
AfterSending(p) == IF prog[p] = "um_unicast" THEN "recvmsg" ELSE "close"

\* sendmsg to the kernel: a socket without a port id takes the process id, and
\* the input function of the module behind the unit runs at once.
SendMsg(p) ==
  /\ nl_pc[p] = "sendmsg"
  /\ Goto(p, "input")
  /\ port' = [port EXCEPT ![p] = TRUE]
  /\ UNCHANGED <<sk, prog, groups, queue, multi, dropped>>

\* It fails, for want of memory, and none of the programs looks.
SendMsgFails(p) ==
  /\ nl_pc[p] = "sendmsg"
  /\ Goto(p, AfterSending(p))
  /\ dropped' = [dropped EXCEPT ![p] = TRUE]
  /\ port' \in {port, [port EXCEPT ![p] = TRUE]}
  /\ UNCHANGED <<sk, prog, groups, queue, multi>>

Input(p) ==
  /\ nl_pc[p] = "input"
  /\ netlink_recv_msg_fn(p) \/ test_nl_receive_message(p) \/ test_nl_receive_only(p)
  /\ Goto(p, AfterSending(p))
  /\ UNCHANGED <<sk, prog, port, groups>>

\* recvmsg blocks until there is a message.
RecvMsg(p) ==
  /\ nl_pc[p] = "recvmsg" /\ queue[p] > 0
  /\ queue' = [queue EXCEPT ![p] = @ - 1]
  /\ Goto(p, "close")
  /\ UNCHANGED <<sk, prog, port, groups, multi, dropped>>

\* The end of a program, or its death by a signal while it waits: the socket
\* closes.
Exit(p) ==
  /\ nl_pc[p] \in {"close", "exited", "recvmsg"}
  /\ Goto(p, "none")
  /\ port' = [port EXCEPT ![p] = FALSE] /\ groups' = [groups EXCEPT ![p] = {}]
  /\ queue' = [queue EXCEPT ![p] = 0] /\ multi' = [multi EXCEPT ![p] = FALSE]
  /\ dropped' = [dropped EXCEPT ![p] = FALSE]
  /\ UNCHANGED <<sk, prog>>

Process(p) ==
  \/ Exec(p) \/ OpenSocket(p) \/ Bind(p) \/ Join(p) \/ SendMsg(p) \/ SendMsgFails(p)
  \/ Input(p) \/ RecvMsg(p) \/ Exit(p)

Next ==
  \/ \E m \in Modules : NlInsmod(m) \/ NlRmmod(m)
  \/ \E p \in Procs : Process(p)

Spec == Init /\ [][Next]_vars

---------------------------------------------------------------------------
TypeOK ==
  /\ sk \in [Units -> Modules \cup {"none"}]
  /\ prog \in [Procs -> Programs]
  /\ nl_pc \in [Procs -> {"none", "start", "bind", "setsockopt", "sendmsg", "input", "recvmsg", "close", "exited"}]
  /\ port \in [Procs -> BOOLEAN] /\ groups \in [Procs -> SUBSET Nat]
  /\ queue \in [Procs -> 0 .. QueueLength]
  /\ multi \in [Procs -> BOOLEAN] /\ dropped \in [Procs -> BOOLEAN]

\* A module whose input function a sender is inside of is still loaded
\* (netlink_multicast.c:204, netlink_unicast.c:75).
InputHasModule == \A p \in Procs : nl_pc[p] = "input" => sk[Unit(p)] # "none"

\* No program waits in recvmsg for what already went past it: a receiver for a
\* multicast that was sent since it began to wait, um_unicast for the answer,
\* unless there was no memory for its message, which it does not notice
\* (um_unicast.c:58), or for the answer, or netlink_test.c, which does not
\* answer, is what listens on its unit.
NobodyPassedOver ==
  \A p \in Procs : nl_pc[p] = "recvmsg" /\ queue[p] = 0 =>
     IF prog[p] = "recv" THEN ~ multi[p] ELSE dropped[p] \/ sk[Unit(p)] = "test"
=============================================================================
