------------------------------ MODULE MCModules ------------------------------
(* Modules and programs that do not touch each other, one of them in each    *)
(* behaviour: the maple tree test, the generic netlink family, the netlink   *)
(* modules with their programs, netmon, set_route, the PCI driver, mychardev *)
(* and the red-black tree.                                                   *)
EXTENDS MtTree

CONSTANTS MaxLost, Procs, QueueLength, Frac, Hdr, BufLen, Datagrams, MaxArgs,
          Devs, Users, Majors, MaxLoads

VARIABLES subject,
          genl_pc, family, error, timer, rearmed, skb_lost,
          sk, prog, nl_pc, port, groups, queue, multi, dropped,
          mon_pc, sent, status, h, logged,
          args, argv, nl_cmd, to_addr, gw_addr, default_gw, if_idx, route_pc, request,
          loaded, pci_pc, held, irq, drvdata, leaks,
          chd_pc, chd_i, dev_major, regions, cdevs, dangling, nodes, loads, user, number,
          rb_pc, call, rb, cur, under, data, tmp, kfreed

genlVars  == <<genl_pc, family, error, timer, rearmed, skb_lost>>
nlVars    == <<sk, prog, nl_pc, port, groups, queue, multi, dropped>>
monVars   == <<mon_pc, sent, status, h, logged>>
routeVars == <<args, argv, nl_cmd, to_addr, gw_addr, default_gw, if_idx, route_pc, request>>
pciVars   == <<loaded, pci_pc, held, irq, drvdata, leaks>>
chdVars   == <<chd_pc, chd_i, dev_major, regions, cdevs, dangling, nodes, loads, user, number>>
rbVars    == <<rb_pc, call, rb, cur, under, data, tmp, kfreed>>

\* Up to three messages that are a header of four parts or more, most of them
\* not aligned, for a buffer of fourteen parts.
MCMessages == {[type |-> "newroute", len |-> 4], [type |-> "newlink", len |-> 5],
               [type |-> "deladdr", len |-> 6], [type |-> "newneigh", len |-> 7]}
MCDatagrams == UNION {[1 .. n -> MCMessages] : n \in 1 .. 3}

Ge == INSTANCE Genl
Nl == INSTANCE NlModules
Mon == INSTANCE NetMon
Route == INSTANCE SetRoute
Pci == INSTANCE PciDriver
Chd == INSTANCE MyCharDev
Rbt == INSTANCE RbTree

ASSUME ModulesAssumption ==
  Ge!GenlAssumption /\ Nl!NlModulesAssumption /\ Mon!NetMonAssumption /\ Route!SetRouteAssumption
  /\ Chd!MyCharDevAssumption

MCInit ==
  /\ subject \in {"maple", "genl", "netlink", "netmon", "route", "pci", "mychardev", "rbtree"}
  /\ MtInit /\ Ge!Init /\ Nl!Init /\ Mon!Init /\ Route!Init /\ Pci!Init /\ Chd!Init
  /\ Rbt!Init

OnMaple == subject = "maple" /\ MtNext
           /\ UNCHANGED <<subject, genlVars, nlVars, monVars, routeVars, pciVars, chdVars, rbVars>>
OnGenl == subject = "genl" /\ Ge!Next
          /\ UNCHANGED <<subject, vars, nlVars, monVars, routeVars, pciVars, chdVars, rbVars>>
OnNetlink == subject = "netlink" /\ Nl!Next
             /\ UNCHANGED <<subject, vars, genlVars, monVars, routeVars, pciVars, chdVars, rbVars>>
OnNetmon == subject = "netmon" /\ Mon!Next
            /\ UNCHANGED <<subject, vars, genlVars, nlVars, routeVars, pciVars, chdVars, rbVars>>
OnRoute == subject = "route" /\ Route!Next
           /\ UNCHANGED <<subject, vars, genlVars, nlVars, monVars, pciVars, chdVars, rbVars>>
OnPci == subject = "pci" /\ Pci!Next
         /\ UNCHANGED <<subject, vars, genlVars, nlVars, monVars, routeVars, chdVars, rbVars>>
OnMyCharDev == subject = "mychardev" /\ Chd!Next
               /\ UNCHANGED <<subject, vars, genlVars, nlVars, monVars, routeVars, pciVars, rbVars>>
OnRbTree == subject = "rbtree" /\ Rbt!Next
            /\ UNCHANGED <<subject, vars, genlVars, nlVars, monVars, routeVars, pciVars, chdVars>>

MCNext == OnMaple \/ OnGenl \/ OnNetlink \/ OnNetmon \/ OnRoute \/ OnPci \/ OnMyCharDev \/ OnRbTree
MCVars == <<subject, vars, genlVars, nlVars, monVars, routeVars, pciVars, chdVars, rbVars>>

MCSpec == MCInit /\ [][MCNext]_MCVars
MCFairSpec == MCSpec /\ Ge!Fairness

\* Types in all of them but the red-black tree; above all no receive queue
\* grows past its buffer.
ModulesTypesOK ==
  MtTypeOK /\ Ge!TypeOK /\ Nl!TypeOK /\ Mon!TypeOK /\ Route!TypeOK /\ Pci!TypeOK
  /\ Chd!TypeOK

\* No code runs that an unload has taken away: neither the timer's callback of
\* genl_multicast.c, nor the input function a sender is inside of, nor a file
\* operation of mychardev.c.
NothingRunsWhenGone == Ge!TimerGone /\ Nl!InputHasModule /\ Chd!FilesHaveModule

\* The properties of the others, stated there.
UnloadCompletes == Ge!UnloadCompletes
NobodyPassedOver == Nl!NobodyPassedOver
EachMessageOnce == Mon!EachMessageOnce
RequestIsTheLine == Route!RequestIsTheLine
BoundOwnsAll == Pci!BoundOwnsAll

\* What destroy_tree frees, and that between two calls the tree is a red-black
\* tree (rbtree.c:121-133): the walk goes by its links.
DestroyFreesAll == Rbt!TypeOK /\ Rbt!DestroyFreesAll
=============================================================================
