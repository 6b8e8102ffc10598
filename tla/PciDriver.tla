------------------------------ MODULE PciDriver ------------------------------
(* test_pci_module.c: binding the driver to cards and unbinding it.  A step  *)
(* is a call that can fail; what a failure gives back is part of its step.   *)
(* All cards ask for the same interrupt, number 42, which takes one handler. *)
(*                                                                           *)
(* SlipReleaseIrq is a wrong variant of the operator it precedes, the        *)
(* mistake BoundOwnsAll notices.                                             *)
CONSTANT Devs        \* the cards with the id 010F:0F0E

VARIABLES
  loaded,    \* the driver is registered with the PCI core
  pci_pc,    \* per card: "unbound", the next call of probe or remove, "bound", "failed"
  held,      \* per card: what the driver has taken for it
  irq,       \* the cards with a handler on interrupt 42
  drvdata,   \* per card: drvdata points to its private data
  leaks      \* per card: a probe failed holding on to something

vars == <<loaded, pci_pc, held, irq, drvdata, leaks>>

Resources == {"device", "region", "drv_priv", "hwmem", "vectors"}

Init ==
  /\ loaded = FALSE
  /\ pci_pc = [d \in Devs |-> "unbound"] /\ held = [d \in Devs |-> {}]
  /\ irq = {} /\ drvdata = [d \in Devs |-> FALSE] /\ leaks = [d \in Devs |-> FALSE]

Goto(d, from, to) == pci_pc[d] = from /\ pci_pc' = [pci_pc EXCEPT ![d] = to]
Takes(d, r) == held' = [held EXCEPT ![d] = @ \cup {r}]
Drops(d, rs) == held' = [held EXCEPT ![d] = @ \ rs]

\* probe answers with an error: the PCI core forgets drvdata, and the card stays
\* unbound with whatever it still has.
Fails(d, rest) ==
  /\ held' = [held EXCEPT ![d] = rest]
  /\ drvdata' = [drvdata EXCEPT ![d] = FALSE]
  /\ leaks' = [leaks EXCEPT ![d] = @ \/ rest # {}]

\* pci_register_driver; the core then offers every card to the driver.
Register ==
  /\ ~ loaded
  /\ loaded' = TRUE
  /\ UNCHANGED <<pci_pc, held, irq, drvdata, leaks>>

\* Two cards may be probed at once, from sysfs.
Probe(d) ==
  /\ loaded
  /\ Goto(d, "unbound", "enable")
  /\ UNCHANGED <<loaded, held, irq, drvdata, leaks>>

EnableDevice(d) ==
  /\ \/ Goto(d, "enable", "request") /\ Takes(d, "device") /\ UNCHANGED <<drvdata, leaks>>
     \/ Goto(d, "enable", "failed") /\ Fails(d, held[d])
  /\ UNCHANGED <<loaded, irq>>

\* The mask of the memory BARs is passed for the number of one.  A region that
\* is empty, and so can be requested again, counts as taken here.
RequestRegion(d) ==
  /\ \/ Goto(d, "request", "kzalloc") /\ Takes(d, "region") /\ UNCHANGED <<drvdata, leaks>>
     \/ Goto(d, "request", "failed") /\ Fails(d, held[d] \ {"device"})
  /\ UNCHANGED <<loaded, irq>>

\* free_irq finds a handler by its cookie, the card: where the card has none it
\* warns and does nothing.
SlipReleaseIrq(d) == {}
ReleaseIrq(d) == irq \ {d}

\* release_device, in probe and in remove.
Released == {"region", "device"}

Kzalloc(d) ==
  \/ /\ Goto(d, "kzalloc", "ioremap") /\ Takes(d, "drv_priv")
     /\ UNCHANGED <<loaded, irq, drvdata, leaks>>
  \/ /\ Goto(d, "kzalloc", "failed") /\ Fails(d, held[d] \ Released)
     /\ irq' = ReleaseIrq(d)
     /\ UNCHANGED loaded

\* With the memory mapped drvdata is set, and the sample goes to the card.
\* Without it nobody frees the private data.
Ioremap(d) ==
  \/ /\ Goto(d, "ioremap", "vectors") /\ Takes(d, "hwmem")
     /\ drvdata' = [drvdata EXCEPT ![d] = TRUE]
     /\ UNCHANGED <<loaded, irq, leaks>>
  \/ /\ Goto(d, "ioremap", "failed") /\ Fails(d, held[d] \ Released)
     /\ irq' = ReleaseIrq(d)
     /\ UNCHANGED loaded

\* set_interrupts: its errors are the answer of probe, which gives nothing back,
\* and vectors that a card kept from such a probe are not given out again.
AllocVectors(d) ==
  /\ \/ "vectors" \notin held[d] /\ Goto(d, "vectors", "irq") /\ Takes(d, "vectors") /\ UNCHANGED <<drvdata, leaks>>
     \/ Goto(d, "vectors", "failed") /\ Fails(d, held[d])
  /\ UNCHANGED <<loaded, irq>>

\* Without IRQF_SHARED an interrupt that has a handler is refused.
RequestIrq(d) ==
  \/ /\ irq = {}
     /\ Goto(d, "irq", "bound") /\ irq' = {d}
     /\ UNCHANGED <<loaded, held, drvdata, leaks>>
  \/ Goto(d, "irq", "failed") /\ Fails(d, held[d]) /\ UNCHANGED <<loaded, irq>>

\* The card is unplugged and put back, or offered again through sysfs.
Rescan(d) ==
  /\ Goto(d, "failed", "unbound")
  /\ UNCHANGED <<loaded, held, irq, drvdata, leaks>>

\* remove, from sysfs, by unplugging or by pci_unregister_driver: the vectors go
\* before the interrupt, and release_device gives back the rest.
Remove(d) ==
  /\ Goto(d, "bound", "release")
  /\ Drops(d, IF drvdata[d] THEN {"hwmem", "vectors", "drv_priv"} ELSE {})
  /\ UNCHANGED <<loaded, irq, drvdata, leaks>>

ReleaseDevice(d) ==
  /\ Goto(d, "release", "unbound")
  /\ irq' = ReleaseIrq(d) /\ Drops(d, Released)
  /\ drvdata' = [drvdata EXCEPT ![d] = FALSE]
  /\ UNCHANGED <<loaded, leaks>>

Unregister ==
  /\ loaded /\ \A d \in Devs : pci_pc[d] \in {"unbound", "failed"}
  /\ loaded' = FALSE
  /\ UNCHANGED <<pci_pc, held, irq, drvdata, leaks>>

Next ==
  \/ Register \/ Unregister
  \/ \E d \in Devs :
       \/ Probe(d) \/ EnableDevice(d) \/ RequestRegion(d) \/ Kzalloc(d) \/ Ioremap(d)
       \/ AllocVectors(d) \/ RequestIrq(d) \/ Rescan(d) \/ Remove(d) \/ ReleaseDevice(d)

Spec == Init /\ [][Next]_vars

---------------------------------------------------------------------------
TypeOK ==
  /\ loaded \in BOOLEAN
  /\ pci_pc \in [Devs -> {"unbound", "enable", "request", "kzalloc", "ioremap", "vectors", "irq",
                          "bound", "failed", "release"}]
  /\ held \in [Devs -> SUBSET Resources]
  /\ irq \subseteq Devs
  /\ drvdata \in [Devs -> BOOLEAN] /\ leaks \in [Devs -> BOOLEAN]

\* The bound card has its interrupt and everything else, whatever the probe of
\* another card, which fails on that interrupt, gives back with release_device
\* (test_pci_module.c:137, 145); and a card that is not bound has nothing,
\* unless a probe of it failed past the memory region.
BoundOwnsAll ==
  \A d \in Devs :
    /\ pci_pc[d] = "bound" => held[d] = Resources /\ irq = {d} /\ drvdata[d]
    /\ pci_pc[d] \in {"unbound", "failed"} => d \notin irq /\ (leaks[d] \/ held[d] = {})
=============================================================================
