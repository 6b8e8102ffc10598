---------------------------- MODULE MCCharDevices ----------------------------
(* The character drivers: their loading and unloading, the message device  *)
(* or the memory device, one of the three in each behaviour.               *)
EXTENDS MCMsgDevice

CONSTANTS PAGE_SIZE, Pages, Counts

VARIABLES subject,
          chr_pc, region, classes, devices, made, misc_mtx, late, fault,
          f_pos, file_pc, pos, count, total

chrVars  == <<chr_pc, region, classes, devices, made, misc_mtx, late, fault>>
dramVars == <<f_pos, file_pc, pos, count, total>>

MCOffsets == {-4, -1, 0, 2, 7}

Chr == INSTANCE ChrDrivers WITH pc <- chr_pc
Dram == INSTANCE DramFile WITH pc <- file_pc, Threads <- Clients, Offsets <- MCOffsets

ASSUME CharDevicesAssumption == Dram!DramFileAssumption

MCInit ==
  /\ subject \in {"drivers", "message", "memory"}
  /\ Chr!Init /\ Init /\ Dram!Init

OnDrivers == subject = "drivers" /\ Chr!Next /\ UNCHANGED <<subject, vars, dramVars>>
OnMessage == subject = "message" /\ Next /\ UNCHANGED <<subject, chrVars, dramVars>>
OnMemory  == subject = "memory" /\ Dram!Next /\ UNCHANGED <<subject, chrVars, vars>>

MCSpec == MCInit /\ [][OnDrivers \/ OnMessage \/ OnMemory]_<<subject, chrVars, vars, dramVars>>

\* Types in all three; above all the position of a file stays in memory.
TypesOK == Chr!TypeOK /\ TypeOK /\ Dram!TypeOK

\* The properties of ChrDrivers and DramFile, stated there.
OwnsItsMajor == Chr!OwnsItsMajor
AllOrNothing == Chr!AllOrNothing
CopyInOnePage == Dram!CopyInOnePage
EachByteOnce == Dram!EachByteOnce
NothingOnlyAtEnd == Dram!NothingOnlyAtEnd
=============================================================================
