------------------------------- MODULE MCBdm -------------------------------
(***************************************************************************)
(* A USB stick with one MBR partition, an SD card that is one FAT volume   *)
(* (its boot sector passes for an MBR without partitions), and a fixed     *)
(* disk whose GPT spreads two partitions over two sectors.  part says what *)
(* may go wrong: in "main" memory may run out and sectors may be           *)
(* unreadable; in "rough", which has a state of its own, devices are also  *)
(* pulled while bdm_thread reads them, and a table may break off.          *)
(***************************************************************************)
EXTENDS Bdm, TLC

CONSTANTS usb, sd, hdd

VARIABLES part,
    r_g_mount, r_g_part, r_partVolume, r_caches, r_connected, r_g_fs,
    r_event, r_filterEvent, r_g_ata_only, r_mass0, r_lock, r_thread,
    r_inserting, r_client, r_setter, r_registrar, r_told, r_plugs

Of(f) == [d \in Devices |-> f[d]]
MCName == Of(usb :> "usb" @@ sd :> "sdc" @@ hdd :> "ata")
MCScheme == Of(usb :> "MBR" @@ sd :> "MBR" @@ hdd :> "GPT")
MCTable == Of(usb :> <<<<1>>>> @@ sd :> <<<<>>>> @@ hdd :> <<<<1>>, <<2>>>>)
MCFat == {<<usb, 1>>, <<sd, 0>>, <<hdd, 1>>, <<hdd, 2>>}
MCPops == {<<usb, 1>>, <<sd, 0>>, <<hdd, 2>>}
MCReady == {<<usb, 1>>, <<hdd, 2>>}

Rough == INSTANCE Bdm WITH
             Devices <- {usb, hdd}, MAX_CONNECTIONS <- 3, MAX_PARTITIONS <- 1, MaxPlugs <- 2,
             Faults <- {"memory", "read", "table", "unplug"},
             g_mount <- r_g_mount, g_part <- r_g_part, partVolume <- r_partVolume,
             caches <- r_caches, connected <- r_connected, g_fs <- r_g_fs,
             event <- r_event, filterEvent <- r_filterEvent, g_ata_only <- r_g_ata_only,
             mass0 <- r_mass0, lock <- r_lock, thread <- r_thread,
             inserting <- r_inserting, client <- r_client, setter <- r_setter,
             registrar <- r_registrar, told <- r_told, plugs <- r_plugs

roughVars == <<r_g_mount, r_g_part, r_partVolume, r_caches, r_connected, r_g_fs,
               r_event, r_filterEvent, r_g_ata_only, r_mass0, r_lock, r_thread,
               r_inserting, r_client, r_setter, r_registrar, r_told, r_plugs>>

MCInit == part \in {"main", "rough"} /\ Init /\ Rough!Init

MCNext ==
    /\ UNCHANGED part
    /\ \/ part = "main" /\ Next /\ UNCHANGED roughVars
       \/ part = "rough" /\ Rough!Next /\ UNCHANGED vars

MCSpec == MCInit /\ [][MCNext]_<<part, vars, roughVars>>

-----------------------------------------------------------------------------
\* Once bdm_set_ata_only(1) has returned, only ata devices are in the mount
\* table, and none enters it later, whatever else goes wrong: the tables then
\* still hold what they are made for.
FilterUnderFaults == Rough!TypeOK /\ Rough!AtaOnly
=============================================================================
