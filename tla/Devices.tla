------------------------------ MODULE Devices -------------------------------
(***************************************************************************)
(* The device table, kernel/dev/device.c, with the RAM disk behind it,     *)
(* kernel/dev/ramdisk.c: each device has one offset for all who use it and *)
(* a pointer to memory of its own.                                         *)
(*                                                                         *)
(* A byte of the RAM disk is represented by its address, and a piece of    *)
(* the kernel heap by the name of its owner: what kmalloc() returns is     *)
(* KHeap's business, what is held at a time is `alive'.                    *)
(***************************************************************************)
EXTENDS Integers

CONSTANT DiskBase      \* conf->rd_start

ASSUME DiskBaseAssumption == DiskBase \in Nat \ {0, 1}

VARIABLES
  offset, data,   \* the members of struct device that change
  addr,           \* struct ramdisk's addr
  alive           \* what was obtained with kmalloc() and not freed

devVars == <<offset, data, addr, alive>>

DEV_TTY     == 0
DEV_RAMDISK == 1
Devs        == {DEV_TTY, DEV_RAMDISK}
NoData      == "NULL"

(* dev_open(): the offset is reset before the device can refuse.           *)
dev_open(no, owner) ==
  /\ offset' = [offset EXCEPT ![no] = 0]
  /\ IF data[no] # NoData THEN UNCHANGED <<data, alive>>     \* -EBUSY
     ELSE /\ data' = [data EXCEPT ![no] = owner]
          /\ alive' = alive \cup {owner}

(* dev_close() of the RAM disk, which keeps its pointer.                   *)
dev_close_ramdisk ==
  /\ offset' = [offset EXCEPT ![DEV_RAMDISK] = 0]
  /\ alive' = alive \ {data[DEV_RAMDISK]}
  /\ UNCHANGED <<data, addr>>

(* RD_SETADDR.                                                             *)
ramdisk_setaddr(a) == addr' = a

(* A bug for the properties: relative to where the last read ended.        *)
dev_seek_cur(o, no, off) == [o EXCEPT ![no] = @ + off]

(* The offsets o after dev_seek(no, off, SEEK_SET) ...                     *)
dev_seek(o, no, off) == [o EXCEPT ![no] = off]

(* ... and after dev_read(no, buf, len) of a device that reads all of len. *)
dev_read(o, no, len) == IF len > 0 THEN [o EXCEPT ![no] = @ + len] ELSE o

(* What ramdisk_read() copies, the device's offset being off.              *)
ramdisk_read(off, len) == [k \in 1 .. len |-> addr + off + k - 1]

=============================================================================
