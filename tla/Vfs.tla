-------------------------------- MODULE Vfs ---------------------------------
(***************************************************************************)
(* The file system: the inodes that libfs/ramfs.c and libfs/devfs.c create *)
(* from the RAM disk and the device table, and libfs/wrap.c on top.        *)
(*                                                                         *)
(* An inode is known by its place: 0 is the root, 1 .. NFiles the files,   *)
(* then /dev and behind it the devices.  node->ptr[k] is inode ptr + k.    *)
(***************************************************************************)
EXTENDS Devices, StrTok

CONSTANTS
  Disk,      \* the RAM disk's file headers: [name, offset, size]
  Greeting,  \* "greeting.txt"
  DevName,   \* "dev"
  DevNames   \* the names in devs[], in the order of the device numbers

NFiles == Len(Disk)
NDevs  == Len(DevNames)
Names  == Seq(Chars) \ {<<>>}

(* A RAM disk made from a directory: its files have different names, none  *)
(* is called dev, and the greeting is among them.                          *)
ASSUME DiskAssumption ==
  /\ Disk \in Seq([name : Names, offset : Nat, size : Nat])
  /\ \A k, l \in 1 .. NFiles : Disk[k].name = Disk[l].name => k = l
  /\ \A k \in 1 .. NFiles : Disk[k].name # DevName
  /\ \E k \in 1 .. NFiles : Disk[k].name = Greeting
  /\ DevName \in Names /\ DevNames \in Seq(Names) /\ NDevs > 0
  /\ \A k, l \in 1 .. NDevs : DevNames[k] = DevNames[l] => k = l

VARIABLES
  inode,   \* the inode tables
  path,    \* fs_lookup()'s argument
  node,    \* its local variable
  here     \* where fs_lookup() is: "first" or "more" tokens, or "out"

lookupVars == <<path, node, here>>

NoNode   == -1
FS_FILE  == 1
FS_DIR   == 2
FS_CHAR  == 3
DevDir   == NFiles + 1

(* file_base: sizeof(struct rd_header) and those of the file headers.      *)
FileBase == 4 + NFiles * 44

Inode(name, flags, impl, size, ptrto) ==
  [name |-> name, flags |-> flags, impl |-> impl, size |-> size, ptr |-> ptrto]

(* What ramfs_init() and devfs_init() enter for each.                      *)
Tables ==
  [n \in 0 .. (DevDir + NDevs) |->
     CASE n = 0 -> Inode(<<>>, FS_DIR, NFiles + 1, 0, 1)
       [] n \in 1 .. NFiles ->
            Inode(Disk[n].name, FS_FILE, Disk[n].offset, Disk[n].size, NoNode)
       [] n = DevDir -> Inode(DevName, FS_DIR, NDevs, 0, DevDir + 1)
       [] OTHER -> Inode(DevNames[n - DevDir], FS_CHAR, n - DevDir - 1, 0, NoNode)]

ramfs_init == inode' = Tables

(* CHECK_DIR computes flags & (0x7 != FS_DIR), the lowest bit of flags.    *)
NotDir(n) == inode[n].flags % 2 = 1

(* A bug for the properties: a name that begins like this one will do.     *)
FindPrefix(n, name) ==
  LET hits == {k \in 0 .. (inode[n].impl - 1) :
                 LET have == inode[inode[n].ptr + k].name
                 IN  /\ Len(have) >= Len(name)
                     /\ SubSeq(have, 1, Len(name)) = name}
  IN  IF NotDir(n) \/ hits = {} THEN NoNode
      ELSE inode[n].ptr + (CHOOSE k \in hits : \A l \in hits : k <= l)

(* fs_finddir(): the first entry of n with this name.                      *)
fs_finddir(n, name) ==
  LET hits == IF NotDir(n) THEN {}
              ELSE {k \in 0 .. (inode[n].impl - 1) :
                      inode[inode[n].ptr + k].name = name}
  IN  IF hits = {} THEN NoNode
      ELSE inode[n].ptr + (CHOOSE k \in hits : \A l \in hits : k <= l)

(* fs_readdir(): the name of entry k of n, as long as there is one.        *)
HasEntry(n, k)   == ~ NotDir(n) /\ k < inode[n].impl
fs_readdir(n, k) == inode[inode[n].ptr + k].name

(* ramfs_read() puts all of file n at the beginning of the caller's buffer *)
(* (every caller passes offset 0) and leaves the device's offset behind    *)
(* it.                                                                     *)
Sought(n) == dev_seek(offset, DEV_RAMDISK, FileBase + inode[n].impl)

ramfs_read(n) ==
  /\ offset' = dev_read(Sought(n), DEV_RAMDISK, inode[n].size)
  /\ UNCHANGED <<data, addr, alive>>

Contents(n) == ramdisk_read(Sought(n)[DEV_RAMDISK], inode[n].size)

(***************************************************************************)
(* fs_lookup()                                                             *)
(***************************************************************************)

(* A copy of the path is made, and its first token asked for.              *)
LookupCall(p) ==
  /\ here = "out" /\ here' = "first"
  /\ path' = p /\ node' = 0
  /\ alive' = alive \cup {"path"}
  /\ strtok(p)
  /\ UNCHANGED <<inode, offset, data, addr>>

(* A bug for the properties: the copy is not freed.                        *)
LookupNothingLeaks ==
  /\ here = "first" /\ at = "out" /\ ptr = 0
  /\ here' = "out"
  /\ node' = fs_finddir(0, path)
  /\ UNCHANGED <<inode, path, devVars, strtokVars>>

(* A path of delimiters only is looked up as it is.                        *)
LookupNothing ==
  /\ here = "first" /\ at = "out" /\ ptr = 0
  /\ here' = "out"
  /\ alive' = alive \ {"path"}
  /\ node' = fs_finddir(0, path)
  /\ UNCHANGED <<inode, path, offset, data, addr, strtokVars>>

(* A token: on to the entry of that name, and the next token.              *)
LookupToken ==
  /\ here # "out" /\ at = "out" /\ ptr # 0 /\ node # NoNode
  /\ here' = "more"
  /\ node' = fs_finddir(node, Token)
  /\ strtokNext
  /\ UNCHANGED <<inode, path, devVars>>

(* No more tokens, or nothing to look them up in.                          *)
LookupDone ==
  /\ here = "more" /\ at = "out" /\ (ptr = 0 \/ node = NoNode)
  /\ here' = "out"
  /\ alive' = alive \ {"path"}
  /\ UNCHANGED <<inode, path, node, offset, data, addr, strtokVars>>

fs_lookup == LookupNothing \/ LookupToken \/ LookupDone

VfsInit ==
  /\ inode = [n \in {} |-> {}]
  /\ path = <<>> /\ node = NoNode /\ here = "out"
  /\ StrTokInit

(***************************************************************************)
(* The reference: what a path means, from the disk's headers.              *)
(***************************************************************************)

Places ==
  {<< <<Disk[k].name>>, k >> : k \in 1 .. NFiles}
    \cup {<< <<DevName>>, DevDir >>}
    \cup {<< <<DevName, DevNames[k]>>, DevDir + k >> : k \in 1 .. NDevs}

Resolve(p) ==
  LET found == {x \in Places : x[1] = Tokens(p)}
  IN  IF found = {} THEN NoNode ELSE (CHOOSE x \in found : TRUE)[2]

=============================================================================
