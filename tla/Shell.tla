------------------------------- MODULE Shell --------------------------------
(***************************************************************************)
(* kernel_main() from the moment the devices are opened, and the kernel    *)
(* shell, kernel/shell.c.  The shell reads a line into the kernel's one    *)
(* general-purpose buffer and uses the same buffer for file contents.      *)
(*                                                                         *)
(* A cell of the buffer is zero, a character of the typed line (Typed) or  *)
(* a byte of the RAM disk, which is its address.  The screen shows what    *)
(* the last command printed: inodes by their place, tokens, or cells.      *)
(***************************************************************************)
EXTENDS Vfs

CONSTANTS
  BufSize,   \* BUFSIZ
  Commands   \* the lines typed: [op, arg]

Ops == {"ls", "cat", "devs", "tty", "tok", "exit", "other"}

ASSUME CommandsAssumption == Commands \subseteq [op : Ops, arg : Strings]

ASSUME BufSizeAssumption ==
  /\ BufSize \in Nat
  /\ \A k \in 1 .. NFiles : Disk[k].size < BufSize
  /\ \A c \in Commands : Len(c.arg) + 4 < BufSize

VARIABLES
  pc,       \* where kernel_main() or the shell is
  cmd,      \* the line it works on
  buf,      \* the kernel's buffer
  index,    \* the loop counter of list_directory() and list_devs()
  screen

shellVars == <<pc, cmd, buf, index, screen>>
allVars == <<devVars, strtokVars, inode, lookupVars, shellVars>>

Zero    == 0
Typed   == 1
TtyPath == <<Sep>> \o DevName \o <<Sep>> \o DevNames[1]

Goto(from, to) == pc = from /\ pc' = to

(* Cells c at the beginning of a buffer b.                                 *)
Store(b, c) == [k \in 1 .. BufSize |-> IF k <= Len(c) THEN c[k] ELSE b[k]]

(* What puts() prints of a buffer.                                         *)
Shown(b) ==
  LET zeros == {k \in 1 .. BufSize : b[k] = Zero}
      end   == CHOOSE k \in zeros : \A l \in zeros : k <= l
  IN  SubSeq(b, 1, end - 1)

(***************************************************************************)
(* kernel_main()                                                           *)
(***************************************************************************)

OpenTty ==
  /\ Goto("tty", "disk")
  /\ dev_open(DEV_TTY, "tty")
  /\ UNCHANGED <<addr, strtokVars, inode, lookupVars, cmd, buf, index, screen>>

(* dev_open(DEV_RAMDISK,0) and the two ioctls; the buffer has been         *)
(* obtained before.                                                        *)
OpenDisk ==
  /\ Goto("disk", "mount")
  /\ dev_open(DEV_RAMDISK, "ramdisk")
  /\ ramdisk_setaddr(DiskBase)
  /\ UNCHANGED <<strtokVars, inode, lookupVars, cmd, buf, index, screen>>

Mount ==
  /\ Goto("mount", "greet")
  /\ ramfs_init
  /\ alive' = alive \cup {"inodes"}
  /\ UNCHANGED <<offset, data, addr, strtokVars, lookupVars, cmd, buf, index, screen>>

(* The greeting is read into the buffer, closed with a zero and printed.   *)
Greet ==
  /\ Goto("greet", "prompt")
  /\ LET n == fs_finddir(0, Greeting)
     IN  /\ ramfs_read(n)
         /\ buf' = Store(buf, Append(Contents(n), Zero))
  /\ screen' = Shown(buf')
  /\ cmd' = [op |-> "greet", arg |-> Greeting]
  /\ UNCHANGED <<strtokVars, inode, lookupVars, index>>

(* The shell has returned.                                                 *)
Halt ==
  /\ Goto("halt", "off")
  /\ dev_close_ramdisk
  /\ UNCHANGED <<strtokVars, inode, lookupVars, cmd, buf, index, screen>>

(***************************************************************************)
(* shell_main()                                                            *)
(***************************************************************************)

(* strlen() of the line: "ls", "cat" and a blank before the argument.      *)
LineLen(c) == Len(c.arg) + CASE c.op = "cat" -> 4 [] OTHER -> 3

(* memset(buf,0,BUFSIZ); gets(buf);                                        *)
Prompt ==
  /\ Goto("prompt", "run")
  /\ \E c \in Commands :
       /\ cmd' = c
       /\ buf' = [k \in 1 .. BufSize |-> IF k <= LineLen(c) THEN Typed ELSE Zero]
  /\ screen' = <<>>
  /\ UNCHANGED <<devVars, strtokVars, inode, lookupVars, index>>

(* "exit".                                                                 *)
Exit ==
  /\ Goto("run", "halt") /\ cmd.op = "exit"
  /\ UNCHANGED <<devVars, strtokVars, inode, lookupVars, cmd, buf, index, screen>>

(* "ls" without a path.                                                    *)
LsRoot ==
  /\ Goto("run", "list") /\ cmd.op = "ls" /\ LineLen(cmd) <= 3
  /\ node' = 0 /\ index' = 0
  /\ UNCHANGED <<devVars, strtokVars, inode, path, here, cmd, buf, screen>>

LsPath ==
  /\ Goto("run", "lookup") /\ cmd.op = "ls" /\ LineLen(cmd) > 3
  /\ LookupCall(cmd.arg)
  /\ UNCHANGED <<cmd, buf, index, screen>>

LookedUp == pc = "lookup" /\ here = "out"

(* list_directory(): "No such file or directory", "Not a directory".       *)
LsRefused ==
  /\ LookedUp /\ cmd.op = "ls"
  /\ node # NoNode => inode[node].flags % 8 # FS_DIR
  /\ pc' = "prompt" /\ screen' = <<NoNode>>
  /\ UNCHANGED <<devVars, strtokVars, inode, lookupVars, cmd, buf, index>>

LsDir ==
  /\ LookedUp /\ cmd.op = "ls"
  /\ node # NoNode /\ inode[node].flags % 8 = FS_DIR
  /\ pc' = "list" /\ index' = 0
  /\ UNCHANGED <<devVars, strtokVars, inode, lookupVars, cmd, buf, screen>>

(* An entry is read, and looked up by its name to be printed.              *)
ListEntry ==
  /\ pc = "list" /\ index < inode[node].impl
  /\ screen' = Append(screen, fs_finddir(node, fs_readdir(node, index)))
  /\ index' = index + 1
  /\ UNCHANGED <<devVars, strtokVars, inode, lookupVars, pc, cmd, buf>>

ListEnd ==
  /\ Goto("list", "prompt") /\ index >= inode[node].impl
  /\ UNCHANGED <<devVars, strtokVars, inode, lookupVars, cmd, buf, index, screen>>

(* list_devs(): finds /dev ...                                             *)
ListDevs ==
  /\ Goto("run", "devs") /\ cmd.op = "devs"
  /\ node' = fs_finddir(0, DevName) /\ index' = 0
  /\ UNCHANGED <<devVars, strtokVars, inode, path, here, cmd, buf, screen>>

(* ... and reads it until there are no more entries.                       *)
DevsEntry ==
  /\ pc = "devs" /\ HasEntry(node, index)
  /\ screen' = Append(screen, inode[node].ptr + index)
  /\ index' = index + 1
  /\ UNCHANGED <<devVars, strtokVars, inode, lookupVars, pc, cmd, buf>>

DevsEnd ==
  /\ Goto("devs", "prompt") /\ ~ HasEntry(node, index)
  /\ UNCHANGED <<devVars, strtokVars, inode, lookupVars, cmd, buf, index, screen>>

(* cat_file() of what is not there, or a directory.                        *)
CatRefused ==
  /\ Goto("run", "prompt") /\ cmd.op = "cat"
  /\ LET n == fs_finddir(0, cmd.arg)
     IN  n # NoNode => inode[n].flags \in {FS_DIR, FS_CHAR}  \* flags & FS_DIR
  /\ screen' = <<NoNode>>
  /\ UNCHANGED <<devVars, strtokVars, inode, lookupVars, cmd, buf, index>>

(* fs_open() and fs_close() of a file do nothing; the contents overwrite   *)
(* the line that was typed.                                                *)
Cat ==
  /\ Goto("run", "prompt") /\ cmd.op = "cat"
  /\ LET n == fs_finddir(0, cmd.arg)
     IN  /\ n # NoNode /\ inode[n].flags = FS_FILE
         /\ ramfs_read(n)
         /\ buf' = Store(buf, Contents(n))
  /\ screen' = Shown(buf')
  /\ UNCHANGED <<strtokVars, inode, lookupVars, cmd, index>>

(* test_fsdev()                                                            *)
Tty ==
  /\ Goto("run", "lookup") /\ cmd.op = "tty"
  /\ LookupCall(TtyPath)
  /\ UNCHANGED <<cmd, buf, index, screen>>

(* devfs_write() seeks and writes to the device the inode is for.          *)
TtyFound ==
  /\ LookedUp /\ cmd.op = "tty"
  /\ pc' = "prompt"
  /\ IF node = NoNode THEN screen' = <<NoNode>> /\ UNCHANGED offset
     ELSE /\ screen' = <<inode[node].impl>>
          /\ offset' = dev_seek(offset, inode[node].impl, 0)
  /\ UNCHANGED <<data, addr, alive, strtokVars, inode, lookupVars, cmd, buf, index>>

(* test_strtok()                                                           *)
Tok ==
  /\ Goto("run", "tok") /\ cmd.op = "tok"
  /\ strtok(TtyPath)
  /\ UNCHANGED <<devVars, inode, lookupVars, cmd, buf, index, screen>>

TokPrint ==
  /\ pc = "tok" /\ at = "out" /\ ptr # 0
  /\ screen' = Append(screen, Token)
  /\ strtokNext
  /\ UNCHANGED <<devVars, inode, lookupVars, pc, cmd, buf, index>>

TokEnd ==
  /\ Goto("tok", "prompt") /\ at = "out" /\ ptr = 0
  /\ UNCHANGED <<devVars, strtokVars, inode, lookupVars, cmd, buf, index, screen>>

(* The commands that only print, and lines that are no command.            *)
Other ==
  /\ Goto("run", "prompt") /\ cmd.op = "other"
  /\ UNCHANGED <<devVars, strtokVars, inode, lookupVars, cmd, buf, index, screen>>

(* The loops of strtok() and fs_lookup() run on.                           *)
Scanning == Scan /\ UNCHANGED <<devVars, inode, lookupVars, shellVars>>
Looking  == fs_lookup /\ UNCHANGED shellVars

(***************************************************************************)
(* The specification                                                       *)
(***************************************************************************)

ShellInit ==
  /\ offset = [no \in Devs |-> 0] /\ data = [no \in Devs |-> NoData]
  /\ addr = 0 /\ alive = {"buf"}
  /\ VfsInit
  /\ pc = "tty" /\ cmd = [op |-> "none", arg |-> <<>>]
  /\ buf = [k \in 1 .. BufSize |-> Zero]
  /\ index = 0 /\ screen = <<>>

(* Everything but waiting for a line.                                      *)
Thread ==
  \/ OpenTty \/ OpenDisk \/ Mount \/ Greet
  \/ Exit \/ Halt
  \/ LsRoot \/ LsPath \/ LsRefused \/ LsDir \/ ListEntry \/ ListEnd
  \/ ListDevs \/ DevsEntry \/ DevsEnd
  \/ CatRefused \/ Cat
  \/ Tty \/ TtyFound
  \/ Tok \/ TokPrint \/ TokEnd
  \/ Other \/ Scanning \/ Looking

ShellSpec ==
  /\ ShellInit /\ [][Prompt \/ Thread]_allVars
  /\ WF_allVars(Thread)

(***************************************************************************)
(* Properties                                                              *)
(***************************************************************************)

AtPrompt(op) == pc = "prompt" /\ cmd.op = op

(* strtok() stays inside the string it was given, and fs_lookup() has not  *)
(* freed that string yet: strtok()'s static pointer outlives each string,  *)
(* and the next command must not go on from it.                            *)
ScansOwnString ==
  at # "out" =>
    /\ str \in 1 .. Len(txt) /\ ptr < Len(txt)
    /\ here # "out" => "path" \in alive /\ Len(txt) = Len(path) + 1

(* fs_lookup() finds what the path names, for every path: its tokens, with *)
(* any number of delimiters before, between and behind them, lead to the   *)
(* inode the disk's headers and the device table give that name, and any   *)
(* other path to nothing.                                                  *)
LookupResolves == LookedUp => node = Resolve(path)

(* Whatever the commands did, and whichever return fs_lookup() took, the   *)
(* shell holds at its prompt what it held before: nothing has leaked, and  *)
(* the RAM disk is there until the shell is left.                          *)
HeldAtPrompt == pc = "prompt" => alive = {"buf", "tty", "ramdisk", "inodes"}

FileNamed(name) == {n \in 1 .. NFiles : Disk[n].name = name}

(* The bytes of file n by the RAM disk's headers (README.md, "RAM Disk").  *)
FileBytes(n) ==
  [k \in 1 .. Disk[n].size |-> DiskBase + FileBase + Disk[n].offset + k - 1]

(* A file is shown from its first to its last byte, whatever was read from *)
(* the RAM disk before: all readers share the device's offset.  Nothing    *)
(* follows it when it is at least as long as the line typed.               *)
FileShown ==
  AtPrompt("cat") \/ AtPrompt("greet") =>
    \A n \in FileNamed(cmd.arg) :
      /\ Len(screen) >= Disk[n].size
      /\ SubSeq(screen, 1, Disk[n].size) = FileBytes(n)
      /\ cmd.op = "greet" \/ Disk[n].size >= LineLen(cmd) =>
           Len(screen) = Disk[n].size

(* The entries of directory n, or a refusal.                               *)
Listing(n) ==
  CASE n = 0      -> [k \in 1 .. (NFiles + 1) |-> k]
    [] n = DevDir -> [k \in 1 .. NDevs |-> DevDir + k]
    [] OTHER      -> <<NoNode>>

(* ls and devs print each entry of the directory once, in its order (ls    *)
(* goes from entry to name and back to the entry), tty reaches device 0,   *)
(* and tok prints the parts of its path.                                   *)
Answered ==
  /\ AtPrompt("ls") =>
       screen = Listing(IF cmd.arg = <<>> THEN 0 ELSE Resolve(cmd.arg))
  /\ AtPrompt("devs") => screen = Listing(DevDir)
  /\ AtPrompt("tty") => screen = <<DEV_TTY>>
  /\ AtPrompt("tok") => screen = Tokens(TtyPath)

(* Every command comes back to the prompt, or the machine halts: no path   *)
(* makes strtok() or fs_lookup() loop.                                     *)
CommandEnds == pc # "prompt" ~> pc \in {"prompt", "off"}

=============================================================================
