------------------------------- MODULE Files --------------------------------
(***************************************************************************)
(* Files as programs see them: the file table and descriptors (module      *)
(* FileTable), pipes (Pipe), the tree of the virtual file system (Vfs),    *)
(* the lines of a pseudo terminal (Pty), and, in this module, the system   *)
(* calls (syscall/) and the life of the nodes of pseudo terminals          *)
(* (vfs/pty.c).                                                            *)
(***************************************************************************)
EXTENDS Integers, FiniteSets, Sequences, FileTable, Vfs, FiniteSetsExt

CONSTANTS
  MaxCalls,       \* bound: calls
  Openers, Ptys,  \* the tasks, and the structures malloc can give them
  ArrayCount      \* PTY_ARRAY_COUNT (64)

\* array uses "NULL" for an element that is not set, locker for no task.
ASSUME PtyAssumption == "NULL" \notin Ptys \cup Openers /\ Ptys # {} /\ ArrayCount \in Nat

VARIABLES
  part,  \* the part that moves
  callsCall,   \* the call
  callsAt,     \* its next step
  null,        \* pointers that are null and may be
  checked, held, done, used,
  result,      \* "none" while it runs
  calls,
  array,       \* pty_array: index -> the pty whose secondary node it is
  shared,      \* the ptys whose shared data is allocated
  nodesNodes,  \* the nodes that are allocated
  index,       \* pty -> shared_data->pty_i, ArrayCount for -1
  nshared,     \* pty -> shared_data->count
  nodesCount,  \* node -> node->count
  nodesHolds,  \* task -> the nodes it has a reference to
  nodesPc,     \* task -> where it is in pty_create, vfs_open or n_release
  nodesArg,    \* task -> the node it works on
  inTree,      \* the nodes in the tree, whose n_release is that of vfs.c
  treeState,   \* node -> node->tree_state
  locker,      \* the task that has tree_mtx between two steps
  overtaken,   \* history: those whose node left the tree after they read n_release
  \* of Pipe
  base, start, end, pipeCount, signal, freed, pipeHolds, pipePc, nonblock,
  req, size, pipeR, sum, stream, received,
  \* of Pty
  buffer, event, icanon, eof, termios, group, sigs, lock, rest, raw

\* A directory with a file.
Paths == {<<>>, <<"d">>, <<"d", "f">>}
Volume == [p \in Paths |-> IF p = <<"d", "f">> THEN "file" ELSE "dir"]
\* What a part that stands still has.
Still == /\ part \notin {"lines", "echo", "words"} => termios = {"ISIG", "INLCR"}
         /\ part # "pipe" => "w1" \in pipeHolds

PipeOf == INSTANCE Pipe
  WITH Readers <- {"r1"}, Writers <- {"w1", "w2"}, Size <- 3, Chunk <- 2,
       ReadSizes <- {0, 3}, WriteSizes <- {2, 3}, MaxBytes <- 4,
       count <- pipeCount, holds <- pipeHolds, pc <- pipePc, r <- pipeR
Lines == INSTANCE Pty
  WITH Terminal <- "tty", Group <- [p1 |-> 2], BufferSize <- 5,
       IcanonSize <- 2, Chars <- {"a", "\n", "VEOF", "VEOL", "VQUIT"}, Output <- {},
       Typing <- 1,
       Modes <- {{"ICANON", "ISIG", "ICRNL"}, {"ISIG", "INLCR"}},
       ReadSizes <- {1, 3}
Echoes == INSTANCE Pty
  WITH Terminal <- "tty", Group <- [p1 |-> 2, p2 |-> 3], BufferSize <- 5,
       IcanonSize <- 2, Chars <- {"\n", "VERASE"}, Output <- {<<"\n">>},
       Typing <- 1,
       Modes <- {Lines!DefaultTermios, {"ECHO", "ICANON", "ISIG", "TOSTOP"}},
       ReadSizes <- {2}
Words == INSTANCE Pty
  WITH Terminal <- "tty", Group <- [p1 |-> 2], BufferSize <- 11,
       IcanonSize <- 5,
       Chars <- {"a", " ", "c", "\r", "VERASE", "VWERASE", "VKILL"},
       Output <- {}, Typing <- 1, Modes <- {{"ICANON", "IGNCR"}},
       ReadSizes <- {3}
-----------------------------------------------------------------------------
(***************************************************************************)
(* The system calls (syscall/syscall.c and the files beside it) as scripts *)
(* of steps: what each one checks, takes, does and gives back, and in      *)
(* which order.  Any step that can fail may fail; the handler then frees   *)
(* what the code frees there and returns an error.                         *)
(*                                                                         *)
(* What the functions that are called do is the subject of the other       *)
(* modules.                                                                *)
(***************************************************************************)

(* A step: test may fail; check makes a user pointer usable; get takes a    *)
(* resource and put gives it back; use reads or writes user memory; effect  *)
(* changes the kernel's state for good.                                     *)
CallStep(op, arg, errs, frees) == [op |-> op, arg |-> arg, errs |-> errs, frees |-> frees]
Test(errs) == CallStep("test", "-", errs, {})
Check(p) == CallStep("check", p, {"EFAULT"}, {})
Get(r, errs, frees) == CallStep("get", r, errs, frees)
Put(r) == CallStep("put", r, {}, {})
Use(p) == CallStep("use", p, {}, {})
Effect(e, errs, frees) == CallStep("effect", e, errs, frees)

-----------------------------------------------------------------------------
(* Programs and processes.                                                  *)

OpenErrors == {"ENOENT", "EINVAL"}

ExecveForgets ==
  <<Check("path"), Use("path"), Get("node", OpenErrors, {}), CallStep("test", "-", {"EISDIR", "ENOEXEC"}, {"node"}),
    CallStep("check", "argv", {"EFAULT"}, {"node"}), Use("argv"), Get("arg", {"ENOMEM"}, {"node"}),
    Get("alt", {"ENOMEM"}, {"arg", "node"}),
    CallStep("test", "-", {"ENOMEM", "ENOEXEC"}, {"alt", "node"}), Put("alt"), Effect("image", {}, {}), Put("arg"), Put("node")>>

\* arg_create checks what argv and envp point to while it copies them.
Execve ==
  <<Check("path"), Use("path"), Get("node", OpenErrors, {}), CallStep("test", "-", {"EISDIR", "ENOEXEC"}, {"node"}),
    CallStep("check", "argv", {"EFAULT"}, {"node"}), Use("argv"), Get("arg", {"ENOMEM"}, {"node"}),
    Get("alt", {"ENOMEM"}, {"arg", "node"}),
    CallStep("test", "-", {"ENOMEM", "ENOEXEC"}, {"alt", "arg", "node"}),
    CallStep("test", "-", {"ENOMEM"}, {"alt", "arg", "node"}),
    Effect("cmdline", {"ENOMEM"}, {"alt", "arg", "node"}),
    Put("alt"), Effect("image", {}, {}), Put("arg"), Put("node"), Effect("close_fds", {}, {})>>

\* What is no program itself is given to /bin/ld-dancy.
ExecveLd ==
  <<Check("path"), Use("path"), Get("node", OpenErrors, {}), CallStep("test", "-", {"EISDIR", "ENOEXEC"}, {"node"}),
    CallStep("check", "argv", {"EFAULT"}, {"node"}), Use("argv"), Get("arg", {"ENOMEM"}, {"node"}),
    Get("alt", {"ENOMEM"}, {"arg", "node"}),
    Get("ld_node", {"ENOEXEC"}, {"alt", "arg", "node"}), Put("ld_node"),
    CallStep("test", "-", {"ENOMEM", "ENOEXEC"}, {"alt", "arg", "node"}),
    CallStep("test", "-", {"ENOMEM"}, {"alt", "arg", "node"}),
    Effect("cmdline", {"ENOMEM"}, {"alt", "arg", "node"}),
    Put("alt"), Effect("image", {}, {}), Put("arg"), Put("node"), Effect("close_fds", {}, {})>>

\* The child deletes the arguments when nothing fails.
Spawn ==
  <<Check("path"), Use("path"), Get("node", OpenErrors, {}), CallStep("test", "-", {"EISDIR", "ENOEXEC"}, {"node"}),
    CallStep("check", "argv", {"EFAULT"}, {"node"}), Use("argv"), Get("arg", {"ENOMEM"}, {"node"}),
    Effect("child", {"ENOMEM", "EINVAL", "EPERM", "ENOEXEC"}, {"arg", "node"}), Put("arg"), Put("node")>>

\* A failure after the old image is gone ends the task.
Arctic ==
  <<Check("address"), Test({"EINVAL"}), Check("argv"), Use("argv"), Get("arg", {"ENOMEM"}, {}),
    Effect("image", {}, {}), CallStep("test", "-", {"exit"}, {"arg"}), Put("arg")>>

Exit == <<Effect("exit", {}, {})>>

\* status may be null; a child is gone when its status is written.
WaitStatusLate ==
  <<Effect("reap", {"EINTR", "ECHILD"}, {}), Check("status"), Use("status")>>

Wait == <<Check("status"), Effect("reap", {"EINTR", "ECHILD"}, {}), Use("status")>>
WaitPid == <<Check("status"), Effect("reap", {"EINTR", "ECHILD", "zero"}, {}), Use("status")>>

Kill == <<Test({"EPERM"}), Effect("signal", {"EPERM", "ESRCH", "EINVAL"}, {})>>
GetId == <<Test({"EINVAL"}), Test({"ESRCH", "EINVAL"})>>
ProcList == <<Test({"ENOMEM"}), Check("buffer"), Use("buffer"), Test({"ENOMEM", "EACCES"})>>
ProcInfo == <<Test({"ENOMEM"}), Check("buffer"), Use("buffer"), Test({"ENOMEM", "ESRCH", "EACCES"})>>
Reboot == <<Test({"EPERM", "EINVAL"}), Effect("reboot", {}, {})>>

-----------------------------------------------------------------------------
(* Files.                                                                   *)

\* vfs_open may create the file or cut it off before a descriptor is found.
SyscallOpen ==
  <<Check("path"), Use("path"),
    Effect("file", {"EINVAL", "ENOENT", "ENOMEM", "ENOTDIR", "EISDIR", "EBUSY", "ENOSPC", "EACCES", "EIO"}, {}),
    Test({"EMFILE"}), Effect("fd", {}, {})>>
Close == <<Effect("close", {"EBADF", "EIO"}, {})>>
Read == <<Check("buffer"), Use("buffer"), Effect("read", {"EINTR", "EBADF", "EAGAIN", "EISDIR", "EPIPE", "EINVAL", "EIO"}, {})>>
Write == <<Check("buffer"), Use("buffer"), Effect("write", {"EINTR", "EBADF", "EAGAIN", "EISDIR", "ENOSPC", "EACCES", "EPIPE", "EIO"}, {})>>
Pipe == <<Check("out_fd"), Effect("fd", {"EMFILE", "ENFILE"}, {}), Use("out_fd")>>
Dup == <<Effect("fd", {"EMFILE", "EBADF"}, {})>>
Lseek == <<Effect("offset", {"EBADF", "ESPIPE", "EINVAL"}, {})>>
Fcntl == <<Effect("flags", {"EBADF", "EINVAL"}, {})>>
Ioctl == <<Test({"EINVAL"}), Check("arg"), Use("arg"), Effect("device", {"EBADF", "ENOTTY", "EINVAL"}, {})>>

\* The name is written by way of a buffer of the kernel.
OpenPty ==
  <<Check("out_fd"), Check("termios"), Check("winsize"), Check("name"), Use("termios"), Use("winsize"),
    Effect("fd", {"EMFILE", "ENOMEM", "ENOENT"}, {}), Use("name"), Use("out_fd")>>

GetCwd == <<Test({"EINVAL"}), Check("buffer"), Use("buffer"), Test({"ERANGE", "EACCES"})>>
GetDents == <<Check("buffer"), Use("buffer"), Effect("offset", {"EBADF", "EOVERFLOW", "ENOENT"}, {})>>
ChDir == <<Check("path"), Use("path"), Effect("cwd", {"ENOTDIR", "ENOENT"}, {})>>
RmDir == <<Check("path"), Use("path"), Effect("remove", {"ENOTDIR", "EBUSY", "EACCES", "ENOTEMPTY", "ENOENT"}, {})>>
Unlink == <<Check("path"), Use("path"), Effect("remove", {"EPERM", "EBUSY", "EACCES", "ENOENT"}, {})>>
RenameOne == <<Check("old"), Use("old"), Use("new"), Check("new"), Effect("rename", {"EBUSY", "EXDEV", "EINVAL"}, {})>>
Rename == <<Check("old"), Check("new"), Use("old"), Use("new"), Effect("rename", {"EBUSY", "EXDEV", "EINVAL"}, {})>>
RealPath == <<Check("path"), Check("buffer"), Use("path"), Use("buffer"), Test({"EINVAL", "ENOENT", "ENOMEM", "EOVERFLOW", "EIO"})>>

\* By path, or by descriptor, whose entry is locked while its node is taken.
StatPath ==
  <<Test({"EINVAL"}), Check("buffer"), Check("path"), Use("path"), Get("node", {"ENOENT", "EINVAL"}, {}),
    CallStep("test", "-", {"EIO"}, {"node"}), Use("buffer"), Put("node")>>
StatFd ==
  <<Test({"EINVAL"}), Check("buffer"), Test({"EBADF"}), Get("entry_lock", {}, {}), Get("node", {}, {}), Put("entry_lock"),
    CallStep("test", "-", {"EIO"}, {"node"}), Use("buffer"), Put("node")>>

-----------------------------------------------------------------------------
(* Memory, time and the rest.                                               *)

\* pg_map_user maps page after page and leaves them when there is no more memory.
Mmap == <<Check("options"), Use("options"), Test({"EINVAL"}), Test({"ENOTSUP"}), Effect("pages", {"ENOMEM"}, {}), Test({"ENOMEM"})>>
Munmap == <<Test({"EINVAL"}), Effect("map", {"EINVAL"}, {})>>
Mprotect == <<Test({"EINVAL"}), Test({"ENOTSUP"}), Effect("map", {}, {})>>
Msync == <<Test({"EINVAL"}), CallStep("check", "address", {"ENOMEM"}, {})>>
Sleep == <<Check("request"), Check("remain"), Use("request"), Use("remain"), Test({"EINTR", "ENOTSUP", "EINVAL"})>>
Time == <<Test({"EINVAL"}), Check("tp"), Use("tp")>>
Errno == <<Check("buffer"), Test({"EINVAL"}), Use("buffer")>>
MemUsage == <<Test({"EINVAL"})>>
SigPending == <<Check("out"), Use("out")>>
SigProcMask == <<Test({"EINVAL"}), Check("set"), Use("set"), Check("out"), Use("out"), Effect("mask", {}, {})>>

\* The signal mask is another one while the call waits.
Poll ==
  <<Test({"EINVAL"}), Check("fds"), Check("sigmask"), Use("sigmask"), Get("mask", {}, {}), Use("fds"),
    CallStep("test", "-", {"EINTR", "EAGAIN", "EINVAL"}, {"mask"}), Put("mask")>>

Handlers ==
  [exit |-> Exit, time |-> Time, execve |-> Execve, execve_ld |-> ExecveLd, spawn |-> Spawn, wait |-> Wait, waitpid |-> WaitPid,
   open |-> SyscallOpen, close |-> Close, read |-> Read, write |-> Write, pipe |-> Pipe, dup |-> Dup, lseek |-> Lseek,
   fcntl |-> Fcntl, getcwd |-> GetCwd, getdents |-> GetDents, chdir |-> ChDir, rmdir |-> RmDir,
   unlink |-> Unlink, rename |-> Rename, stat |-> StatPath, stat_fd |-> StatFd, sleep |-> Sleep,
   mmap |-> Mmap, munmap |-> Munmap, mprotect |-> Mprotect, msync |-> Msync, getpid |-> <<>>, getppid |-> <<>>,
   realpath |-> RealPath, kill |-> Kill, poll |-> Poll, ioctl |-> Ioctl, getpgid |-> GetId, getsid |-> GetId,
   openpty |-> OpenPty, memusage |-> MemUsage, reboot |-> Reboot, sigpending |-> SigPending,
   sigprocmask |-> SigProcMask, proclist |-> ProcList, procinfo |-> ProcInfo,
   errno |-> Errno, arctic |-> Arctic, reserved |-> <<Test({"EINVAL"})>>]

\* handler_array.
HandlerArray ==
  <<"exit", "time", "execve", "spawn", "wait", "waitpid", "open", "close", "read", "write", "pipe", "dup", "lseek",
    "fcntl", "getcwd", "getdents", "chdir", "rmdir", "unlink", "rename", "stat", "sleep", "mmap", "munmap",
    "mprotect", "msync", "getpid", "getppid", "realpath", "kill", "poll", "ioctl", "getpgid", "getsid", "openpty",
    "memusage", "reboot", "sigpending", "sigprocmask", "proclist", "procinfo", "errno", "arctic", "reserved">>

Calls == DOMAIN Handlers
Optional == {"status", "termios", "winsize", "name", "tp", "remain", "set", "out", "sigmask"}

ValidTo(n) == n > 0 /\ n <= Len(HandlerArray) + 1

\* arg0 is between __dancy_syscall_arg0__ and __dancy_syscall_argn__.
Valid(n) == n > 0 /\ n < Len(HandlerArray) + 1

\* What is at a place of the array; beyond its end is no handler.
CallEntry(n) == IF n \in DOMAIN HandlerArray THEN HandlerArray[n] ELSE "beyond"

syscallVars == <<callsCall, callsAt, null, checked, held, done, used, result, calls>>

SyscallInit ==
  /\ callsCall = "none" /\ callsAt = 0 /\ null = {} /\ checked = {} /\ held = {} /\ done = {} /\ used = {}
  /\ result = "idle" /\ calls = 0

\* stat goes by path or by descriptor.
Ways(c) == IF c = "stat" THEN {"stat", "stat_fd"} ELSE IF c = "execve" THEN {"execve", "execve_ld"} ELSE {c}

\* syscall_handler.
Call(n) ==
  /\ result # "none" /\ calls < MaxCalls /\ calls' = calls + 1
  /\ IF Valid(n) THEN /\ callsCall' \in Ways(CallEntry(n))
                      /\ result' = "none"
     ELSE callsCall' = callsCall /\ result' = "EINVAL"
  /\ callsAt' = 1 /\ null' \in SUBSET Optional
  /\ \A p \in null' : callsCall' \in Calls /\ \E i \in DOMAIN Handlers[callsCall'] : Handlers[callsCall'][i].arg = p
  /\ checked' = {} /\ held' = {} /\ done' = {} /\ used' = {}

SyscallTypeOK ==
  /\ callsCall \in Calls \cup {"none"} /\ null \subseteq Optional
  /\ (result = "none") => callsCall \in Calls /\ callsAt \in 1 .. Len(Handlers[callsCall]) + 1

\* The next step works; steps about a null pointer are left out.
Works ==
  /\ result = "none" /\ callsAt <= Len(Handlers[callsCall]) /\ callsAt' = callsAt + 1
  /\ LET s == Handlers[callsCall][callsAt] IN
     /\ checked' = IF s.op = "check" /\ s.arg \notin null THEN checked \cup {s.arg} ELSE checked
     /\ used' = IF s.op = "use" /\ s.arg \notin null THEN used \cup {s.arg} ELSE used
     /\ held' = IF s.op = "get" THEN held \cup {s.arg} ELSE IF s.op = "put" THEN held \ {s.arg} ELSE held
     /\ done' = IF s.op = "effect" THEN done \cup {s.arg} ELSE done
  /\ UNCHANGED <<callsCall, null, result, calls>>

\* It fails: what the code frees there is freed.
Fails ==
  /\ result = "none" /\ callsAt <= Len(Handlers[callsCall])
  /\ LET s == Handlers[callsCall][callsAt] IN
     /\ s.arg \notin null /\ s.frees \subseteq held
     /\ result' \in s.errs /\ held' = held \ s.frees
  /\ UNCHANGED <<callsCall, callsAt, null, checked, done, used, calls>>

Returns ==
  /\ result = "none" /\ callsAt = Len(Handlers[callsCall]) + 1 /\ result' = "ok"
  /\ UNCHANGED <<callsCall, callsAt, null, checked, held, done, used, calls>>

SyscallNext == (\E n \in 0 .. Len(HandlerArray) + 1 : Call(n)) \/ Works \/ Fails \/ Returns

-----------------------------------------------------------------------------
(* Whatever step fails, a call gives back what it took: nodes, copies of    *)
(* arguments, the alternative page tables, locks.                           *)
SyscallNothingLeaks == result # "none" => held = {}

(* User memory is read or written only when it was checked before.          *)
CheckedBeforeUse == used \subseteq checked

\* What an error may leave behind.
Left(e) == IF e = "EMFILE" THEN {"file"} ELSE IF e = "ENOMEM" THEN {"pages"} ELSE {}

(* A call that reports an error has changed nothing: no descriptors, no     *)
(* child that is gone, no new image. There are two exceptions: open may     *)
(* have created a file or cut it off when no descriptor is left (file.c     *)
(* 235-245), and mmap leaves the pages it has mapped when memory runs out   *)
(* (pg.c 1172-1188). (The arctic call ends the task.) What one call of the  *)
(* tree or of a device does before it fails is not looked into here.        *)
FailsWhole == (result \notin {"none", "ok", "exit"}) => done \subseteq Left(result)
-----------------------------------------------------------------------------
(***************************************************************************)
(* The nodes of pseudo terminals (vfs/pty.c): pty_create publishes the     *)
(* secondary node in pty_array and opens it by its name, n_open_pts finds  *)
(* it there, and n_release takes it out and frees what both nodes share.   *)
(* pty_array does not count as a user of the node.                         *)
(*                                                                         *)
(* The tree comes between (vfs/vfs.c): an open node is in the tree, counts *)
(* once more for that, and its n_release is the tree's, which takes it out *)
(* of the tree when tree_state is 0 and then calls that of pty.c. What     *)
(* happens under tree_mtx is a step, or two around n_open_pts; the counts  *)
(* of a node change under its own lock, and where a release by the other   *)
(* path or the last line of pty_create falls within such a step, it acts   *)
(* as if it came before. Sections under pty_array_lock and the lock of the *)
(* shared data are steps.                                                  *)
(***************************************************************************)

NoPty == "NULL"
NoTask == "NULL"
PtyNode == Ptys \X {"main", "secondary"}

memory == <<shared, nodesNodes>>
inVfs == <<inTree, treeState, locker, overtaken>>
ptyVars == <<array, memory, index, nshared, nodesCount, nodesHolds, nodesPc, nodesArg, inVfs>>

PtyTypeOK ==
  /\ array \in [0 .. (ArrayCount - 1) -> Ptys \cup {NoPty}]
  /\ shared \subseteq Ptys /\ nodesNodes \subseteq PtyNode
  /\ index \in [Ptys -> 0 .. ArrayCount] /\ nshared \in [Ptys -> 0 .. 2]
  /\ nodesCount \in [PtyNode -> Nat] /\ nodesHolds \in [Openers -> SUBSET PtyNode]
  /\ nodesPc \in [Openers -> {"idle", "publish", "open", "addown", "undo", "add", "tree", "direct",
                              "release", "unshare", "free", "panic"}]
  /\ nodesArg \in [Openers -> PtyNode]
  /\ inTree \subseteq PtyNode /\ treeState \in [PtyNode -> Nat]
  /\ locker \in Openers \cup {NoTask} /\ overtaken \subseteq Openers

PtyInit ==
  /\ array = [i \in 0 .. (ArrayCount - 1) |-> NoPty]
  /\ shared = {} /\ nodesNodes = {}
  /\ index = [p \in Ptys |-> 0] /\ nshared = [p \in Ptys |-> 0]
  /\ nodesCount = [n \in PtyNode |-> 0]
  /\ nodesHolds = [t \in Openers |-> {}]
  /\ nodesPc = [t \in Openers |-> "idle"]
  /\ nodesArg = [t \in Openers |-> CHOOSE n \in PtyNode : TRUE]
  /\ inTree = {} /\ treeState = [n \in PtyNode |-> 0] /\ locker = NoTask /\ overtaken = {}

Main(p) == <<p, "main">>
Secondary(p) == <<p, "secondary">>
Sole(p) == p = CHOOSE q \in Ptys : q \notin shared

At(t, here, there) == nodesPc[t] = here /\ nodesPc' = [nodesPc EXCEPT ![t] = there]

-----------------------------------------------------------------------------
\* pty_create: the shared data, its events and both nodes are allocated, each
\* with the one reference that its caller will get.
Create(t, p) ==
  /\ p \notin shared /\ Sole(p)
  /\ At(t, "idle", "publish")
  /\ nodesArg' = [nodesArg EXCEPT ![t] = Secondary(p)]
  /\ shared' = shared \cup {p} /\ nodesNodes' = nodesNodes \cup {Main(p), Secondary(p)}
  /\ nshared' = [nshared EXCEPT ![p] = 2]
  /\ index' = [index EXCEPT ![p] = ArrayCount]
  /\ nodesCount' = [nodesCount EXCEPT ![Main(p)] = 1, ![Secondary(p)] = 1]
  /\ nodesHolds' = [nodesHolds EXCEPT ![t] = @ \cup {Main(p), Secondary(p)}]
  /\ treeState' = [treeState EXCEPT ![Main(p)] = 0, ![Secondary(p)] = 0]
  /\ UNCHANGED <<array, inTree, locker, overtaken>>

FreeSlots == {i \in DOMAIN array : array[i] = NoPty}

Publish(t) ==
  LET p == nodesArg[t][1] IN
  /\ FreeSlots # {}
  /\ At(t, "publish", "open")
  /\ array' = [array EXCEPT ![Min(FreeSlots)] = p]
  /\ index' = [index EXCEPT ![p] = Min(FreeSlots)]
  /\ UNCHANGED <<memory, nshared, nodesCount, nodesHolds, nodesArg, inVfs>>

\* No memory for one of the parts, or no free index: everything is freed.
CreateFails(t) ==
  LET p == nodesArg[t][1] IN
  /\ At(t, "publish", "idle")
  /\ shared' = shared \ {p} /\ nodesNodes' = nodesNodes \ {Main(p), Secondary(p)}
  /\ nodesHolds' = [nodesHolds EXCEPT ![t] = @ \ {Main(p), Secondary(p)}]
  /\ UNCHANGED <<array, index, nshared, nodesCount, nodesArg, inVfs>>

-----------------------------------------------------------------------------
\* find_node: the nodes of the tree that have the name i.
Seen(i) == {n \in inTree : index[n[1]] = i}

\* n_open_pts finds a node at index i.
PtyFound(i) == array[i] # NoPty

\* vfs_increment_count and set_tree_state.
CountNode(n) ==
  /\ nodesCount' = [nodesCount EXCEPT ![n] = @ + 1]
  /\ treeState' = [treeState EXCEPT ![n] = @ + 1]

\* vfs_open finds the name i in the tree.
OpenSeen(t, i) ==
  /\ nodesPc[t] = "idle" /\ locker = NoTask
  /\ \E n \in Seen(i) \ nodesHolds[t] :
       CountNode(n) /\ nodesHolds' = [nodesHolds EXCEPT ![t] = @ \cup {n}]
  /\ UNCHANGED <<array, memory, index, nshared, nodesPc, nodesArg, inTree, locker, overtaken>>

\* It does not, and n_open_pts does; the tree stays locked.
OpenPts(t, i) ==
  /\ At(t, "idle", "add") /\ locker = NoTask /\ locker' = t
  /\ Seen(i) = {} /\ PtyFound(i) /\ Secondary(array[i]) \notin nodesHolds[t]
  /\ nodesArg' = [nodesArg EXCEPT ![t] = Secondary(array[i])]
  /\ nodesCount' = [nodesCount EXCEPT ![Secondary(array[i])] = @ + 1]
  /\ UNCHANGED <<array, memory, index, nshared, nodesHolds, inTree, treeState, overtaken>>

\* set_n_release and add_node; the caller of vfs_open is counted.
OpenAdd(t) ==
  /\ At(t, "add", "idle") /\ locker' = NoTask
  /\ inTree' = inTree \cup {nodesArg[t]} /\ CountNode(nodesArg[t])
  /\ nodesHolds' = [nodesHolds EXCEPT ![t] = @ \cup {nodesArg[t]}]
  /\ UNCHANGED <<array, memory, index, nshared, nodesArg, overtaken>>

Panics(t) ==
  /\ nodesPc' = [nodesPc EXCEPT ![t] = "panic"]
  /\ UNCHANGED <<array, memory, index, nshared, nodesCount, nodesHolds, nodesArg, inVfs>>

\* vfs_open by pty_create, which knows the node it wants. Another task may have
\* opened it in between.
OpenCreatedSeen(t) ==
  LET i == index[nodesArg[t][1]] IN
  /\ nodesPc[t] = "open" /\ locker = NoTask
  /\ \E n \in Seen(i) :
       \/ /\ n = nodesArg[t] /\ CountNode(n) /\ nodesPc' = [nodesPc EXCEPT ![t] = "undo"]
          /\ UNCHANGED <<array, memory, index, nshared, nodesHolds, nodesArg, inTree, locker, overtaken>>
       \/ n # nodesArg[t] /\ Panics(t)

OpenCreated(t) ==
  LET i == index[nodesArg[t][1]] IN
  /\ nodesPc[t] = "open" /\ locker = NoTask /\ Seen(i) = {}
  /\ \/ /\ PtyFound(i) /\ array[i] = nodesArg[t][1]
        /\ nodesPc' = [nodesPc EXCEPT ![t] = "addown"] /\ locker' = t
        /\ nodesCount' = [nodesCount EXCEPT ![nodesArg[t]] = @ + 1]
        /\ UNCHANGED <<array, memory, index, nshared, nodesHolds, nodesArg, inTree, treeState, overtaken>>
     \/ array[i] # nodesArg[t][1] /\ Panics(t)

AddCreated(t) ==
  /\ At(t, "addown", "undo") /\ locker' = NoTask
  /\ inTree' = inTree \cup {nodesArg[t]} /\ CountNode(nodesArg[t])
  /\ UNCHANGED <<array, memory, index, nshared, nodesHolds, nodesArg, overtaken>>

\* tree_state goes down with the count, if it can.
Lowered(n) == [treeState EXCEPT ![n] = IF @ > 0 THEN @ - 1 ELSE 0]

\* pty_create drops the reference that vfs_open took for it. With it goes one
\* from tree_state, which is one less than the users of the node from now on.
CreateDone(t) ==
  /\ nodesPc[t] = "undo"
  /\ \/ /\ nodesCount[nodesArg[t]] > 1 /\ nodesPc' = [nodesPc EXCEPT ![t] = "idle"]
        /\ nodesCount' = [nodesCount EXCEPT ![nodesArg[t]] = @ - 1]
        /\ treeState' = Lowered(nodesArg[t])
        /\ UNCHANGED <<array, memory, index, nshared, nodesHolds, nodesArg, inTree, locker, overtaken>>
     \/ nodesCount[nodesArg[t]] <= 1 /\ Panics(t)

-----------------------------------------------------------------------------
\* The caller of n_release reads which one it is, without a lock.
PtyRelease(t, n) ==
  /\ n \in nodesHolds[t]
  /\ At(t, "idle", IF n \in inTree THEN "tree" ELSE "direct")
  /\ nodesArg' = [nodesArg EXCEPT ![t] = n]
  /\ UNCHANGED <<array, memory, index, nshared, nodesCount, nodesHolds, inVfs>>

\* n_release of pty.c with pty_array_lock, for the last of k references: the
\* secondary node leaves the array.
Drops(t, n, k) ==
  /\ nodesCount' = [nodesCount EXCEPT ![n] = @ - k]
  /\ nodesHolds' = [nodesHolds EXCEPT ![t] = @ \ {n}]
  /\ array' = IF nodesCount[n] = k /\ n[2] = "secondary" THEN [array EXCEPT ![index[n[1]]] = NoPty] ELSE array
  /\ nodesPc' = [nodesPc EXCEPT ![t] = IF nodesCount[n] = k THEN "release" ELSE "idle"]

DirectRelease(t) ==
  LET n == nodesArg[t] IN
  /\ nodesPc[t] = "direct"
  /\ Drops(t, n, 1) /\ treeState' = Lowered(n)
  /\ UNCHANGED <<memory, index, nshared, nodesArg, inTree, locker, overtaken>>

\* n_release of the tree: others keep the node there.
TreeRelease(t) ==
  LET n == nodesArg[t] IN
  /\ At(t, "tree", "idle") /\ locker = NoTask /\ treeState[n] > 1
  /\ nodesCount' = [nodesCount EXCEPT ![n] = @ - 1] /\ treeState' = Lowered(n)
  /\ nodesHolds' = [nodesHolds EXCEPT ![t] = @ \ {n}]
  /\ UNCHANGED <<array, memory, index, nshared, nodesArg, inTree, locker, overtaken>>

\* remove_leaf_node, unset_n_release and n_release of pty.c, for the reference
\* of the tree. Whoever has read the old n_release finds no node in the tree.
TreeRemove(t) ==
  LET n == nodesArg[t] IN
  /\ nodesPc[t] = "tree" /\ locker = NoTask /\ treeState[n] <= 1 /\ n \in inTree
  /\ inTree' = inTree \ {n} /\ Drops(t, n, 2) /\ treeState' = Lowered(n)
  /\ overtaken' = overtaken \cup {u \in Openers \ {t} : nodesPc[u] = "tree" /\ nodesArg[u] = n}
  /\ locker' = IF nodesCount[n] = 2 THEN t ELSE NoTask
  /\ UNCHANGED <<memory, index, nshared, nodesArg>>

\* remove_leaf_node comes to the end of the list.
TreePanic(t) ==
  /\ nodesPc[t] = "tree" /\ locker = NoTask /\ treeState[nodesArg[t]] <= 1 /\ nodesArg[t] \notin inTree
  /\ Panics(t)

\* The tree is unlocked when n_release returns.
Leaves(t) == locker' = IF locker = t THEN NoTask ELSE locker

FreeNode(t) ==
  /\ At(t, "release", "unshare")
  /\ nodesNodes' = nodesNodes \ {nodesArg[t]}
  /\ UNCHANGED <<array, shared, index, nshared, nodesCount, nodesHolds, nodesArg, inVfs>>

LastShare(p) == nshared[p] = 1

Unshare(t) ==
  LET p == nodesArg[t][1] IN
  /\ nodesPc[t] = "unshare"
  /\ nshared' = [nshared EXCEPT ![p] = @ - 1]
  /\ nodesPc' = [nodesPc EXCEPT ![t] = IF LastShare(p) THEN "free" ELSE "idle"]
  /\ IF LastShare(p) THEN UNCHANGED locker ELSE Leaves(t)
  /\ UNCHANGED <<array, memory, index, nodesCount, nodesHolds, nodesArg, inTree, treeState, overtaken>>

\* The events and the shared data are deleted.
FreeShared(t) ==
  /\ At(t, "free", "idle")
  /\ shared' = shared \ {nodesArg[t][1]} /\ Leaves(t)
  /\ UNCHANGED <<array, nodesNodes, index, nshared, nodesCount, nodesHolds, nodesArg, inTree, treeState, overtaken>>

\* A panic stops everything.
PtyNext ==
  /\ \A t \in Openers : nodesPc[t] # "panic"
  /\ \E t \in Openers :
       \/ \E p \in Ptys : Create(t, p)
       \/ Publish(t) \/ CreateFails(t)
       \/ OpenCreatedSeen(t) \/ OpenCreated(t) \/ AddCreated(t) \/ CreateDone(t)
       \/ \E i \in DOMAIN array : OpenSeen(t, i) \/ OpenPts(t, i)
       \/ OpenAdd(t)
       \/ \E n \in PtyNode : PtyRelease(t, n)
       \/ DirectRelease(t) \/ TreeRelease(t) \/ TreeRemove(t) \/ TreePanic(t)
       \/ FreeNode(t) \/ Unshare(t) \/ FreeShared(t)

-----------------------------------------------------------------------------
(***************************************************************************)
(* A node that a task has, that is in the tree or that can be found in     *)
(* /dev/pts is allocated, and so is the data it shares: no reader or       *)
(* writer works on freed buffers, however opens and releases of both sides *)
(* are ordered, and no index of the array is given to two ptys.            *)
(***************************************************************************)
UsedIsAllocated ==
  /\ \A t \in Openers, n \in PtyNode : n \in nodesHolds[t] => n \in nodesNodes /\ n[1] \in shared
  /\ inTree \subseteq nodesNodes
  /\ \A i \in DOMAIN array :
       PtyFound(i) => Secondary(array[i]) \in nodesNodes /\ array[i] \in shared /\ index[array[i]] = i

(***************************************************************************)
(* Everything is given back: what nobody uses and nobody is creating or    *)
(* releasing has left the tree and is freed, and its index can be used     *)
(* again, although tree_state and the count are not the same any more.     *)
(***************************************************************************)
PtyNothingLeaks ==
  (\A t \in Openers : nodesPc[t] = "idle") =>
    /\ nodesNodes = {n \in PtyNode : \E t \in Openers : n \in nodesHolds[t]}
    /\ inTree \subseteq nodesNodes
    /\ shared = {n[1] : n \in nodesNodes}
    /\ \A i \in DOMAIN array : PtyFound(i) => Secondary(array[i]) \in nodesNodes

(***************************************************************************)
(* pty_create opens its own secondary node by the name it has published:   *)
(* none of its three panics is reached. The panic of remove_leaf_node is   *)
(* reached by one task only: it releases the last reference, and has read  *)
(* n_release (file.c, node->n_release) before another release took the     *)
(* node out of the tree. tree_state should have kept the node there, but   *)
(* pty_create has lowered it once too often (pty.c:1024).                  *)
(***************************************************************************)
OpensItsOwn ==
  \A t \in Openers : nodesPc[t] = "panic" =>
    /\ t \in overtaken
    /\ \A u \in Openers : u # t => nodesArg[t] \notin nodesHolds[u]
-----------------------------------------------------------------------------
(***************************************************************************)
(* The parts share no variable, so a property of one of them holds when    *)
(* they run together if it holds when the others stand still. A behaviour  *)
(* therefore moves one part, chosen at the start.                          *)
(***************************************************************************)
pipeVars ==
  <<base, start, end, pipeCount, signal, freed, pipeHolds, pipePc, nonblock,
    req, size, pipeR, sum, stream, received>>
linesVars ==
  <<buffer, event, icanon, eof, termios, group, sigs, lock, rest, raw>>
vars ==
  <<part, tableVars, pipeVars, vfsVars, linesVars, syscallVars, ptyVars>>

TableMoves ==
  /\ part = "table"
  /\ UNCHANGED <<part, pipeVars, vfsVars, linesVars, syscallVars, ptyVars>>
PipeMoves ==
  /\ part = "pipe"
  /\ UNCHANGED <<part, tableVars, vfsVars, linesVars, syscallVars, ptyVars>>
TreeMoves ==
  /\ part = "tree"
  /\ UNCHANGED <<part, tableVars, pipeVars, linesVars, syscallVars, ptyVars>>
LinesMoves ==
  /\ part = "lines"
  /\ UNCHANGED <<part, tableVars, pipeVars, vfsVars, syscallVars, ptyVars>>
EchoMoves ==
  /\ part = "echo"
  /\ UNCHANGED <<part, tableVars, pipeVars, vfsVars, syscallVars, ptyVars>>
WordsMoves ==
  /\ part = "words"
  /\ UNCHANGED <<part, tableVars, pipeVars, vfsVars, syscallVars, ptyVars>>
CallsMoves ==
  /\ part = "calls"
  /\ UNCHANGED <<part, tableVars, pipeVars, vfsVars, linesVars, ptyVars>>
NodesMoves ==
  /\ part = "nodes"
  /\ UNCHANGED <<part, tableVars, pipeVars, vfsVars, linesVars, syscallVars>>

Init ==
  /\ part \in {"table", "pipe", "tree", "lines", "echo", "words", "calls",
        "nodes"}
  /\ TableInit /\ PipeOf!Init /\ VfsInit
  /\ (part \notin {"echo", "words"} => Lines!Init)
  /\ (part = "echo" => Echoes!Init) /\ (part = "words" => Words!Init)
  /\ SyscallInit /\ PtyInit
  /\ Still

Next ==
  \/ TableMoves /\ TableNext
  \/ PipeMoves /\ PipeOf!Next
  \/ TreeMoves /\ VfsNext
  \/ LinesMoves /\ Lines!Next
  \/ EchoMoves /\ Echoes!Next
  \/ WordsMoves /\ Words!Next
  \/ CallsMoves /\ SyscallNext
  \/ NodesMoves /\ PtyNext

Spec ==
  /\ Init /\ [][Next]_vars
  /\ \A t \in {"r1", "w1", "w2"} : WF_pipeVars(part = "pipe" /\ PipeOf!CallStep(t))

-----------------------------------------------------------------------------
TypeOK ==
  /\ PipeOf!TypeOK
  /\ IF part = "echo" THEN Echoes!TypeOK ELSE IF part = "words" THEN Words!TypeOK ELSE Lines!TypeOK

\* Entries of the file table, nodes of the tree and nodes of pseudo terminals
\* are counted exactly, used only while they exist, and all of them are given
\* back; what is open is on the volume, and an exclusive file has one user. A
\* release of a pseudo terminal panics only when another overtook it (TreePanic).
NodesRight ==
  /\ TableTypeOK /\ VfsTypeOK /\ PtyTypeOK
  /\ CountIsReferences /\ AllocatedFresh
  /\ NodeWhileUsed /\ NoEntryLost
  /\ CountsExact /\ HeldIsLive /\ TreeTidy /\ OpenIsOnDisk /\ ExclusiveAlone
  /\ UsedIsAllocated /\ PtyNothingLeaks /\ OpensItsOwn

\* A pipe loses, repeats and tears no byte, and a terminal gives its programs
\* whole lines; whoever can go on reading is woken.
BytesRight ==
  /\ TypeOK
  /\ PipeOf!Fifo /\ PipeOf!SmallWritesWhole /\ PipeOf!WriterInOrder
  /\ PipeOf!ReadyIsSignalled /\ PipeOf!FreedUnused
  /\ part = "lines" => Lines!LineFits /\ Lines!WholeLines
  /\ Lines!ReadyIsSignalled

\* A system call checks what it uses, gives back what it took and, when it
\* fails, has changed nothing but what Left names of open and mmap.
CallsRight == SyscallTypeOK /\ SyscallNothingLeaks /\ CheckedBeforeUse /\ FailsWhole

\* The end of a file is reported when nothing is left, by a pipe and by a
\* terminal; a mounted file system stays; an interrupt is taken, a line is
\* passed on whole, and erasing takes whole characters.
StepsRight ==
  [][ /\ PipeOf!EofIsFinal /\ MountStays
      /\ Lines!EofNotSwallowed /\ Lines!InterruptTaken /\ Lines!NothingLost
      /\ Words!ErasesCharacters ]_vars

\* When the other end of a pipe is closed, every blocked read and write returns.
ClosedUnblocks == PipeOf!ClosedUnblocks
=============================================================================
