---------------------------- MODULE FilesProofs -----------------------------
(***************************************************************************)
(* Proofs about module Files.                                              *)
(*                                                                         *)
(* Whatever step of a system call fails, the call gives back what it took, *)
(* has used only what it checked, and has changed nothing. A handler is a  *)
(* script; the argument is about scripts of any length (Whole), and every  *)
(* handler is shown to be one.                                             *)
(*                                                                         *)
(* The nodes of pseudo terminals (PtyInv), the entries of the file table   *)
(* (TableInv) and the nodes of the tree (TreeInv) are counted exactly,     *)
(* whatever calls overlap: each invariant says what every call has in its  *)
(* hands at every place where another one may run.                         *)
(***************************************************************************)
EXTENDS Files, NodesProofs, FiniteSetTheorems, WellFoundedInduction, TLAPS

(***************************************************************************)
(* Scripts.                                                                *)
(***************************************************************************)
\* The arguments of the steps before k that do op.
Before(h, k, op) == {h[i].arg : i \in {j \in 1 .. k - 1 : h[j].op = op}}

\* What step i takes is not given back before step k.
Kept(h, i, k) == h[i].op = "get" /\ \A j \in i + 1 .. k - 1 : ~(h[j].op = "put" /\ h[j].arg = h[i].arg)
HeldAt(h, k) == {h[i].arg : i \in {j \in 1 .. k - 1 : Kept(h, j, k)}}

\* A step that is as it has to be: it uses what was checked, and where it
\* fails it frees all that was taken and nothing else has been changed.
StepWhole(h, k) ==
  /\ h[k].op = "use" => \E j \in 1 .. k - 1 : h[j].op = "check" /\ h[j].arg = h[k].arg
  /\ h[k].errs # {} => \A i \in 1 .. k - 1 : Kept(h, i, k) => h[i].arg \in h[k].frees
  /\ \A e \in h[k].errs : e = "exit" \/ \A j \in 1 .. k - 1 : h[j].op = "effect" => h[j].arg \in Left(e)
  /\ "none" \notin h[k].errs
Whole(h) ==
  /\ Len(h) \in Nat
  /\ \A k \in 1 .. Len(h) : StepWhole(h, k)
  /\ \A i \in 1 .. Len(h) : h[i].op = "get" => \E j \in i + 1 .. Len(h) : h[j].op = "put" /\ h[j].arg = h[i].arg

LEMMA ExecveWhole == Whole(Execve)
<1>1. \A k \in 1 .. 16 : StepWhole(Execve, k)
  BY DEF Execve, StepWhole, Kept, CallStep, Test, Check, Get, Put, Use, Effect, OpenErrors, Left
<1>. QED BY <1>1 DEF Execve, Whole, CallStep, Test, Check, Get, Put, Use, Effect

LEMMA ExecveLdWhole == Whole(ExecveLd)
<1>1. \A k \in 1 .. 18 : StepWhole(ExecveLd, k)
  BY DEF ExecveLd, StepWhole, Kept, CallStep, Test, Check, Get, Put, Use, Effect, OpenErrors, Left
<1>. QED BY <1>1 DEF ExecveLd, Whole, CallStep, Test, Check, Get, Put, Use, Effect

LEMMA SpawnWhole == Whole(Spawn)
BY DEF Spawn, Whole, StepWhole, Kept, CallStep, Test, Check, Get, Put, Use, Effect, OpenErrors, Left

LEMMA ArcticWhole == Whole(Arctic)
BY DEF Arctic, Whole, StepWhole, Kept, CallStep, Test, Check, Get, Put, Use, Effect, Left

LEMMA ExitWhole == Whole(Exit)
BY DEF Exit, Whole, StepWhole, Kept, CallStep, Test, Check, Get, Put, Use, Effect, Left

LEMMA WaitWhole == Whole(Wait)
BY DEF Wait, Whole, StepWhole, Kept, CallStep, Test, Check, Get, Put, Use, Effect, Left

LEMMA WaitPidWhole == Whole(WaitPid)
BY DEF WaitPid, Whole, StepWhole, Kept, CallStep, Test, Check, Get, Put, Use, Effect, Left

LEMMA KillWhole == Whole(Kill)
BY DEF Kill, Whole, StepWhole, Kept, CallStep, Test, Check, Get, Put, Use, Effect, Left

LEMMA GetIdWhole == Whole(GetId)
BY DEF GetId, Whole, StepWhole, Kept, CallStep, Test, Check, Get, Put, Use, Effect, Left

LEMMA ProcListWhole == Whole(ProcList)
BY DEF ProcList, Whole, StepWhole, Kept, CallStep, Test, Check, Get, Put, Use, Effect, Left

LEMMA ProcInfoWhole == Whole(ProcInfo)
BY DEF ProcInfo, Whole, StepWhole, Kept, CallStep, Test, Check, Get, Put, Use, Effect, Left

LEMMA RebootWhole == Whole(Reboot)
BY DEF Reboot, Whole, StepWhole, Kept, CallStep, Test, Check, Get, Put, Use, Effect, Left

LEMMA SyscallOpenWhole == Whole(SyscallOpen)
BY DEF SyscallOpen, Whole, StepWhole, Kept, CallStep, Test, Check, Get, Put, Use, Effect, Left

LEMMA CloseWhole == Whole(Close)
BY DEF Close, Whole, StepWhole, Kept, CallStep, Test, Check, Get, Put, Use, Effect, Left

LEMMA ReadWhole == Whole(Read)
BY DEF Read, Whole, StepWhole, Kept, CallStep, Test, Check, Get, Put, Use, Effect, Left

LEMMA WriteWhole == Whole(Write)
BY DEF Write, Whole, StepWhole, Kept, CallStep, Test, Check, Get, Put, Use, Effect, Left

LEMMA PipeWhole == Whole(Pipe)
BY DEF Pipe, Whole, StepWhole, Kept, CallStep, Test, Check, Get, Put, Use, Effect, Left

LEMMA DupWhole == Whole(Dup)
BY DEF Dup, Whole, StepWhole, Kept, CallStep, Test, Check, Get, Put, Use, Effect, Left

LEMMA LseekWhole == Whole(Lseek)
BY DEF Lseek, Whole, StepWhole, Kept, CallStep, Test, Check, Get, Put, Use, Effect, Left

LEMMA FcntlWhole == Whole(Fcntl)
BY DEF Fcntl, Whole, StepWhole, Kept, CallStep, Test, Check, Get, Put, Use, Effect, Left

LEMMA IoctlWhole == Whole(Ioctl)
BY DEF Ioctl, Whole, StepWhole, Kept, CallStep, Test, Check, Get, Put, Use, Effect, Left

LEMMA OpenPtyWhole == Whole(OpenPty)
BY DEF OpenPty, Whole, StepWhole, Kept, CallStep, Test, Check, Get, Put, Use, Effect, Left

LEMMA GetCwdWhole == Whole(GetCwd)
BY DEF GetCwd, Whole, StepWhole, Kept, CallStep, Test, Check, Get, Put, Use, Effect, Left

LEMMA GetDentsWhole == Whole(GetDents)
BY DEF GetDents, Whole, StepWhole, Kept, CallStep, Test, Check, Get, Put, Use, Effect, Left

LEMMA ChDirWhole == Whole(ChDir)
BY DEF ChDir, Whole, StepWhole, Kept, CallStep, Test, Check, Get, Put, Use, Effect, Left

LEMMA RmDirWhole == Whole(RmDir)
BY DEF RmDir, Whole, StepWhole, Kept, CallStep, Test, Check, Get, Put, Use, Effect, Left

LEMMA UnlinkWhole == Whole(Unlink)
BY DEF Unlink, Whole, StepWhole, Kept, CallStep, Test, Check, Get, Put, Use, Effect, Left

LEMMA RenameWhole == Whole(Rename)
BY DEF Rename, Whole, StepWhole, Kept, CallStep, Test, Check, Get, Put, Use, Effect, Left

LEMMA RealPathWhole == Whole(RealPath)
BY DEF RealPath, Whole, StepWhole, Kept, CallStep, Test, Check, Get, Put, Use, Effect, Left

LEMMA StatPathWhole == Whole(StatPath)
BY DEF StatPath, Whole, StepWhole, Kept, CallStep, Test, Check, Get, Put, Use, Effect, Left

LEMMA StatFdWhole == Whole(StatFd)
BY DEF StatFd, Whole, StepWhole, Kept, CallStep, Test, Check, Get, Put, Use, Effect, Left

LEMMA MmapWhole == Whole(Mmap)
BY DEF Mmap, Whole, StepWhole, Kept, CallStep, Test, Check, Get, Put, Use, Effect, Left

LEMMA MunmapWhole == Whole(Munmap)
BY DEF Munmap, Whole, StepWhole, Kept, CallStep, Test, Check, Get, Put, Use, Effect, Left

LEMMA MprotectWhole == Whole(Mprotect)
BY DEF Mprotect, Whole, StepWhole, Kept, CallStep, Test, Check, Get, Put, Use, Effect, Left

LEMMA MsyncWhole == Whole(Msync)
BY DEF Msync, Whole, StepWhole, Kept, CallStep, Test, Check, Get, Put, Use, Effect, Left

LEMMA SleepWhole == Whole(Sleep)
BY DEF Sleep, Whole, StepWhole, Kept, CallStep, Test, Check, Get, Put, Use, Effect, Left

LEMMA TimeWhole == Whole(Time)
BY DEF Time, Whole, StepWhole, Kept, CallStep, Test, Check, Get, Put, Use, Effect, Left

LEMMA ErrnoWhole == Whole(Errno)
BY DEF Errno, Whole, StepWhole, Kept, CallStep, Test, Check, Get, Put, Use, Effect, Left

LEMMA MemUsageWhole == Whole(MemUsage)
BY DEF MemUsage, Whole, StepWhole, Kept, CallStep, Test, Check, Get, Put, Use, Effect, Left

LEMMA SigPendingWhole == Whole(SigPending)
BY DEF SigPending, Whole, StepWhole, Kept, CallStep, Test, Check, Get, Put, Use, Effect, Left

LEMMA SigProcMaskWhole == Whole(SigProcMask)
BY DEF SigProcMask, Whole, StepWhole, Kept, CallStep, Test, Check, Get, Put, Use, Effect, Left

LEMMA PollWhole == Whole(Poll)
BY DEF Poll, Whole, StepWhole, Kept, CallStep, Test, Check, Get, Put, Use, Effect, Left

LEMMA EmptyWhole == Whole(<<>>)
BY DEF Whole

LEMMA ReservedWhole == Whole(<<Test({"EINVAL"})>>)
BY DEF Whole, StepWhole, Kept, CallStep, Test, Left

LEMMA HandlersWhole == \A c \in Calls : Whole(Handlers[c])
<1>1. Calls = {"exit", "time", "execve", "execve_ld", "spawn", "wait", "waitpid", "open", "close", "read", "write", "pipe",
               "dup", "lseek", "fcntl", "getcwd", "getdents", "chdir", "rmdir", "unlink",
               "rename", "stat", "stat_fd", "sleep", "mmap", "munmap", "mprotect", "msync",
               "getpid", "getppid", "realpath", "kill", "poll", "ioctl", "getpgid", "getsid",
               "openpty", "memusage", "reboot", "sigpending", "sigprocmask", "proclist",
               "procinfo", "errno", "arctic", "reserved"}
  BY Z3 DEF Calls, Handlers
<1>2. Whole(Handlers.exit)
  BY ExitWhole DEF Handlers
<1>3. Whole(Handlers.time)
  BY TimeWhole DEF Handlers
<1>4. Whole(Handlers.execve)
  BY ExecveWhole DEF Handlers
<1>5. Whole(Handlers.spawn)
  BY SpawnWhole DEF Handlers
<1>6. Whole(Handlers.wait)
  BY WaitWhole DEF Handlers
<1>7. Whole(Handlers.waitpid)
  BY WaitPidWhole DEF Handlers
<1>8. Whole(Handlers.open)
  BY SyscallOpenWhole DEF Handlers
<1>9. Whole(Handlers.close)
  BY CloseWhole DEF Handlers
<1>10. Whole(Handlers.read)
  BY ReadWhole DEF Handlers
<1>11. Whole(Handlers.write)
  BY WriteWhole DEF Handlers
<1>12. Whole(Handlers.pipe)
  BY PipeWhole DEF Handlers
<1>13. Whole(Handlers.dup)
  BY DupWhole DEF Handlers
<1>14. Whole(Handlers.lseek)
  BY LseekWhole DEF Handlers
<1>15. Whole(Handlers.fcntl)
  BY FcntlWhole DEF Handlers
<1>16. Whole(Handlers.getcwd)
  BY GetCwdWhole DEF Handlers
<1>17. Whole(Handlers.getdents)
  BY GetDentsWhole DEF Handlers
<1>18. Whole(Handlers.chdir)
  BY ChDirWhole DEF Handlers
<1>19. Whole(Handlers.rmdir)
  BY RmDirWhole DEF Handlers
<1>20. Whole(Handlers.unlink)
  BY UnlinkWhole DEF Handlers
<1>21. Whole(Handlers.rename)
  BY RenameWhole DEF Handlers
<1>22. Whole(Handlers.stat)
  BY StatPathWhole DEF Handlers
<1>23. Whole(Handlers.stat_fd)
  BY StatFdWhole DEF Handlers
<1>24. Whole(Handlers.sleep)
  BY SleepWhole DEF Handlers
<1>25. Whole(Handlers.mmap)
  BY MmapWhole DEF Handlers
<1>26. Whole(Handlers.munmap)
  BY MunmapWhole DEF Handlers
<1>27. Whole(Handlers.mprotect)
  BY MprotectWhole DEF Handlers
<1>28. Whole(Handlers.msync)
  BY MsyncWhole DEF Handlers
<1>29. Whole(Handlers.getpid)
  BY EmptyWhole DEF Handlers
<1>30. Whole(Handlers.getppid)
  BY EmptyWhole DEF Handlers
<1>31. Whole(Handlers.realpath)
  BY RealPathWhole DEF Handlers
<1>32. Whole(Handlers.kill)
  BY KillWhole DEF Handlers
<1>33. Whole(Handlers.poll)
  BY PollWhole DEF Handlers
<1>34. Whole(Handlers.ioctl)
  BY IoctlWhole DEF Handlers
<1>35. Whole(Handlers.getpgid)
  BY GetIdWhole DEF Handlers
<1>36. Whole(Handlers.getsid)
  BY GetIdWhole DEF Handlers
<1>37. Whole(Handlers.openpty)
  BY OpenPtyWhole DEF Handlers
<1>38. Whole(Handlers.memusage)
  BY MemUsageWhole DEF Handlers
<1>39. Whole(Handlers.reboot)
  BY RebootWhole DEF Handlers
<1>40. Whole(Handlers.sigpending)
  BY SigPendingWhole DEF Handlers
<1>41. Whole(Handlers.sigprocmask)
  BY SigProcMaskWhole DEF Handlers
<1>42. Whole(Handlers.proclist)
  BY ProcListWhole DEF Handlers
<1>43. Whole(Handlers.procinfo)
  BY ProcInfoWhole DEF Handlers
<1>44. Whole(Handlers.errno)
  BY ErrnoWhole DEF Handlers
<1>45. Whole(Handlers.arctic)
  BY ArcticWhole DEF Handlers
<1>46. Whole(Handlers.reserved)
  BY ReservedWhole DEF Handlers
<1>47. Whole(Handlers.execve_ld)
  BY ExecveLdWhole DEF Handlers
<1>. QED BY <1>1, <1>2, <1>3, <1>4, <1>5, <1>6, <1>7, <1>8, <1>9, <1>10, <1>11, <1>12, <1>13, <1>14, <1>15, <1>16, <1>17, <1>18, <1>19, <1>20, <1>21, <1>22, <1>23, <1>24, <1>25, <1>26, <1>27, <1>28, <1>29, <1>30, <1>31, <1>32, <1>33, <1>34, <1>35, <1>36, <1>37, <1>38, <1>39, <1>40, <1>41, <1>42, <1>43, <1>44, <1>45, <1>46, <1>47
-----------------------------------------------------------------------------
(***************************************************************************)
(* What a script has checked, taken and changed before its step k.         *)
(***************************************************************************)
LEMMA BeforeStart ==
  ASSUME NEW h
  PROVE  HeldAt(h, 1) = {} /\ \A op : Before(h, 1, op) = {}
BY DEF HeldAt, Before

LEMMA BeforeStep ==
  ASSUME NEW h, NEW k \in Nat, k >= 1, NEW op
  PROVE  Before(h, k + 1, op) = Before(h, k, op) \cup (IF h[k].op = op THEN {h[k].arg} ELSE {})
<1>1. \A j : j \in 1 .. (k + 1) - 1 <=> j \in 1 .. k - 1 \/ j = k
  OBVIOUS
<1>. QED BY <1>1, Zenon DEF Before

LEMMA KeptStep ==
  ASSUME NEW h, NEW k \in Nat, k >= 1, NEW i \in 1 .. k - 1
  PROVE  Kept(h, i, k + 1) <=> Kept(h, i, k) /\ ~(h[k].op = "put" /\ h[k].arg = h[i].arg)
<1>1. \A j : j \in i + 1 .. (k + 1) - 1 <=> j \in i + 1 .. k - 1 \/ j = k
  OBVIOUS
<1>. QED BY <1>1, Zenon DEF Kept

LEMMA KeptLast ==
  ASSUME NEW h, NEW k \in Nat, k >= 1
  PROVE  Kept(h, k, k + 1) <=> h[k].op = "get"
<1>1. \A j : j \notin k + 1 .. (k + 1) - 1
  OBVIOUS
<1>. QED BY <1>1, Zenon DEF Kept

LEMMA HeldStep ==
  ASSUME NEW h, NEW k \in Nat, k >= 1
  PROVE  HeldAt(h, k + 1) = IF h[k].op = "get" THEN HeldAt(h, k) \cup {h[k].arg}
                            ELSE IF h[k].op = "put" THEN HeldAt(h, k) \ {h[k].arg} ELSE HeldAt(h, k)
<1>1. \A j : j \in 1 .. (k + 1) - 1 <=> j \in 1 .. k - 1 \/ j = k
  OBVIOUS
<1>2. \A r : r \in HeldAt(h, k + 1) <=> \E j \in 1 .. (k + 1) - 1 : Kept(h, j, k + 1) /\ r = h[j].arg
  BY Zenon DEF HeldAt
<1>3. \A r : r \in HeldAt(h, k) <=> \E j \in 1 .. k - 1 : Kept(h, j, k) /\ r = h[j].arg
  BY Zenon DEF HeldAt
<1>4. \A r : r \in HeldAt(h, k + 1) => \/ r \in HeldAt(h, k) /\ ~(h[k].op = "put" /\ h[k].arg = r)
                                       \/ h[k].op = "get" /\ r = h[k].arg
  <2>. SUFFICES ASSUME NEW r \in HeldAt(h, k + 1)
                PROVE  \/ r \in HeldAt(h, k) /\ ~(h[k].op = "put" /\ h[k].arg = r)
                       \/ h[k].op = "get" /\ r = h[k].arg
    OBVIOUS
  <2>1. PICK j \in 1 .. (k + 1) - 1 : Kept(h, j, k + 1) /\ r = h[j].arg
    BY <1>2, Zenon
  <2>2. CASE j = k
    BY <2>1, <2>2, KeptLast, Zenon
  <2>3. CASE j \in 1 .. k - 1
    <3>1. Kept(h, j, k) /\ ~(h[k].op = "put" /\ h[k].arg = h[j].arg)
      BY <2>1, <2>3, KeptStep, Zenon
    <3>2. r \in HeldAt(h, k)
      BY <2>1, <2>3, <3>1, <1>3, Zenon
    <3>. QED BY <2>1, <3>1, <3>2, Zenon
  <2>. QED BY <1>1, <2>1, <2>2, <2>3, Zenon
<1>5. \A r : r \in HeldAt(h, k) /\ ~(h[k].op = "put" /\ h[k].arg = r) => r \in HeldAt(h, k + 1)
  <2>. SUFFICES ASSUME NEW r \in HeldAt(h, k), ~(h[k].op = "put" /\ h[k].arg = r)
                PROVE  r \in HeldAt(h, k + 1)
    BY Zenon
  <2>1. PICK j \in 1 .. k - 1 : Kept(h, j, k) /\ r = h[j].arg
    BY <1>3, Zenon
  <2>. QED BY <2>1, <1>1, <1>2, KeptStep, Zenon
<1>6. h[k].op = "get" => h[k].arg \in HeldAt(h, k + 1)
  <2>1. k \in 1 .. (k + 1) - 1
    OBVIOUS
  <2>. QED BY <2>1, <1>2, KeptLast, Zenon
<1>7. CASE h[k].op = "get"
  <2>1. h[k].op # "put"
    BY <1>7
  <2>2. \A r : r \in HeldAt(h, k + 1) <=> r \in HeldAt(h, k) \/ r = h[k].arg
    BY <1>4, <1>5, <1>6, <1>7, <2>1, Zenon
  <2>. QED BY <1>7, <2>2, Zenon
<1>8. CASE h[k].op = "put"
  <2>1. h[k].op # "get"
    BY <1>8
  <2>2. \A r : r \in HeldAt(h, k + 1) <=> r \in HeldAt(h, k) /\ r # h[k].arg
    BY <1>4, <1>5, <1>8, <2>1, Zenon
  <2>. QED BY <1>8, <2>1, <2>2, Zenon
<1>9. CASE h[k].op # "get" /\ h[k].op # "put"
  BY <1>4, <1>5, <1>9, Zenon
<1>. QED BY <1>7, <1>8, <1>9, Zenon

\* At its end a script has given everything back.
LEMMA HeldEnd ==
  ASSUME NEW h, Whole(h)
  PROVE  HeldAt(h, Len(h) + 1) = {}
<1>1. Len(h) \in Nat
  BY DEF Whole
<1>2. \A i \in 1 .. (Len(h) + 1) - 1 : ~Kept(h, i, Len(h) + 1)
  <2>. SUFFICES ASSUME NEW i \in 1 .. (Len(h) + 1) - 1, Kept(h, i, Len(h) + 1)
                PROVE  FALSE
    OBVIOUS
  <2>1. i \in 1 .. Len(h) /\ h[i].op = "get"
    BY <1>1 DEF Kept
  <2>2. PICK j \in i + 1 .. Len(h) : h[j].op = "put" /\ h[j].arg = h[i].arg
    BY <2>1, Zenon DEF Whole
  <2>3. j \in i + 1 .. (Len(h) + 1) - 1
    BY <1>1, <2>2
  <2>. QED BY <2>2, <2>3, Zenon DEF Kept
<1>. QED BY <1>2, Zenon DEF HeldAt

\* Where a step may fail, it frees all that the script has taken.
LEMMA HeldFreed ==
  ASSUME NEW h, NEW k, StepWhole(h, k), h[k].errs # {}
  PROVE  HeldAt(h, k) \subseteq h[k].frees
<1>1. \A i \in 1 .. k - 1 : Kept(h, i, k) => h[i].arg \in h[k].frees
  BY Zenon DEF StepWhole
<1>. QED BY <1>1, Zenon DEF HeldAt

\* What a step uses was checked before it.
LEMMA UsedBefore ==
  ASSUME NEW h, NEW k, StepWhole(h, k), h[k].op = "use"
  PROVE  h[k].arg \in Before(h, k, "check")
<1>1. PICK j \in 1 .. k - 1 : h[j].op = "check" /\ h[j].arg = h[k].arg
  BY Zenon DEF StepWhole
<1>. QED BY <1>1, Zenon DEF Before

\* Where a step may fail, and does not end the task, nothing else was changed.
LEMMA UnchangedBefore ==
  ASSUME NEW h, NEW k, StepWhole(h, k), NEW e \in h[k].errs, e # "exit"
  PROVE  Before(h, k, "effect") \subseteq Left(e)
<1>1. \A j \in 1 .. k - 1 : h[j].op = "effect" => h[j].arg \in Left(e)
  BY Zenon DEF StepWhole
<1>. QED BY <1>1, Zenon DEF Before

-----------------------------------------------------------------------------
(***************************************************************************)
(* The calls.                                                              *)
(***************************************************************************)
\* A call that runs has checked, taken and changed what its script says.
Running ==
  /\ callsCall \in Calls /\ callsAt \in 1 .. Len(Handlers[callsCall]) + 1
  /\ held = HeldAt(Handlers[callsCall], callsAt)
  /\ checked = Before(Handlers[callsCall], callsAt, "check") \ null
  /\ done = Before(Handlers[callsCall], callsAt, "effect")
Named == callsCall \in Calls \cup {"none"} /\ null \subseteq Optional
CallInv ==
  /\ Named /\ (result = "none" => Running)
  /\ SyscallNothingLeaks /\ CheckedBeforeUse /\ FailsWhole

LEMMA EntriesAreCalls == \A n \in 1 .. Len(HandlerArray) : HandlerArray[n] \in Calls
BY DEF HandlerArray, Calls, Handlers

LEMMA LenHandlers == Len(HandlerArray) \in Nat
BY DEF HandlerArray

\* A call starts with nothing, whatever its number.
LEMMA CallKeeps ==
  ASSUME CallInv, NEW n \in Int, Call(n)
  PROVE  CallInv'
<1>1. held' = {} /\ checked' = {} /\ done' = {} /\ used' = {} /\ callsAt' = 1
  BY Zenon DEF Call
<1>n. null' \subseteq Optional
  BY Zenon DEF Call
<1>2. CASE Valid(n)
  <2>1. n \in 1 .. Len(HandlerArray)
    BY <1>2, LenHandlers DEF Valid
  <2>2. n \in DOMAIN HandlerArray
    BY <2>1 DEF HandlerArray
  <2>3. CallEntry(n) \in Calls
    BY <2>1, <2>2, EntriesAreCalls, Zenon DEF CallEntry
  <2>4. {"stat", "stat_fd", "execve", "execve_ld"} \subseteq Calls
    BY DEF Calls, Handlers
  <2>5. callsCall' \in Ways(CallEntry(n)) /\ result' = "none"
    BY <1>2, Zenon DEF Call
  <2>6. callsCall' \in Calls
    BY <2>3, <2>4, <2>5 DEF Ways
  <2>7. PICK c \in Calls : c = callsCall'
    BY <2>6, Zenon
  <2>8. Len(Handlers[c]) \in Nat
    BY HandlersWhole, Zenon DEF Whole
  <2>9. 1 \in 1 .. Len(Handlers[c]) + 1
    BY <2>8
  <2>10. Running'
    BY <1>1, <2>7, <2>9, BeforeStart, Zenon DEF Running
  <2>. QED BY <1>1, <1>n, <2>5, <2>6, <2>10, Zenon DEF CallInv, Named, SyscallNothingLeaks, CheckedBeforeUse, FailsWhole
<1>3. CASE ~Valid(n)
  <2>1. result' = "EINVAL" /\ callsCall' = callsCall
    BY <1>3, Zenon DEF Call
  <2>2. result' # "none"
    BY <2>1
  <2>. QED BY <1>1, <1>n, <2>1, <2>2, Zenon DEF CallInv, Named, SyscallNothingLeaks, CheckedBeforeUse, FailsWhole
<1>. QED BY <1>2, <1>3

\* The next step works: it uses what was checked.
LEMMA WorksKeeps ==
  ASSUME CallInv, Works
  PROVE  CallInv'
<1>. DEFINE h == Handlers[callsCall]
            k == callsAt
<1>1. result = "none" /\ result' = "none" /\ callsCall' = callsCall /\ null' = null
  BY Zenon DEF Works
<1>2. Running
  BY <1>1, Zenon DEF CallInv
<1>3. Whole(h)
  BY <1>2, HandlersWhole, Zenon DEF Running
<1>4. Len(h) \in Nat /\ k \in Nat /\ k >= 1 /\ k <= Len(h) /\ callsAt' = k + 1
  BY <1>2, <1>3 DEF Running, Works, Whole
<1>5. StepWhole(h, k)
  <2>1. k \in 1 .. Len(h)
    BY <1>4
  <2>. QED BY <1>3, <2>1, Zenon DEF Whole
<1>6. callsAt' \in 1 .. Len(h) + 1
  BY <1>4
<1>7. held' = HeldAt(h, k + 1)
  <2>1. held' = IF h[k].op = "get" THEN held \cup {h[k].arg} ELSE IF h[k].op = "put" THEN held \ {h[k].arg} ELSE held
    BY Zenon DEF Works
  <2>. QED BY <1>2, <1>4, <2>1, HeldStep, Zenon DEF Running
<1>8. done' = Before(h, k + 1, "effect")
  <2>1. done' = IF h[k].op = "effect" THEN done \cup {h[k].arg} ELSE done
    BY Zenon DEF Works
  <2>2. Before(h, k + 1, "effect") = Before(h, k, "effect") \cup (IF h[k].op = "effect" THEN {h[k].arg} ELSE {})
    BY <1>4, BeforeStep, Zenon
  <2>. QED BY <1>2, <2>1, <2>2, Zenon DEF Running
<1>9. checked' = Before(h, k + 1, "check") \ null
  <2>1. checked' = IF h[k].op = "check" /\ h[k].arg \notin null THEN checked \cup {h[k].arg} ELSE checked
    BY Zenon DEF Works
  <2>2. Before(h, k + 1, "check") = Before(h, k, "check") \cup (IF h[k].op = "check" THEN {h[k].arg} ELSE {})
    BY <1>4, BeforeStep, Zenon
  <2>3. checked = Before(h, k, "check") \ null
    BY <1>2, Zenon DEF Running
  <2>. QED BY <2>1, <2>2, <2>3
<1>10. used' \subseteq checked'
  <2>1. used' = IF h[k].op = "use" /\ h[k].arg \notin null THEN used \cup {h[k].arg} ELSE used
    BY Zenon DEF Works
  <2>2. used \subseteq checked
    BY Zenon DEF CallInv, CheckedBeforeUse
  <2>3. checked \subseteq checked'
    BY Zenon DEF Works
  <2>4. h[k].op = "use" /\ h[k].arg \notin null => h[k].arg \in checked
    BY <1>2, <1>5, UsedBefore, Zenon DEF Running
  <2>. QED BY <2>1, <2>2, <2>3, <2>4, Zenon
<1>11. Running'
  BY <1>1, <1>2, <1>4, <1>6, <1>7, <1>8, <1>9, Zenon DEF Running
<1>. QED BY <1>1, <1>10, <1>11, Zenon DEF CallInv, Named, SyscallNothingLeaks, CheckedBeforeUse, FailsWhole

\* A step fails: all that was taken is freed, and nothing else was changed.
LEMMA FailsKeeps ==
  ASSUME CallInv, Fails
  PROVE  CallInv'
<1>. DEFINE h == Handlers[callsCall]
            k == callsAt
<1>1. /\ result = "none" /\ result' \in h[k].errs /\ held' = held \ h[k].frees
      /\ checked' = checked /\ done' = done /\ used' = used /\ callsCall' = callsCall /\ null' = null
  BY Zenon DEF Fails
<1>2. Running
  BY <1>1, Zenon DEF CallInv
<1>3. Whole(h)
  BY <1>2, HandlersWhole, Zenon DEF Running
<1>4. StepWhole(h, k)
  <2>1. k \in 1 .. Len(h)
    BY <1>2, <1>3 DEF Running, Fails, Whole
  <2>. QED BY <1>3, <2>1, Zenon DEF Whole
<1>5. result' # "none"
  BY <1>1, <1>4, Zenon DEF StepWhole
<1>6. held' = {}
  <2>1. HeldAt(h, k) \subseteq h[k].frees
    BY <1>1, <1>4, HeldFreed, Zenon
  <2>. QED BY <1>1, <1>2, <2>1, Zenon DEF Running
<1>7. (result' \notin {"none", "ok", "exit"}) => done' \subseteq Left(result')
  <2>. SUFFICES ASSUME result' \notin {"none", "ok", "exit"} PROVE done' \subseteq Left(result')
    OBVIOUS
  <2>1. result' # "exit"
    OBVIOUS
  <2>2. Before(h, k, "effect") \subseteq Left(result')
    BY <1>1, <1>4, <2>1, UnchangedBefore, Zenon
  <2>. QED BY <1>1, <1>2, <2>2, Zenon DEF Running
<1>8. used' \subseteq checked'
  BY <1>1, Zenon DEF CallInv, CheckedBeforeUse
<1>. QED BY <1>1, <1>5, <1>6, <1>7, <1>8, Zenon DEF CallInv, Named, SyscallNothingLeaks, CheckedBeforeUse, FailsWhole

\* The handler returns: nothing is left that it took.
LEMMA ReturnsKeeps ==
  ASSUME CallInv, Returns
  PROVE  CallInv'
<1>1. /\ result = "none" /\ result' = "ok" /\ callsAt = Len(Handlers[callsCall]) + 1
      /\ held' = held /\ checked' = checked /\ done' = done /\ used' = used /\ callsCall' = callsCall /\ null' = null
  BY Zenon DEF Returns
<1>2. Running
  BY <1>1, Zenon DEF CallInv
<1>3. held' = {}
  BY <1>1, <1>2, HandlersWhole, HeldEnd, Zenon DEF Running
<1>4. result' # "none" /\ ~(result' \notin {"none", "ok", "exit"})
  BY <1>1
<1>5. used' \subseteq checked'
  BY <1>1, Zenon DEF CallInv, CheckedBeforeUse
<1>. QED BY <1>1, <1>3, <1>4, <1>5, Zenon DEF CallInv, Named, SyscallNothingLeaks, CheckedBeforeUse, FailsWhole

\* The other parts leave the calls alone.
LEMMA CallsStay ==
  ASSUME CallInv, UNCHANGED syscallVars
  PROVE  CallInv'
BY DEF CallInv, Named, Running, SyscallNothingLeaks, CheckedBeforeUse, FailsWhole, syscallVars

(***************************************************************************)
(* Whatever step of a system call fails (the handlers of syscall/ free and *)
(* return at each early return), the call gives back the nodes, copies,    *)
(* page tables and locks it took, it has read and written only user memory *)
(* that pg_check_user_* or its like accepted, and if it reports an error   *)
(* it has changed nothing but the two things Left names (a file that open  *)
(* has made or cut off, the pages of mmap): for every script of the        *)
(* handlers, every choice of null pointers and any number of calls.        *)
(***************************************************************************)
THEOREM CallsAreRight == Spec => []CallsRight
<1>1. Init => CallInv
  BY DEF Init, SyscallInit, CallInv, Named, SyscallNothingLeaks, CheckedBeforeUse, FailsWhole
<1>2. CallInv /\ [Next]_vars => CallInv'
  <2>. SUFFICES ASSUME CallInv, [Next]_vars PROVE CallInv'
    OBVIOUS
  <2>1. CASE CallsMoves /\ SyscallNext
    <3>1. ASSUME NEW n \in 0 .. Len(HandlerArray) + 1, Call(n) PROVE CallInv'
      BY <3>1, CallKeeps
    <3>. QED BY <2>1, <3>1, WorksKeeps, FailsKeeps, ReturnsKeeps, Zenon DEF SyscallNext
  <2>2. CASE UNCHANGED syscallVars
    BY <2>2, CallsStay
  <2>3. [Next]_vars => (CallsMoves /\ SyscallNext) \/ UNCHANGED syscallVars
    BY Zenon DEF Next, vars, TableMoves, PipeMoves, TreeMoves, LinesMoves, EchoMoves, WordsMoves, NodesMoves
  <2>. QED BY <2>1, <2>2, <2>3
<1>3. CallInv => CallsRight
  BY Zenon DEF CallInv, Named, Running, CallsRight, SyscallTypeOK
<1>. QED BY <1>1, <1>2, <1>3, PTL DEF Spec

(***************************************************************************)
(* The nodes of pseudo terminals.                                          *)
(***************************************************************************)
LEMMA MinIs ==
  ASSUME NEW S, S \subseteq Nat, S # {}
  PROVE  Min(S) \in S
BY LeastNat DEF Min

\* The two nodes of a pty.
LEMMA NodeIs ==
  /\ \A p \in Ptys : Main(p) \in PtyNode /\ Secondary(p) \in PtyNode
  /\ \A p : Main(p)[1] = p /\ Secondary(p)[1] = p /\ Main(p)[2] = "main" /\ Secondary(p)[2] = "secondary"
  /\ \A p, q : Main(p) # Secondary(q)
  /\ \A n \in PtyNode : n[1] \in Ptys /\ (n = Main(n[1]) \/ n = Secondary(n[1]))
  /\ \A n \in PtyNode : n[2] = "secondary" => n = Secondary(n[1])
<1>1. \A n \in PtyNode : n[1] \in Ptys /\ (n = Main(n[1]) \/ n = Secondary(n[1]))
  BY DEF PtyNode, Main, Secondary
<1>. QED BY <1>1 DEF PtyNode, Main, Secondary

\* Who has a reference to n, and who is at a place with it.
Owners(n) == {t \in Openers : n \in nodesHolds[t]}
AtNode(t, n, here) == nodesPc[t] = here /\ nodesArg[t] = n
\* The one that pty_create is about to give back, and the one of the tree.
Extra(n) == \E t \in Openers : AtNode(t, n, "undo")
Adding(n) == \E t \in Openers : AtNode(t, n, "add") \/ AtNode(t, n, "addown")
\* The node is still counted in what it shares.
Alive(n) == n \in nodesNodes \/ \E t \in Openers : AtNode(t, n, "unshare")
One(b) == IF b THEN 1 ELSE 0
Uses(n) == Cardinality(Owners(n)) + One(Extra(n))
Wanted(n) == Owners(n) # {} \/ Adding(n)

Making == {"publish", "open", "addown", "undo"}

\* A node is counted by its users, by pty_create for a while, and by the tree.
\* In the tree tree_state is the number of its uses or one less; outside it has
\* one use at most. At most one task has read the n_release of pty.c; when the
\* node is back in the tree another task uses it too.
NodeInv(n) ==
  /\ IsFiniteSet(Owners(n))
  /\ nodesCount[n] = Uses(n) + One(n \in inTree \/ Adding(n))
  /\ n \in inTree =>
       /\ n[2] = "secondary" /\ index[n[1]] # ArrayCount /\ ~Adding(n) /\ Owners(n) # {}
       /\ treeState[n] <= Uses(n) /\ Uses(n) <= treeState[n] + 1
       /\ \A t \in Openers : AtNode(t, n, "direct") =>
            treeState[n] + 1 <= Uses(n) /\ \E u \in Owners(n) : u # t
  /\ n \notin inTree => treeState[n] = 0 /\ Uses(n) <= 1
  /\ \A t, u \in Openers : AtNode(t, n, "direct") /\ AtNode(u, n, "direct") => t = u
  /\ ~Wanted(n) => \E t \in Openers : AtNode(t, n, "release")
  /\ \A t \in Openers : AtNode(t, n, "release") => ~Wanted(n)

\* What a task has in its hands at every place.
TaskInv(t) ==
  /\ nodesPc[t] \in Making =>
       /\ nodesArg[t] = Secondary(nodesArg[t][1])
       /\ nodesArg[t] \in nodesHolds[t] /\ Main(nodesArg[t][1]) \in nodesHolds[t]
       /\ nodesPc[t] = "publish" <=> index[nodesArg[t][1]] = ArrayCount
  /\ nodesPc[t] \in {"add", "addown"} =>
       /\ locker = t /\ nodesArg[t] \in nodesNodes /\ nodesArg[t] \notin inTree
       /\ nodesArg[t][2] = "secondary" /\ index[nodesArg[t][1]] # ArrayCount
       /\ nodesPc[t] = "add" => nodesArg[t] \notin nodesHolds[t]
  /\ nodesPc[t] \in {"tree", "direct"} => nodesArg[t] \in nodesHolds[t]
  /\ nodesPc[t] = "tree" => nodesArg[t] \in inTree \/ t \in overtaken
  /\ nodesPc[t] = "release" => nodesArg[t] \in nodesNodes
  /\ nodesPc[t] = "unshare" => nodesArg[t] \notin nodesNodes /\ nodesArg[t][1] \in shared
  /\ nodesPc[t] = "free" => nodesArg[t][1] \in shared /\ nshared[nodesArg[t][1]] = 0
  /\ nodesPc[t] = "panic" => t \in overtaken /\ Owners(nodesArg[t]) = {t}

HeldAllocated == \A t \in Openers, n \in PtyNode : n \in nodesHolds[t] => n \in nodesNodes
InTreeIs == inTree \subseteq nodesNodes
SharedIs == \A n \in nodesNodes : n[1] \in shared
\* Two tasks do not create one pty, or free one node.
Alone ==
  \A t, u \in Openers :
    nodesPc[t] \in Making /\ nodesPc[u] \in Making /\ nodesArg[t] = nodesArg[u] => t = u
Apart ==
  \A t, u \in Openers :
    nodesPc[t] \in {"release", "unshare"} /\ nodesPc[u] \in {"release", "unshare"} /\ nodesArg[t] = nodesArg[u] => t = u
FreedOnce ==
  \A t, u \in Openers : nodesPc[t] = "free" /\ nodesPc[u] = "free" /\ nodesArg[t][1] = nodesArg[u][1] => t = u
Shares ==
  \A p \in shared :
    /\ nshared[p] = One(Alive(Main(p))) + One(Alive(Secondary(p)))
    /\ nshared[p] = 0 => \E t \in Openers : nodesPc[t] = "free" /\ nodesArg[t][1] = p
\* pty_array: what is entered is wanted, and what is wanted is entered.
Entered ==
  \A i \in DOMAIN array, p \in Ptys : array[i] = p =>
    index[p] = i /\ Secondary(p) \in nodesNodes /\ Wanted(Secondary(p))
Listed ==
  \A p \in Ptys : Secondary(p) \in nodesNodes /\ Wanted(Secondary(p)) /\ index[p] # ArrayCount =>
    index[p] \in DOMAIN array /\ array[index[p]] = p
Indexed ==
  \A p \in Ptys : index[p] = ArrayCount /\ Secondary(p) \in nodesNodes =>
    \E t \in Openers : AtNode(t, Secondary(p), "publish")

NodesInv == \A n \in nodesNodes : NodeInv(n)
TasksInv == \A t \in Openers : TaskInv(t)
PtyInv ==
  /\ PtyTypeOK /\ NodesInv /\ TasksInv /\ HeldAllocated /\ InTreeIs /\ SharedIs
  /\ Alone /\ Apart /\ FreedOnce /\ Shares /\ Entered /\ Listed /\ Indexed
NoPanic == \A t \in Openers : nodesPc[t] # "panic"

-----------------------------------------------------------------------------
\* A step of task t about node n: nothing else changes.
OnlyAt(t, n) ==
  /\ \A u \in Openers : u # t =>
       nodesPc'[u] = nodesPc[u] /\ nodesArg'[u] = nodesArg[u] /\ nodesHolds'[u] = nodesHolds[u]
  /\ \A m \in PtyNode : m # n =>
       /\ m \in nodesHolds'[t] <=> m \in nodesHolds[t]
       /\ nodesCount'[m] = nodesCount[m] /\ treeState'[m] = treeState[m]
       /\ m \in inTree' <=> m \in inTree
  /\ nodesPc[t] = "idle" \/ nodesArg[t] = n
  /\ nodesPc'[t] = "idle" \/ nodesArg'[t] = n

\* Nothing that counts for m changes.
SameNode(m) ==
  /\ Owners(m)' = Owners(m) /\ (Extra(m)' <=> Extra(m)) /\ (Adding(m)' <=> Adding(m))
  /\ \A u \in Openers : /\ AtNode(u, m, "direct")' <=> AtNode(u, m, "direct")
                        /\ AtNode(u, m, "release")' <=> AtNode(u, m, "release")
  /\ nodesCount'[m] = nodesCount[m] /\ treeState'[m] = treeState[m]
  /\ m \in inTree' <=> m \in inTree

LEMMA OnlySame ==
  ASSUME NEW t \in Openers, NEW n \in PtyNode, OnlyAt(t, n)
  PROVE  \A m \in PtyNode : m # n => SameNode(m)
<1>. SUFFICES ASSUME NEW m \in PtyNode, m # n PROVE SameNode(m)
  OBVIOUS
<1>1. \A u \in Openers : m \in nodesHolds'[u] <=> m \in nodesHolds[u]
  BY DEF OnlyAt
<1>2. Owners(m)' = Owners(m)
  BY <1>1 DEF Owners
<1>3. \A u \in Openers : nodesPc'[u] # "idle" /\ nodesArg'[u] = m <=> nodesPc[u] # "idle" /\ nodesArg[u] = m
  BY DEF OnlyAt
<1>4. \A u \in Openers : nodesPc[u] # "idle" /\ nodesArg[u] = m => nodesPc'[u] = nodesPc[u]
  BY DEF OnlyAt
<1>5. \A u \in Openers : \A here \in {"undo", "add", "addown", "direct", "release"} : AtNode(u, m, here)' <=> AtNode(u, m, here)
  BY <1>3, <1>4 DEF AtNode
<1>6. (Extra(m)' <=> Extra(m)) /\ (Adding(m)' <=> Adding(m))
  BY <1>5 DEF Extra, Adding
<1>. QED BY <1>2, <1>5, <1>6 DEF SameNode, OnlyAt

LEMMA SameKeeps ==
  ASSUME NEW m, NodeInv(m), SameNode(m), m \in inTree => index'[m[1]] # ArrayCount
  PROVE  NodeInv(m)'
<1>1. Uses(m)' = Uses(m) /\ (Wanted(m)' <=> Wanted(m))
  BY DEF SameNode, Uses, Wanted, One
<1>. HIDE DEF Uses, Wanted
<1>2. nodesCount'[m] = (Uses(m) + One(m \in inTree \/ Adding(m)))'
  BY <1>1 DEF NodeInv, SameNode, One
<1>. QED BY <1>1, <1>2 DEF NodeInv, SameNode

\* The nodes but n.
LEMMA OtherNodesKeep ==
  ASSUME PtyInv, NEW t \in Openers, NEW n \in PtyNode, OnlyAt(t, n),
         \A p \in Ptys : index[p] # ArrayCount => index'[p] # ArrayCount
  PROVE  \A m \in PtyNode : m \in nodesNodes /\ m # n => NodeInv(m)'
<1>. SUFFICES ASSUME NEW m \in PtyNode, m \in nodesNodes, m # n PROVE NodeInv(m)'
  OBVIOUS
<1>1. SameNode(m) /\ NodeInv(m)
  BY OnlySame DEF PtyInv, NodesInv
<1>2. m \in inTree => index'[m[1]] # ArrayCount
  BY <1>1, NodeIs DEF NodeInv
<1>. QED BY <1>1, <1>2, SameKeeps, Zenon

\* The number of users of a node.
LEMMA UsesIs ==
  ASSUME NEW n, IsFiniteSet(Owners(n))
  PROVE  /\ Uses(n) \in Nat
         /\ Uses(n) = 0 <=> Owners(n) = {} /\ ~Extra(n)
         /\ Uses(n) <= 1 => (\A t, u \in Owners(n) : t = u) /\ (Extra(n) => Owners(n) = {})
         /\ Uses(n) <= 2 /\ Extra(n) => \A t, u \in Owners(n) : t = u
         /\ ~Extra(n) /\ Uses(n) <= 2 => \A t \in Owners(n) : \A u, v \in Owners(n) \ {t} : u = v
<1>1. Cardinality(Owners(n)) \in Nat /\ (Cardinality(Owners(n)) = 0 <=> Owners(n) = {})
  BY FS_CardinalityType, FS_EmptySet
<1>2. ASSUME NEW t \in Owners(n), NEW u \in Owners(n), t # u PROVE Cardinality(Owners(n)) >= 2
  <2>1. IsFiniteSet(Owners(n) \ {t}) /\ Cardinality(Owners(n) \ {t}) = Cardinality(Owners(n)) - 1
    BY FS_RemoveElement
  <2>2. Owners(n) \ {t} # {}
    BY <1>2
  <2>3. Cardinality(Owners(n) \ {t}) \in Nat /\ Cardinality(Owners(n) \ {t}) # 0
    BY <2>1, <2>2, FS_CardinalityType, FS_EmptySet
  <2>. QED BY <2>1, <2>3, <1>1
<1>3. ASSUME NEW t \in Owners(n), NEW u \in Owners(n) \ {t}, NEW v \in Owners(n) \ {t}, u # v
      PROVE  Cardinality(Owners(n)) >= 3
  <2>. DEFINE S == Owners(n) \ {t}
  <2>1. IsFiniteSet(S) /\ Cardinality(S) = Cardinality(Owners(n)) - 1
    BY FS_RemoveElement
  <2>2. IsFiniteSet(S \ {u}) /\ Cardinality(S \ {u}) = Cardinality(S) - 1
    BY <2>1, <1>3, FS_RemoveElement
  <2>3. S \ {u} # {}
    BY <1>3
  <2>4. Cardinality(S \ {u}) \in Nat /\ Cardinality(S \ {u}) # 0
    BY <2>2, <2>3, FS_CardinalityType, FS_EmptySet
  <2>. HIDE DEF S
  <2>. QED BY <2>1, <2>2, <2>4, <1>1
<1>4. Uses(n) = Cardinality(Owners(n)) + One(Extra(n)) /\ One(Extra(n)) = IF Extra(n) THEN 1 ELSE 0
  BY DEF Uses, One
<1>5. Uses(n) \in Nat /\ (Uses(n) = 0 <=> Owners(n) = {} /\ ~Extra(n))
  BY <1>1, <1>4
<1>6. Uses(n) <= 1 => (\A t, u \in Owners(n) : t = u) /\ (Extra(n) => Owners(n) = {})
  BY <1>1, <1>2, <1>4
<1>7. Uses(n) <= 2 /\ Extra(n) => \A t, u \in Owners(n) : t = u
  BY <1>1, <1>2, <1>4
<1>8. ~Extra(n) /\ Uses(n) <= 2 => \A t \in Owners(n) : \A u, v \in Owners(n) \ {t} : u = v
  BY <1>1, <1>3, <1>4
<1>. QED BY <1>5, <1>6, <1>7, <1>8

\* A task becomes a user of n, or is one no more.
LEMMA UsesJoin ==
  ASSUME NEW n, IsFiniteSet(Owners(n)), NEW t, t \notin Owners(n), Owners(n)' = Owners(n) \cup {t}, Extra(n)' <=> Extra(n)
  PROVE  IsFiniteSet(Owners(n)') /\ Uses(n)' = Uses(n) + 1
<1>1. IsFiniteSet(Owners(n) \cup {t}) /\ Cardinality(Owners(n) \cup {t}) = Cardinality(Owners(n)) + 1
  BY FS_AddElement
<1>2. Cardinality(Owners(n)) \in Nat
  BY FS_CardinalityType
<1>. QED BY <1>1, <1>2 DEF Uses, One

LEMMA UsesLeave ==
  ASSUME NEW n, IsFiniteSet(Owners(n)), NEW t \in Owners(n), Owners(n)' = Owners(n) \ {t}, Extra(n)' <=> Extra(n)
  PROVE  IsFiniteSet(Owners(n)') /\ Uses(n)' = Uses(n) - 1
<1>1. IsFiniteSet(Owners(n) \ {t}) /\ Cardinality(Owners(n) \ {t}) = Cardinality(Owners(n)) - 1
  BY FS_RemoveElement
<1>2. Cardinality(Owners(n)) \in Nat
  BY FS_CardinalityType
<1>. QED BY <1>1, <1>2 DEF Uses, One

LEMMA UsesExtra ==
  ASSUME NEW n, IsFiniteSet(Owners(n)), Owners(n)' = Owners(n)
  PROVE  /\ ~Extra(n) /\ Extra(n)' => Uses(n)' = Uses(n) + 1
         /\ Extra(n) /\ ~Extra(n)' => Uses(n)' = Uses(n) - 1
<1>2. Cardinality(Owners(n)) \in Nat
  BY FS_CardinalityType
<1>. QED BY <1>2 DEF Uses, One

\* What both nodes share, as long as no node is freed.
LEMMA SharesStay ==
  ASSUME SharedIs, FreedOnce, Shares, shared' = shared, nodesNodes' = nodesNodes, nshared' = nshared,
         \A u \in Openers, here \in {"unshare", "free"} :
           (nodesPc'[u] = here <=> nodesPc[u] = here) /\ (nodesPc[u] = here => nodesArg'[u] = nodesArg[u])
  PROVE  SharedIs' /\ FreedOnce' /\ Shares'
<1>1. SharedIs' /\ FreedOnce'
  BY DEF SharedIs, FreedOnce
<1>2. \A n : Alive(n)' <=> Alive(n)
  BY DEF Alive, AtNode
<1>3. Shares'
  BY <1>2 DEF Shares, One
<1>. QED BY <1>1, <1>3

\* The array, as long as nothing is entered or taken out.
LEMMA ArrayStays ==
  ASSUME Entered, Listed, Indexed, array' = array, index' = index, nodesNodes' = nodesNodes,
         \A p \in Ptys : Wanted(Secondary(p))' <=> Wanted(Secondary(p)),
         \A u \in Openers : nodesPc[u] = "publish" => nodesPc'[u] = "publish" /\ nodesArg'[u] = nodesArg[u]
  PROVE  Entered' /\ Listed' /\ Indexed'
BY DEF Entered, Listed, Indexed, AtNode

\* Whoever is busy with a node is busy with a pty that is shared.
LEMMA BusyShared ==
  ASSUME PtyInv, NoPanic, NEW t \in Openers, nodesPc[t] # "idle"
  PROVE  nodesArg[t] \in PtyNode /\ nodesArg[t][1] \in shared
<1>1. nodesArg[t] \in PtyNode /\ TaskInv(t)
  BY DEF PtyInv, PtyTypeOK, TasksInv
<1>2. nodesPc[t] \in {"publish", "open", "addown", "undo", "add", "tree", "direct", "release", "unshare", "free"}
  BY DEF PtyInv, PtyTypeOK, NoPanic
<1>3. nodesPc[t] \in Making \cup {"tree", "direct"} => nodesArg[t] \in nodesHolds[t]
  BY <1>1 DEF TaskInv
<1>4. nodesArg[t] \in nodesHolds[t] \/ nodesPc[t] \in {"add", "release"} => nodesArg[t] \in nodesNodes
  BY <1>1 DEF PtyInv, HeldAllocated, TaskInv
<1>5. nodesArg[t] \in nodesNodes => nodesArg[t][1] \in shared
  BY DEF PtyInv, SharedIs
<1>. QED BY <1>1, <1>2, <1>3, <1>4, <1>5 DEF TaskInv, Making

-----------------------------------------------------------------------------
\* What a step of t about n leaves alone when no node is made or freed: others
\* are not in the way of it, whoever has tree_mtx excepted.
Calm(t, n) ==
  /\ shared' = shared /\ nodesNodes' = nodesNodes /\ nshared' = nshared /\ index' = index
  /\ overtaken \subseteq overtaken'
  /\ locker' = locker \/ locker \in {NoTask, t}
  /\ nodesHolds'[t] \subseteq nodesHolds[t] \cup {n} /\ inTree' \subseteq inTree \cup {n}
  /\ n \in inTree /\ n \notin inTree' =>
       \A u \in Openers : u # t /\ AtNode(u, n, "tree") => u \in overtaken'
  /\ n \notin inTree /\ n \in inTree' => locker = t
  /\ nodesPc[t] \notin {"release", "unshare", "free", "publish"}
  /\ nodesPc'[t] \notin {"unshare", "free", "publish"}
  /\ nodesPc'[t] \in Making => nodesPc[t] \in Making
  /\ nodesPc'[t] = "release" => Wanted(n)

LEMMA OtherTasksKeep ==
  ASSUME PtyInv, NoPanic, NEW t \in Openers, NEW n \in PtyNode, OnlyAt(t, n), Calm(t, n)
  PROVE  \A u \in Openers : u # t => TaskInv(u)'
<1>. SUFFICES ASSUME NEW u \in Openers, u # t PROVE TaskInv(u)'
  OBVIOUS
<1>1. nodesPc'[u] = nodesPc[u] /\ nodesArg'[u] = nodesArg[u] /\ nodesHolds'[u] = nodesHolds[u] /\ nodesPc[u] # "panic"
  BY DEF OnlyAt, NoPanic
<1>2. TaskInv(u) /\ nodesArg[u] \in PtyNode
  BY DEF PtyInv, TasksInv, PtyTypeOK
<1>3. u # NoTask
  BY PtyAssumption DEF NoTask
<1>4. nodesPc[u] \in {"add", "addown"} => locker' = u /\ nodesArg[u] \notin inTree'
  <2>1. nodesPc[u] \in {"add", "addown"} => locker = u /\ nodesArg[u] \notin inTree
    BY <1>2 DEF TaskInv
  <2>. QED BY <2>1, <1>3 DEF Calm
<1>5. nodesPc[u] = "tree" => nodesArg[u] \in inTree' \/ u \in overtaken'
  <2>1. CASE nodesArg[u] = n
    BY <2>1, <1>2 DEF Calm, TaskInv, AtNode
  <2>2. CASE nodesArg[u] # n
    BY <2>2, <1>2 DEF Calm, TaskInv, OnlyAt
  <2>. QED BY <2>1, <2>2
<1>6. shared' = shared /\ nodesNodes' = nodesNodes /\ nshared' = nshared /\ index' = index
  BY DEF Calm
<1>. QED BY <1>1, <1>2, <1>4, <1>5, <1>6 DEF TaskInv

\* The invariant after such a step.
LEMMA StepKeeps ==
  ASSUME PtyInv, NoPanic, NEW t \in Openers, NEW n \in PtyNode, n \in nodesNodes, OnlyAt(t, n), Calm(t, n),
         PtyTypeOK', NodeInv(n)', TaskInv(t)', Entered' /\ Listed' /\ Indexed'
  PROVE  PtyInv'
<1>1. shared' = shared /\ nodesNodes' = nodesNodes /\ nshared' = nshared /\ index' = index
  BY DEF Calm
<1>2. NodesInv'
  <2>1. nodesNodes \subseteq PtyNode
    BY DEF PtyInv, PtyTypeOK
  <2>2. \A m \in PtyNode : m \in nodesNodes /\ m # n => NodeInv(m)'
    BY <1>1, OtherNodesKeep
  <2>. QED BY <1>1, <2>1, <2>2 DEF NodesInv
<1>3. TasksInv'
  BY OtherTasksKeep DEF TasksInv
<1>4. HeldAllocated'
  BY <1>1 DEF PtyInv, HeldAllocated, OnlyAt, Calm
<1>5. InTreeIs'
  BY <1>1 DEF PtyInv, InTreeIs, Calm
<1>6. SharedIs' /\ FreedOnce' /\ Shares'
  <2>1. SharedIs /\ FreedOnce /\ Shares
    BY DEF PtyInv
  <2>2. \A u \in Openers, here \in {"unshare", "free"} :
           (nodesPc'[u] = here <=> nodesPc[u] = here) /\ (nodesPc[u] = here => nodesArg'[u] = nodesArg[u])
    BY DEF OnlyAt, Calm
  <2>. QED BY <1>1, <2>1, <2>2, SharesStay
<1>7. Alone'
  <2>1. Alone
    BY DEF PtyInv
  <2>2. \A u \in Openers : nodesPc'[u] \in Making =>
           nodesPc[u] \in Making /\ nodesArg'[u] = nodesArg[u]
    BY DEF OnlyAt, Calm, Making
  <2>. QED BY <2>1, <2>2 DEF Alone
<1>8. Apart'
  <2>1. Apart /\ NodeInv(n)
    BY DEF PtyInv, NodesInv
  <2>2. ASSUME NEW u \in Openers, u # t, nodesPc[u] \in {"release", "unshare"}, nodesArg[u] = n, nodesPc'[t] = "release"
        PROVE  FALSE
    <3>1. nodesPc[u] = "unshare" => n \notin nodesNodes
      BY <2>2 DEF PtyInv, TasksInv, TaskInv
    <3>2. nodesPc[u] = "release" => ~Wanted(n)
      BY <2>1, <2>2 DEF NodeInv, AtNode
    <3>. QED BY <2>2, <3>1, <3>2 DEF Calm
  <2>3. nodesPc'[t] = "release" => nodesArg'[t] = n
    BY DEF OnlyAt
  <2>4. nodesPc'[t] # "unshare"
    BY DEF Calm
  <2>5. \A u \in Openers : u # t => nodesPc'[u] = nodesPc[u] /\ nodesArg'[u] = nodesArg[u]
    BY DEF OnlyAt
  <2>. QED BY <2>1, <2>2, <2>3, <2>4, <2>5 DEF Apart
<1>. QED BY <1>2, <1>3, <1>4, <1>5, <1>6, <1>7, <1>8 DEF PtyInv

\* The same, when the array stays and the node is wanted as before.
LEMMA QuietKeeps ==
  ASSUME PtyInv, NoPanic, NEW t \in Openers, NEW n \in PtyNode, n \in nodesNodes, OnlyAt(t, n), Calm(t, n),
         PtyTypeOK', NodeInv(n)', TaskInv(t)', array' = array, Wanted(n)' <=> Wanted(n)
  PROVE  PtyInv'
<1>1. \A m \in PtyNode : Wanted(m)' <=> Wanted(m)
  BY OnlySame DEF SameNode, Wanted
<1>2. \A p \in Ptys : Wanted(Secondary(p))' <=> Wanted(Secondary(p))
  BY <1>1, NodeIs
<1>3. \A u \in Openers : nodesPc[u] = "publish" => nodesPc'[u] = "publish" /\ nodesArg'[u] = nodesArg[u]
  BY DEF OnlyAt, Calm
<1>4. Entered /\ Listed /\ Indexed /\ index' = index /\ nodesNodes' = nodesNodes
  BY DEF PtyInv, Calm
<1>5. Entered' /\ Listed' /\ Indexed'
  BY <1>2, <1>3, <1>4, ArrayStays
<1>. QED BY <1>5, StepKeeps

-----------------------------------------------------------------------------
\* A node of the tree, and a node that a task has.
LEMMA TreeNode ==
  ASSUME PtyInv, NEW n \in inTree
  PROVE  /\ n \in PtyNode /\ n \in nodesNodes /\ NodeInv(n) /\ n = Secondary(n[1]) /\ n[1] \in Ptys
         /\ index[n[1]] \in DOMAIN array /\ array[index[n[1]]] = n[1]
<1>1. n \in PtyNode /\ n \in nodesNodes /\ NodeInv(n)
  BY DEF PtyInv, PtyTypeOK, InTreeIs, NodesInv
<1>2. n = Secondary(n[1]) /\ n[1] \in Ptys /\ index[n[1]] # ArrayCount /\ Wanted(n)
  BY <1>1, NodeIs DEF NodeInv, Wanted
<1>. QED BY <1>1, <1>2 DEF PtyInv, Listed

LEMMA HeldNode ==
  ASSUME PtyInv, NEW t \in Openers, NEW n \in PtyNode, n \in nodesHolds[t]
  PROVE  n \in nodesNodes /\ NodeInv(n) /\ t \in Owners(n) /\ Wanted(n)
<1>1. n \in nodesNodes /\ NodeInv(n)
  BY DEF PtyInv, HeldAllocated, NodesInv
<1>2. t \in Owners(n)
  BY DEF Owners
<1>. QED BY <1>1, <1>2 DEF Wanted

\* One more user of a node in the tree, or of one that is put there.
LEMMA JoinsTree ==
  ASSUME NEW n \in PtyNode, NodeInv(n), NEW t \in Openers, t \notin Owners(n), Owners(n)' = Owners(n) \cup {t},
         Extra(n)' <=> Extra(n), ~Adding(n)', n \in inTree', index' = index,
         treeState[n] \in Nat, treeState'[n] = treeState[n] + 1, nodesCount'[n] = nodesCount[n] + 1,
         n \in inTree \/ Adding(n), n \notin inTree => n[2] = "secondary" /\ index[n[1]] # ArrayCount,
         \A u \in Openers, here \in {"direct", "release"} : AtNode(u, n, here)' <=> AtNode(u, n, here),
         \A u \in Openers : AtNode(u, n, "direct") => u \in Owners(n)
  PROVE  NodeInv(n)'
<1>1. IsFiniteSet(Owners(n)) /\ Uses(n) \in Nat
  BY UsesIs DEF NodeInv
<1>2. IsFiniteSet(Owners(n)') /\ Uses(n)' = Uses(n) + 1
  BY <1>1, UsesJoin
<1>3. nodesCount'[n] = Uses(n)' + 1
  BY <1>1, <1>2 DEF NodeInv, One
<1>4. Owners(n)' # {} /\ Wanted(n)' /\ Wanted(n)
  BY DEF Wanted, NodeInv
<1>5. treeState'[n] <= Uses(n)' /\ Uses(n)' <= treeState'[n] + 1
  BY <1>1, <1>2 DEF NodeInv
<1>6. ASSUME NEW u \in Openers, AtNode(u, n, "direct")
      PROVE  treeState'[n] + 1 <= Uses(n)' /\ \E v \in Owners(n)' : v # u
  <2>1. CASE n \in inTree
    BY <2>1, <1>1, <1>2, <1>6 DEF NodeInv
  <2>2. CASE n \notin inTree
    <3>1. u \in Owners(n) /\ u # t /\ t \in Owners(n)'
      BY <1>6
    <3>2. Uses(n) = 1 /\ treeState[n] = 0
      BY <2>2, <3>1, <1>1, UsesIs DEF NodeInv
    <3>. QED BY <3>1, <3>2, <1>2
  <2>. QED BY <2>1, <2>2
<1>. QED BY <1>2, <1>3, <1>4, <1>5, <1>6 DEF NodeInv, One

\* The task that is ahead with the n_release of pty.c is one of the users.
LEMMA DirectOwns ==
  ASSUME PtyInv, NEW n \in PtyNode
  PROVE  \A u \in Openers : AtNode(u, n, "direct") \/ AtNode(u, n, "tree") => u \in Owners(n)
BY DEF PtyInv, TasksInv, TaskInv, AtNode, Owners

LEMMA OpenSeenKeeps ==
  ASSUME PtyInv, NoPanic, NEW t \in Openers, NEW i \in DOMAIN array, OpenSeen(t, i)
  PROVE  PtyInv'
<1>. PICK n \in Seen(i) \ nodesHolds[t] :
       CountNode(n) /\ nodesHolds' = [nodesHolds EXCEPT ![t] = @ \cup {n}]
  BY DEF OpenSeen
<1>1. n \in inTree /\ n \notin nodesHolds[t] /\ PtyTypeOK
  BY DEF Seen, PtyInv
<1>2. n \in PtyNode /\ n \in nodesNodes /\ NodeInv(n)
  BY <1>1, TreeNode
<1>3. /\ nodesPc[t] = "idle" /\ locker = NoTask
      /\ nodesPc' = nodesPc /\ nodesArg' = nodesArg /\ array' = array /\ shared' = shared /\ nodesNodes' = nodesNodes
      /\ index' = index /\ nshared' = nshared /\ inTree' = inTree /\ locker' = locker /\ overtaken' = overtaken
      /\ nodesHolds' = [nodesHolds EXCEPT ![t] = @ \cup {n}]
      /\ nodesCount' = [nodesCount EXCEPT ![n] = @ + 1] /\ treeState' = [treeState EXCEPT ![n] = @ + 1]
  BY DEF OpenSeen, CountNode, memory
<1>4. PtyTypeOK'
  BY <1>1, <1>2, <1>3 DEF PtyTypeOK
<1>5. /\ \A u \in Openers : nodesHolds'[u] = IF u = t THEN nodesHolds[u] \cup {n} ELSE nodesHolds[u]
      /\ \A m \in PtyNode : m # n => nodesCount'[m] = nodesCount[m] /\ treeState'[m] = treeState[m]
      /\ nodesCount'[n] = nodesCount[n] + 1 /\ treeState'[n] = treeState[n] + 1 /\ treeState[n] \in Nat
  BY <1>1, <1>2, <1>3 DEF PtyTypeOK
<1>6. OnlyAt(t, n) /\ Calm(t, n)
  BY <1>3, <1>5 DEF OnlyAt, Calm, Making
<1>7. /\ Owners(n)' = Owners(n) \cup {t} /\ t \notin Owners(n) /\ (Extra(n)' <=> Extra(n)) /\ (Adding(n)' <=> Adding(n))
      /\ \A u \in Openers, here \in {"direct", "release"} : AtNode(u, n, here)' <=> AtNode(u, n, here)
  BY <1>1, <1>3, <1>5 DEF Owners, Extra, Adding, AtNode
<1>8. NodeInv(n)'
  <2>1. ~Adding(n)' /\ n \in inTree'
    BY <1>1, <1>2, <1>3, <1>7 DEF NodeInv
  <2>. QED BY <2>1, <1>1, <1>2, <1>3, <1>5, <1>7, JoinsTree, DirectOwns
<1>9. TaskInv(t)'
  BY <1>3 DEF TaskInv, Making
<1>10. Wanted(n)' <=> Wanted(n)
  BY <1>1, <1>2, <1>7 DEF Wanted, NodeInv
<1>. QED BY <1>2, <1>3, <1>4, <1>6, <1>8, <1>9, <1>10, QuietKeeps

LEMMA OpenPtsKeeps ==
  ASSUME PtyInv, NoPanic, NEW t \in Openers, NEW i \in DOMAIN array, OpenPts(t, i)
  PROVE  PtyInv'
<1>. PICK n : n = Secondary(array[i])
  OBVIOUS
<1>0. PtyTypeOK /\ array[i] \in Ptys
  BY DEF PtyInv, PtyTypeOK, OpenPts, PtyFound
<1>1. /\ n \in PtyNode /\ n \in nodesNodes /\ NodeInv(n) /\ Wanted(n) /\ n[1] = array[i] /\ n[2] = "secondary"
      /\ index[n[1]] = i
  BY <1>0, NodeIs DEF PtyInv, Entered, NodesInv
<1>2. i # ArrayCount
  BY <1>0, PtyAssumption DEF PtyTypeOK
<1>3. /\ nodesPc[t] = "idle" /\ locker = NoTask /\ locker' = t /\ Seen(i) = {} /\ n \notin nodesHolds[t]
      /\ nodesPc' = [nodesPc EXCEPT ![t] = "add"] /\ nodesArg' = [nodesArg EXCEPT ![t] = n]
      /\ array' = array /\ shared' = shared /\ nodesNodes' = nodesNodes
      /\ index' = index /\ nshared' = nshared /\ inTree' = inTree /\ overtaken' = overtaken
      /\ nodesHolds' = nodesHolds /\ treeState' = treeState
      /\ nodesCount' = [nodesCount EXCEPT ![n] = @ + 1]
  BY DEF OpenPts, At, memory
<1>4. PtyTypeOK'
  BY <1>0, <1>1, <1>3 DEF PtyTypeOK
<1>5. /\ \A u \in Openers : nodesPc'[u] = IF u = t THEN "add" ELSE nodesPc[u]
      /\ \A u \in Openers : nodesArg'[u] = IF u = t THEN n ELSE nodesArg[u]
      /\ \A m \in PtyNode : m # n => nodesCount'[m] = nodesCount[m]
      /\ nodesCount'[n] = nodesCount[n] + 1
  BY <1>0, <1>1, <1>3 DEF PtyTypeOK
<1>6. n \notin inTree
  BY <1>1, <1>3 DEF Seen
<1>7. OnlyAt(t, n) /\ Calm(t, n)
  BY <1>3, <1>5 DEF OnlyAt, Calm, Making
<1>8. ~Adding(n)
  <2>1. \A u \in Openers : nodesPc[u] \in {"add", "addown"} => locker = u
    BY DEF PtyInv, TasksInv, TaskInv
  <2>. QED BY <2>1, <1>3, PtyAssumption DEF Adding, AtNode, NoTask
<1>9. /\ Owners(n)' = Owners(n) /\ (Extra(n)' <=> Extra(n)) /\ Adding(n)'
      /\ \A u \in Openers, here \in {"direct", "release"} : AtNode(u, n, here)' <=> AtNode(u, n, here)
  BY <1>3, <1>5 DEF Owners, Extra, Adding, AtNode
<1>10. Uses(n)' = Uses(n) /\ Uses(n) \in Nat
  BY <1>1, <1>9, UsesIs DEF Uses, One, NodeInv
<1>11. NodeInv(n)'
  <2>1. nodesCount'[n] = Uses(n)' + One(n \in inTree' \/ Adding(n)')
    BY <1>1, <1>3, <1>5, <1>6, <1>8, <1>9, <1>10 DEF NodeInv, One
  <2>2. Wanted(n)'
    BY <1>9 DEF Wanted
  <2>3. \A u \in Openers : ~AtNode(u, n, "release")'
    BY <1>1, <1>9 DEF NodeInv
  <2>. HIDE DEF One
  <2>. QED BY <2>1, <2>2, <2>3, <1>1, <1>3, <1>6, <1>9, <1>10 DEF NodeInv
<1>12. TaskInv(t)'
  BY <1>1, <1>2, <1>3, <1>5, <1>6 DEF TaskInv, Making
<1>13. Wanted(n)' <=> Wanted(n)
  BY <1>1, <1>9 DEF Wanted
<1>. QED BY <1>1, <1>3, <1>4, <1>7, <1>11, <1>12, <1>13, QuietKeeps
\* The task that adds a node to the tree has locked it: no other adds one.
LEMMA AddsAlone ==
  ASSUME PtyInv, NEW t \in Openers, locker = t
  PROVE  \A u \in Openers : nodesPc[u] \in {"add", "addown"} => u = t
BY DEF PtyInv, TasksInv, TaskInv

LEMMA OpenAddKeeps ==
  ASSUME PtyInv, NoPanic, NEW t \in Openers, OpenAdd(t)
  PROVE  PtyInv'
<1>. PICK n : n = nodesArg[t]
  OBVIOUS
<1>0. PtyTypeOK /\ TaskInv(t)
  BY DEF PtyInv, TasksInv
<1>1. /\ nodesPc[t] = "add" /\ nodesPc' = [nodesPc EXCEPT ![t] = "idle"] /\ nodesArg' = nodesArg
      /\ array' = array /\ shared' = shared /\ nodesNodes' = nodesNodes
      /\ index' = index /\ nshared' = nshared /\ overtaken' = overtaken /\ locker' = NoTask
      /\ inTree' = inTree \cup {n} /\ nodesHolds' = [nodesHolds EXCEPT ![t] = @ \cup {n}]
      /\ nodesCount' = [nodesCount EXCEPT ![n] = @ + 1] /\ treeState' = [treeState EXCEPT ![n] = @ + 1]
  BY DEF OpenAdd, At, CountNode, memory
<1>2. /\ n \in PtyNode /\ n \in nodesNodes /\ n \notin inTree /\ locker = t
      /\ n[2] = "secondary" /\ index[n[1]] # ArrayCount /\ n \notin nodesHolds[t]
  BY <1>0, <1>1 DEF TaskInv, PtyTypeOK
<1>3. NodeInv(n)
  BY <1>2 DEF PtyInv, NodesInv
<1>4. PtyTypeOK'
  BY <1>0, <1>1, <1>2 DEF PtyTypeOK
<1>5. /\ \A u \in Openers : nodesHolds'[u] = IF u = t THEN nodesHolds[u] \cup {n} ELSE nodesHolds[u]
      /\ \A u \in Openers : nodesPc'[u] = IF u = t THEN "idle" ELSE nodesPc[u]
      /\ \A m \in PtyNode : m # n => nodesCount'[m] = nodesCount[m] /\ treeState'[m] = treeState[m]
      /\ nodesCount'[n] = nodesCount[n] + 1 /\ treeState'[n] = treeState[n] + 1 /\ treeState[n] \in Nat
  BY <1>0, <1>1, <1>2 DEF PtyTypeOK
<1>6. OnlyAt(t, n) /\ Calm(t, n)
  BY <1>1, <1>2, <1>5 DEF OnlyAt, Calm, Making
<1>7. Adding(n)
  BY <1>1 DEF Adding, AtNode
<1>8. ~Adding(n)'
  BY <1>2, <1>5, AddsAlone DEF Adding, AtNode
<1>9. /\ Owners(n)' = Owners(n) \cup {t} /\ t \notin Owners(n) /\ (Extra(n)' <=> Extra(n))
      /\ \A u \in Openers, here \in {"direct", "release"} : AtNode(u, n, here)' <=> AtNode(u, n, here)
  BY <1>1, <1>2, <1>5 DEF Owners, Extra, AtNode
<1>10. NodeInv(n)'
  BY <1>1, <1>2, <1>3, <1>5, <1>7, <1>8, <1>9, JoinsTree, DirectOwns
<1>11. TaskInv(t)'
  BY <1>5 DEF TaskInv, Making
<1>12. Wanted(n)' <=> Wanted(n)
  BY <1>7, <1>9 DEF Wanted
<1>. QED BY <1>1, <1>2, <1>4, <1>6, <1>10, <1>11, <1>12, QuietKeeps

\* What pty_create has in its hands when it opens the secondary node.
LEMMA MakerHas ==
  ASSUME PtyInv, NEW t \in Openers, nodesPc[t] \in {"open", "addown", "undo"}
  PROVE  LET n == nodesArg[t] IN
         /\ n \in PtyNode /\ n \in nodesNodes /\ NodeInv(n) /\ n = Secondary(n[1]) /\ n[2] = "secondary"
         /\ n \in nodesHolds[t] /\ Main(n[1]) \in nodesHolds[t] /\ t \in Owners(n) /\ Wanted(n)
         /\ n[1] \in Ptys /\ index[n[1]] # ArrayCount /\ index[n[1]] \in DOMAIN array /\ array[index[n[1]]] = n[1]
<1>. DEFINE n == nodesArg[t]
<1>1. n \in PtyNode /\ TaskInv(t)
  BY DEF PtyInv, PtyTypeOK, TasksInv
<1>2. n = Secondary(n[1]) /\ n \in nodesHolds[t] /\ Main(n[1]) \in nodesHolds[t] /\ index[n[1]] # ArrayCount
  BY <1>1 DEF TaskInv, Making
<1>3. n \in nodesNodes /\ NodeInv(n) /\ t \in Owners(n) /\ Wanted(n)
  BY <1>1, <1>2, HeldNode
<1>4. n[1] \in Ptys /\ n[2] = "secondary"
  BY <1>1, <1>2, NodeIs
<1>. HIDE DEF n
<1>5. index[n[1]] \in DOMAIN array /\ array[index[n[1]]] = n[1]
  BY <1>2, <1>3, <1>4 DEF PtyInv, Listed
<1>. QED BY <1>1, <1>2, <1>3, <1>4, <1>5 DEF n

LEMMA OpenCreatedSeenKeeps ==
  ASSUME PtyInv, NoPanic, NEW t \in Openers, OpenCreatedSeen(t)
  PROVE  PtyInv'
<1>. PICK n : n = nodesArg[t]
  OBVIOUS
<1>0. PtyTypeOK /\ TaskInv(t) /\ nodesPc[t] = "open" /\ locker = NoTask
  BY DEF PtyInv, TasksInv, OpenCreatedSeen
<1>1. /\ n \in PtyNode /\ n \in nodesNodes /\ NodeInv(n) /\ n = Secondary(n[1]) /\ n \in nodesHolds[t] /\ t \in Owners(n)
      /\ n[1] \in Ptys /\ array[index[n[1]]] = n[1] /\ Main(n[1]) \in nodesHolds[t] /\ Wanted(n) /\ index[n[1]] # ArrayCount
  BY <1>0, MakerHas
<1>2. \A m \in Seen(index[n[1]]) : m = n
  <2>. TAKE m \in Seen(index[n[1]])
  <2>1. m \in inTree /\ index[m[1]] = index[n[1]]
    BY DEF Seen
  <2>2. m = Secondary(m[1]) /\ array[index[m[1]]] = m[1]
    BY <2>1, TreeNode
  <2>. QED BY <2>1, <2>2, <1>1
<1>3. /\ n \in inTree
      /\ nodesPc' = [nodesPc EXCEPT ![t] = "undo"] /\ nodesArg' = nodesArg
      /\ array' = array /\ shared' = shared /\ nodesNodes' = nodesNodes
      /\ index' = index /\ nshared' = nshared /\ overtaken' = overtaken /\ locker' = locker
      /\ inTree' = inTree /\ nodesHolds' = nodesHolds
      /\ nodesCount' = [nodesCount EXCEPT ![n] = @ + 1] /\ treeState' = [treeState EXCEPT ![n] = @ + 1]
  <2>. PICK m \in Seen(index[n[1]]) :
       \/ /\ m = nodesArg[t] /\ CountNode(m) /\ nodesPc' = [nodesPc EXCEPT ![t] = "undo"]
          /\ UNCHANGED <<array, memory, index, nshared, nodesHolds, nodesArg, inTree, locker, overtaken>>
       \/ m # nodesArg[t] /\ Panics(t)
    BY DEF OpenCreatedSeen
  <2>1. m = n /\ m \in inTree
    BY <1>2 DEF Seen
  <2>. QED BY <2>1 DEF CountNode, memory
<1>4. PtyTypeOK'
  BY <1>0, <1>1, <1>3 DEF PtyTypeOK
<1>5. /\ \A u \in Openers : nodesPc'[u] = IF u = t THEN "undo" ELSE nodesPc[u]
      /\ \A m \in PtyNode : m # n => nodesCount'[m] = nodesCount[m] /\ treeState'[m] = treeState[m]
      /\ nodesCount'[n] = nodesCount[n] + 1 /\ treeState'[n] = treeState[n] + 1 /\ treeState[n] \in Nat
      /\ nodesCount[n] \in Nat
  BY <1>0, <1>1, <1>3 DEF PtyTypeOK
<1>6. OnlyAt(t, n) /\ Calm(t, n)
  BY <1>0, <1>3, <1>5 DEF OnlyAt, Calm, Making
<1>7. ~Extra(n)
  <2>1. \A u \in Openers : AtNode(u, n, "undo") => u = t
    BY <1>0 DEF PtyInv, Alone, Making, AtNode
  <2>. QED BY <2>1, <1>0 DEF Extra, AtNode
<1>8. /\ Owners(n)' = Owners(n) /\ Extra(n)' /\ (Adding(n)' <=> Adding(n))
      /\ \A u \in Openers, here \in {"direct", "release"} : AtNode(u, n, here)' <=> AtNode(u, n, here)
  <2>1. \A u \in Openers, here \in {"direct", "release", "add", "addown"} : AtNode(u, n, here)' <=> AtNode(u, n, here)
    BY <1>0, <1>3, <1>5 DEF AtNode
  <2>2. Owners(n)' = Owners(n)
    BY <1>3 DEF Owners
  <2>3. Extra(n)'
    BY <1>3, <1>5 DEF Extra, AtNode
  <2>. QED BY <2>1, <2>2, <2>3 DEF Adding
<1>9. Uses(n)' = Uses(n) + 1 /\ Uses(n) \in Nat
  BY <1>1, <1>7, <1>8, UsesIs, UsesExtra DEF NodeInv
<1>10. Wanted(n)' <=> Wanted(n)
  BY <1>8 DEF Wanted
<1>11. NodeInv(n)'
  <2>1. nodesCount'[n] = Uses(n)' + One(n \in inTree' \/ Adding(n)')
    BY <1>1, <1>3, <1>5, <1>8, <1>9 DEF NodeInv, One
  <2>. HIDE DEF One
  <2>. QED BY <2>1, <1>1, <1>3, <1>5, <1>8, <1>9, <1>10 DEF NodeInv
<1>12. TaskInv(t)'
  BY <1>1, <1>3, <1>5 DEF TaskInv, Making
<1>. QED BY <1>1, <1>3, <1>4, <1>6, <1>10, <1>11, <1>12, QuietKeeps
LEMMA OpenCreatedKeeps ==
  ASSUME PtyInv, NoPanic, NEW t \in Openers, OpenCreated(t)
  PROVE  PtyInv'
<1>. PICK n : n = nodesArg[t]
  OBVIOUS
<1>0. PtyTypeOK /\ TaskInv(t) /\ nodesPc[t] = "open" /\ locker = NoTask /\ Seen(index[n[1]]) = {}
  BY DEF PtyInv, TasksInv, OpenCreated
<1>1. /\ n \in PtyNode /\ n \in nodesNodes /\ NodeInv(n) /\ n = Secondary(n[1]) /\ n \in nodesHolds[t] /\ t \in Owners(n)
      /\ n[1] \in Ptys /\ array[index[n[1]]] = n[1] /\ Main(n[1]) \in nodesHolds[t] /\ Wanted(n) /\ index[n[1]] # ArrayCount
      /\ n[2] = "secondary"
  BY <1>0, MakerHas
<1>2. n \notin inTree
  BY <1>0 DEF Seen
<1>3. /\ nodesPc' = [nodesPc EXCEPT ![t] = "addown"] /\ nodesArg' = nodesArg /\ locker' = t
      /\ array' = array /\ shared' = shared /\ nodesNodes' = nodesNodes
      /\ index' = index /\ nshared' = nshared /\ overtaken' = overtaken
      /\ inTree' = inTree /\ nodesHolds' = nodesHolds /\ treeState' = treeState
      /\ nodesCount' = [nodesCount EXCEPT ![n] = @ + 1]
  BY <1>1 DEF OpenCreated, memory
<1>4. PtyTypeOK'
  BY <1>0, <1>1, <1>3 DEF PtyTypeOK
<1>5. /\ \A u \in Openers : nodesPc'[u] = IF u = t THEN "addown" ELSE nodesPc[u]
      /\ \A m \in PtyNode : m # n => nodesCount'[m] = nodesCount[m]
      /\ nodesCount'[n] = nodesCount[n] + 1
  BY <1>0, <1>1, <1>3 DEF PtyTypeOK
<1>6. OnlyAt(t, n) /\ Calm(t, n)
  BY <1>0, <1>3, <1>5 DEF OnlyAt, Calm, Making
<1>7. ~Adding(n)
  <2>1. \A u \in Openers : nodesPc[u] \in {"add", "addown"} => locker = u
    BY DEF PtyInv, TasksInv, TaskInv
  <2>. QED BY <2>1, <1>0, PtyAssumption DEF Adding, AtNode, NoTask
<1>8. /\ Owners(n)' = Owners(n) /\ (Extra(n)' <=> Extra(n)) /\ Adding(n)'
      /\ \A u \in Openers, here \in {"direct", "release"} : AtNode(u, n, here)' <=> AtNode(u, n, here)
  BY <1>0, <1>3, <1>5 DEF Owners, Extra, Adding, AtNode
<1>9. Uses(n)' = Uses(n) /\ Uses(n) \in Nat
  BY <1>1, <1>8, UsesIs DEF Uses, One, NodeInv
<1>10. NodeInv(n)'
  <2>1. nodesCount'[n] = Uses(n)' + One(n \in inTree' \/ Adding(n)')
    BY <1>1, <1>2, <1>3, <1>5, <1>7, <1>8, <1>9 DEF NodeInv, One
  <2>2. Wanted(n)'
    BY <1>8 DEF Wanted
  <2>3. \A u \in Openers : ~AtNode(u, n, "release")'
    BY <1>1, <1>8 DEF NodeInv
  <2>. HIDE DEF One
  <2>. QED BY <2>1, <2>2, <2>3, <1>1, <1>2, <1>3, <1>8, <1>9 DEF NodeInv
<1>11. TaskInv(t)'
  BY <1>1, <1>2, <1>3, <1>5 DEF TaskInv, Making
<1>12. Wanted(n)' <=> Wanted(n)
  BY <1>1, <1>8 DEF Wanted
<1>. QED BY <1>1, <1>3, <1>4, <1>6, <1>10, <1>11, <1>12, QuietKeeps

LEMMA AddCreatedKeeps ==
  ASSUME PtyInv, NoPanic, NEW t \in Openers, AddCreated(t)
  PROVE  PtyInv'
<1>. PICK n : n = nodesArg[t]
  OBVIOUS
<1>0. PtyTypeOK /\ TaskInv(t) /\ nodesPc[t] = "addown"
  BY DEF PtyInv, TasksInv, AddCreated, At
<1>1. /\ n \in PtyNode /\ n \in nodesNodes /\ NodeInv(n) /\ n = Secondary(n[1]) /\ n \in nodesHolds[t] /\ t \in Owners(n)
      /\ n[1] \in Ptys /\ array[index[n[1]]] = n[1] /\ Main(n[1]) \in nodesHolds[t] /\ Wanted(n) /\ index[n[1]] # ArrayCount
      /\ n[2] = "secondary"
  BY <1>0, MakerHas
<1>2. n \notin inTree /\ locker = t
  BY <1>0 DEF TaskInv
<1>3. /\ nodesPc' = [nodesPc EXCEPT ![t] = "undo"] /\ nodesArg' = nodesArg /\ locker' = NoTask
      /\ array' = array /\ shared' = shared /\ nodesNodes' = nodesNodes
      /\ index' = index /\ nshared' = nshared /\ overtaken' = overtaken
      /\ inTree' = inTree \cup {n} /\ nodesHolds' = nodesHolds
      /\ nodesCount' = [nodesCount EXCEPT ![n] = @ + 1] /\ treeState' = [treeState EXCEPT ![n] = @ + 1]
  BY DEF AddCreated, At, CountNode, memory
<1>4. PtyTypeOK'
  BY <1>0, <1>1, <1>3 DEF PtyTypeOK
<1>5. /\ \A u \in Openers : nodesPc'[u] = IF u = t THEN "undo" ELSE nodesPc[u]
      /\ \A m \in PtyNode : m # n => nodesCount'[m] = nodesCount[m] /\ treeState'[m] = treeState[m]
      /\ nodesCount'[n] = nodesCount[n] + 1 /\ treeState'[n] = treeState[n] + 1
  BY <1>0, <1>1, <1>3 DEF PtyTypeOK
<1>6. OnlyAt(t, n) /\ Calm(t, n)
  BY <1>0, <1>2, <1>3, <1>5 DEF OnlyAt, Calm, Making
<1>7. ~Extra(n)
  <2>1. \A u \in Openers : AtNode(u, n, "undo") => u = t
    BY <1>0 DEF PtyInv, Alone, Making, AtNode
  <2>. QED BY <2>1, <1>0 DEF Extra, AtNode
<1>8. /\ Owners(n)' = Owners(n) /\ Extra(n)' /\ ~Adding(n)' /\ Adding(n)
      /\ \A u \in Openers, here \in {"direct", "release"} : AtNode(u, n, here)' <=> AtNode(u, n, here)
  <2>1. \A u \in Openers, here \in {"direct", "release"} : AtNode(u, n, here)' <=> AtNode(u, n, here)
    BY <1>0, <1>3, <1>5 DEF AtNode
  <2>2. Owners(n)' = Owners(n)
    BY <1>3 DEF Owners
  <2>3. Extra(n)' /\ Adding(n)
    BY <1>0, <1>3, <1>5 DEF Extra, AtNode, Adding
  <2>4. ~Adding(n)'
    BY <1>2, <1>5, AddsAlone DEF Adding, AtNode
  <2>. QED BY <2>1, <2>2, <2>3, <2>4
<1>9. Uses(n)' = Uses(n) + 1 /\ Uses(n) = 1 /\ treeState[n] = 0
  <2>1. Uses(n) \in Nat /\ Uses(n) # 0 /\ Uses(n)' = Uses(n) + 1
    BY <1>1, <1>7, <1>8, UsesIs, UsesExtra DEF NodeInv
  <2>. QED BY <2>1, <1>1, <1>2 DEF NodeInv
<1>10. \A u \in Openers : ~AtNode(u, n, "direct")
  <2>1. \A u \in Openers : AtNode(u, n, "direct") => u \in Owners(n)
    BY <1>1, DirectOwns
  <2>2. \A u, v \in Owners(n) : u = v
    BY <1>1, <1>9, UsesIs DEF NodeInv
  <2>. QED BY <2>1, <2>2, <1>0, <1>1 DEF AtNode
<1>11. Wanted(n)' <=> Wanted(n)
  BY <1>1, <1>8 DEF Wanted
<1>12. NodeInv(n)'
  <2>1. nodesCount'[n] = Uses(n)' + One(n \in inTree' \/ Adding(n)')
    BY <1>1, <1>2, <1>3, <1>5, <1>8, <1>9 DEF NodeInv, One
  <2>2. treeState'[n] <= Uses(n)' /\ Uses(n)' <= treeState'[n] + 1
    BY <1>5, <1>9
  <2>3. Owners(n)' # {} /\ IsFiniteSet(Owners(n))' /\ index' = index /\ n \in inTree'
    BY <1>1, <1>3, <1>8 DEF NodeInv
  <2>4. \A u \in Openers : ~AtNode(u, n, "direct")' /\ ~AtNode(u, n, "release")'
    BY <1>1, <1>8, <1>10 DEF NodeInv
  <2>. HIDE DEF One
  <2>. QED BY <2>1, <2>2, <2>3, <2>4, <1>1, <1>8, <1>11 DEF NodeInv
<1>13. TaskInv(t)'
  BY <1>1, <1>3, <1>5 DEF TaskInv, Making
<1>. QED BY <1>1, <1>3, <1>4, <1>6, <1>11, <1>12, <1>13, QuietKeeps

LEMMA CreateDoneKeeps ==
  ASSUME PtyInv, NoPanic, NEW t \in Openers, CreateDone(t)
  PROVE  PtyInv'
<1>. PICK n : n = nodesArg[t]
  OBVIOUS
<1>0. PtyTypeOK /\ TaskInv(t) /\ nodesPc[t] = "undo"
  BY DEF PtyInv, TasksInv, CreateDone
<1>1. n \in PtyNode /\ n \in nodesNodes /\ NodeInv(n) /\ t \in Owners(n) /\ Wanted(n) /\ Extra(n)
  BY <1>0, MakerHas DEF Extra, AtNode
<1>2. Uses(n) \in Nat /\ Uses(n) >= 2
  BY <1>1, UsesIs DEF NodeInv
<1>3. n \in inTree /\ nodesCount[n] > 1 /\ treeState[n] > 0 /\ nodesCount[n] \in Nat /\ treeState[n] \in Nat
  BY <1>0, <1>1, <1>2 DEF NodeInv, One, PtyTypeOK
<1>4. /\ nodesPc' = [nodesPc EXCEPT ![t] = "idle"] /\ nodesArg' = nodesArg /\ locker' = locker
      /\ array' = array /\ shared' = shared /\ nodesNodes' = nodesNodes
      /\ index' = index /\ nshared' = nshared /\ overtaken' = overtaken
      /\ inTree' = inTree /\ nodesHolds' = nodesHolds
      /\ nodesCount' = [nodesCount EXCEPT ![n] = @ - 1]
      /\ treeState' = [treeState EXCEPT ![n] = IF @ > 0 THEN @ - 1 ELSE 0]
  BY <1>3 DEF CreateDone, Lowered, memory
<1>5. /\ \A u \in Openers : nodesPc'[u] = IF u = t THEN "idle" ELSE nodesPc[u]
      /\ \A m \in PtyNode : m # n => nodesCount'[m] = nodesCount[m] /\ treeState'[m] = treeState[m]
      /\ nodesCount'[n] = nodesCount[n] - 1 /\ treeState'[n] = treeState[n] - 1
  BY <1>0, <1>1, <1>3, <1>4 DEF PtyTypeOK
<1>6. PtyTypeOK'
  BY <1>0, <1>1, <1>3, <1>4 DEF PtyTypeOK
<1>7. OnlyAt(t, n) /\ Calm(t, n)
  BY <1>0, <1>4, <1>5 DEF OnlyAt, Calm, Making
<1>8. /\ Owners(n)' = Owners(n) /\ ~Extra(n)' /\ (Adding(n)' <=> Adding(n))
      /\ \A u \in Openers, here \in {"direct", "release"} : AtNode(u, n, here)' <=> AtNode(u, n, here)
  <2>1. \A u \in Openers, here \in {"direct", "release", "add", "addown"} : AtNode(u, n, here)' <=> AtNode(u, n, here)
    BY <1>0, <1>4, <1>5 DEF AtNode
  <2>2. Owners(n)' = Owners(n)
    BY <1>4 DEF Owners
  <2>3. \A u \in Openers : AtNode(u, n, "undo") => u = t
    BY <1>0 DEF PtyInv, Alone, Making, AtNode
  <2>4. ~Extra(n)'
    BY <2>3, <1>4, <1>5 DEF Extra, AtNode
  <2>. QED BY <2>1, <2>2, <2>4 DEF Adding
<1>9. Uses(n)' = Uses(n) - 1
  BY <1>1, <1>8, UsesExtra DEF NodeInv
<1>10. Wanted(n)' <=> Wanted(n)
  BY <1>8 DEF Wanted
<1>11. NodeInv(n)'
  <2>1. nodesCount'[n] = Uses(n)' + One(n \in inTree' \/ Adding(n)')
    BY <1>1, <1>2, <1>3, <1>4, <1>5, <1>8, <1>9 DEF NodeInv, One
  <2>2. /\ treeState'[n] <= Uses(n)' /\ Uses(n)' <= treeState'[n] + 1
        /\ treeState[n] + 1 <= Uses(n) => treeState'[n] + 1 <= Uses(n)'
    BY <1>1, <1>2, <1>3, <1>5, <1>9 DEF NodeInv
  <2>. HIDE DEF One
  <2>. QED BY <2>1, <2>2, <1>1, <1>3, <1>4, <1>8, <1>10 DEF NodeInv
<1>12. TaskInv(t)'
  BY <1>5 DEF TaskInv, Making
<1>. QED BY <1>1, <1>4, <1>6, <1>7, <1>10, <1>11, <1>12, QuietKeeps

LEMMA PtyReleaseKeeps ==
  ASSUME PtyInv, NoPanic, NEW t \in Openers, NEW n \in PtyNode, PtyRelease(t, n)
  PROVE  PtyInv'
<1>0. PtyTypeOK
  BY DEF PtyInv
<1>. PICK to : to = (IF n \in inTree THEN "tree" ELSE "direct")
  OBVIOUS
<1>1. /\ n \in nodesHolds[t] /\ nodesPc[t] = "idle"
      /\ nodesPc' = [nodesPc EXCEPT ![t] = to] /\ nodesArg' = [nodesArg EXCEPT ![t] = n] /\ locker' = locker
      /\ array' = array /\ shared' = shared /\ nodesNodes' = nodesNodes
      /\ index' = index /\ nshared' = nshared /\ overtaken' = overtaken
      /\ inTree' = inTree /\ nodesHolds' = nodesHolds /\ nodesCount' = nodesCount /\ treeState' = treeState
  BY DEF PtyRelease, At, memory, inVfs
<1>2. n \in nodesNodes /\ NodeInv(n) /\ t \in Owners(n) /\ Wanted(n)
  BY <1>1, HeldNode
<1>3. PtyTypeOK'
  BY <1>0, <1>1 DEF PtyTypeOK
<1>4. /\ \A u \in Openers : nodesPc'[u] = IF u = t THEN to ELSE nodesPc[u]
      /\ \A u \in Openers : nodesArg'[u] = IF u = t THEN n ELSE nodesArg[u]
  BY <1>0, <1>1 DEF PtyTypeOK
<1>5. OnlyAt(t, n) /\ Calm(t, n)
  BY <1>1, <1>4 DEF OnlyAt, Calm, Making
<1>6. /\ Owners(n)' = Owners(n) /\ (Extra(n)' <=> Extra(n)) /\ (Adding(n)' <=> Adding(n))
      /\ \A u \in Openers : AtNode(u, n, "release")' <=> AtNode(u, n, "release")
      /\ \A u \in Openers : u # t => (AtNode(u, n, "direct")' <=> AtNode(u, n, "direct"))
      /\ AtNode(t, n, "direct")' => n \notin inTree
      /\ ~AtNode(t, n, "direct")
  BY <1>1, <1>4 DEF Owners, Extra, Adding, AtNode
<1>7. Uses(n)' = Uses(n) /\ (Wanted(n)' <=> Wanted(n))
  BY <1>6 DEF Uses, One, Wanted
<1>8. n \notin inTree => \A u \in Openers : ~AtNode(u, n, "direct")
  <2>1. n \notin inTree => \A u, v \in Owners(n) : u = v
    BY <1>2, UsesIs DEF NodeInv
  <2>. QED BY <2>1, <1>2, <1>6, DirectOwns
<1>9. NodeInv(n)'
  <2>1. nodesCount'[n] = Uses(n)' + One(n \in inTree' \/ Adding(n)')
    BY <1>1, <1>2, <1>6, <1>7 DEF NodeInv, One
  <2>2. \A u \in Openers : AtNode(u, n, "direct")' /\ n \in inTree => u # t /\ AtNode(u, n, "direct")
    BY <1>6
  <2>3. \A u, v \in Openers : AtNode(u, n, "direct")' /\ AtNode(v, n, "direct")' => u = v
    BY <1>2, <1>6, <1>8 DEF NodeInv
  <2>. HIDE DEF One, Uses, Wanted
  <2>. QED BY <2>1, <2>2, <2>3, <1>1, <1>2, <1>6, <1>7 DEF NodeInv
<1>10. TaskInv(t)'
  BY <1>1, <1>4 DEF TaskInv, Making
<1>. QED BY <1>1, <1>2, <1>3, <1>5, <1>7, <1>9, <1>10, QuietKeeps
\* The secondary node of a pty that nobody wants any more leaves the array.
LEMMA ArrayDrops ==
  ASSUME PtyInv, NEW t \in Openers, NEW n \in PtyNode, OnlyAt(t, n), n \in nodesNodes, Wanted(n), ~Wanted(n)',
         index' = index, nodesNodes' = nodesNodes,
         array' = IF n[2] = "secondary" THEN [array EXCEPT ![index[n[1]]] = NoPty] ELSE array,
         \A u \in Openers : nodesPc[u] = "publish" => nodesPc'[u] = "publish" /\ nodesArg'[u] = nodesArg[u]
  PROVE  Entered' /\ Listed' /\ Indexed'
<1>0. Entered /\ Listed /\ Indexed /\ PtyTypeOK
  BY DEF PtyInv
<1>1. \A m \in PtyNode : m # n => (Wanted(m)' <=> Wanted(m))
  BY OnlySame DEF SameNode, Wanted
<1>2. \A p \in Ptys : Secondary(p) # n => (Wanted(Secondary(p))' <=> Wanted(Secondary(p)))
  BY <1>1, NodeIs
<1>3. /\ n[2] = "secondary" => n = Secondary(n[1]) /\ n[1] \in Ptys
      /\ \A p \in Ptys : Secondary(p) = n => n[2] = "secondary" /\ n[1] = p
  BY NodeIs
<1>4. NoPty \notin Ptys
  BY PtyAssumption DEF NoPty
<1>5. /\ DOMAIN array' = DOMAIN array
      /\ \A i \in DOMAIN array : array'[i] = IF n[2] = "secondary" /\ i = index[n[1]] THEN NoPty ELSE array[i]
  BY <1>0 DEF PtyTypeOK
<1>. HIDE DEF Wanted
<1>6. Entered'
  BY <1>0, <1>2, <1>3, <1>4, <1>5 DEF Entered
<1>7. Listed'
  <2>. SUFFICES ASSUME NEW p \in Ptys, Secondary(p) \in nodesNodes, Wanted(Secondary(p))', index[p] # ArrayCount
                PROVE  index[p] \in DOMAIN array' /\ array'[index[p]] = p
    BY DEF Listed
  <2>1. Secondary(p) # n /\ index[p] \in DOMAIN array /\ array[index[p]] = p
    BY <1>0, <1>2 DEF Listed
  <2>2. n[2] = "secondary" => index[p] # index[n[1]]
    <3>. SUFFICES ASSUME n[2] = "secondary", index[p] = index[n[1]] PROVE FALSE
      OBVIOUS
    <3>1. array[index[n[1]]] = n[1]
      BY <1>0, <1>3 DEF Listed
    <3>. QED BY <3>1, <2>1, <1>3
  <2>. QED BY <2>1, <2>2, <1>5
<1>8. Indexed'
  BY <1>0 DEF Indexed, AtNode
<1>. QED BY <1>6, <1>7, <1>8

LEMMA DirectReleaseKeeps ==
  ASSUME PtyInv, NoPanic, NEW t \in Openers, DirectRelease(t)
  PROVE  PtyInv'
<1>. PICK n : n = nodesArg[t]
  OBVIOUS
<1>0. PtyTypeOK /\ TaskInv(t) /\ nodesPc[t] = "direct"
  BY DEF PtyInv, TasksInv, DirectRelease
<1>1. n \in PtyNode /\ n \in nodesHolds[t]
  BY <1>0 DEF TaskInv, PtyTypeOK
<1>2. n \in nodesNodes /\ NodeInv(n) /\ t \in Owners(n) /\ Wanted(n) /\ AtNode(t, n, "direct")
  BY <1>0, <1>1, HeldNode DEF AtNode
<1>3. /\ nodesArg' = nodesArg /\ locker' = locker /\ shared' = shared /\ nodesNodes' = nodesNodes
      /\ index' = index /\ nshared' = nshared /\ overtaken' = overtaken /\ inTree' = inTree
      /\ nodesHolds' = [nodesHolds EXCEPT ![t] = @ \ {n}]
      /\ nodesCount' = [nodesCount EXCEPT ![n] = @ - 1]
      /\ treeState' = [treeState EXCEPT ![n] = IF @ > 0 THEN @ - 1 ELSE 0]
      /\ nodesPc' = [nodesPc EXCEPT ![t] = IF nodesCount[n] = 1 THEN "release" ELSE "idle"]
      /\ array' = IF nodesCount[n] = 1 /\ n[2] = "secondary" THEN [array EXCEPT ![index[n[1]]] = NoPty] ELSE array
  BY DEF DirectRelease, Drops, Lowered, memory
<1>4. Uses(n) \in Nat /\ Uses(n) # 0 /\ nodesCount[n] \in Nat /\ treeState[n] \in Nat
  BY <1>0, <1>1, <1>2, UsesIs DEF NodeInv, PtyTypeOK
<1>4a. nodesCount[n] >= 1
  BY <1>2, <1>4 DEF NodeInv, One
<1>5. PtyTypeOK'
  <2>1. nodesCount[n] - 1 \in Nat
    BY <1>4, <1>4a
  <2>2. nodesCount' \in [PtyNode -> Nat] /\ treeState' \in [PtyNode -> Nat]
    BY <2>1, <1>0, <1>3, <1>4 DEF PtyTypeOK
  <2>3. array' \in [0 .. (ArrayCount - 1) -> Ptys \cup {NoPty}]
    BY <1>0, <1>3 DEF PtyTypeOK
  <2>4. nodesHolds' \in [Openers -> SUBSET PtyNode]
    BY <1>0, <1>3 DEF PtyTypeOK
  <2>. QED BY <2>2, <2>3, <2>4, <1>0, <1>3 DEF PtyTypeOK
<1>6. /\ \A u \in Openers : nodesPc'[u] = IF u = t THEN IF nodesCount[n] = 1 THEN "release" ELSE "idle" ELSE nodesPc[u]
      /\ \A u \in Openers : nodesHolds'[u] = IF u = t THEN nodesHolds[u] \ {n} ELSE nodesHolds[u]
      /\ \A m \in PtyNode : m # n => nodesCount'[m] = nodesCount[m] /\ treeState'[m] = treeState[m]
      /\ nodesCount'[n] = nodesCount[n] - 1
      /\ treeState'[n] = IF treeState[n] > 0 THEN treeState[n] - 1 ELSE 0
  BY <1>0, <1>1, <1>3 DEF PtyTypeOK
<1>7. OnlyAt(t, n)
  BY <1>0, <1>3, <1>6 DEF OnlyAt
<1>8. Calm(t, n)
  BY <1>0, <1>2, <1>3, <1>6 DEF Calm, Making
<1>9. /\ Owners(n)' = Owners(n) \ {t} /\ (Extra(n)' <=> Extra(n)) /\ (Adding(n)' <=> Adding(n))
      /\ \A u \in Openers : ~AtNode(u, n, "direct")'
      /\ \A u \in Openers : u # t => (AtNode(u, n, "release")' <=> AtNode(u, n, "release"))
      /\ AtNode(t, n, "release")' <=> nodesCount[n] = 1
  <2>1. \A u \in Openers : AtNode(u, n, "direct") => u = t
    BY <1>2 DEF NodeInv
  <2>2. \A u \in Openers : ~AtNode(u, n, "direct")'
    BY <2>1, <1>3, <1>6 DEF AtNode
  <2>3. \A u \in Openers, here \in {"undo", "add", "addown"} : AtNode(u, n, here)' <=> AtNode(u, n, here)
    BY <1>0, <1>3, <1>6 DEF AtNode
  <2>4. Owners(n)' = Owners(n) \ {t}
    BY <1>6 DEF Owners
  <2>. QED BY <2>2, <2>3, <2>4, <1>3, <1>6 DEF AtNode, Extra, Adding
<1>10. IsFiniteSet(Owners(n)') /\ Uses(n)' = Uses(n) - 1
  BY <1>2, <1>9, UsesLeave DEF NodeInv
<1>11. \A u \in Openers : ~AtNode(u, n, "release")
  BY <1>2 DEF NodeInv
<1>12. nodesCount'[n] = Uses(n)' + One(n \in inTree' \/ Adding(n)')
  BY <1>2, <1>3, <1>4, <1>6, <1>9, <1>10 DEF NodeInv, One
<1>13. TaskInv(t)'
  BY <1>2, <1>3, <1>6 DEF TaskInv, Making
<1>. HIDE DEF One, Uses, AtNode, Adding, Extra
<1>14. CASE n \in inTree
  <2>1. treeState[n] + 1 <= Uses(n) /\ Uses(n) <= treeState[n] + 1 /\ Owners(n) \ {t} # {}
    BY <1>2, <1>14 DEF NodeInv
  <2>2. nodesCount[n] # 1 /\ Uses(n) # 1
    <3>1. Uses(n) # 1
      BY <1>2, <2>1, UsesIs DEF NodeInv
    <3>. QED BY <3>1, <1>2, <1>4, <1>14 DEF NodeInv, One
  <2>3. treeState'[n] <= Uses(n)' /\ Uses(n)' <= treeState'[n] + 1
    BY <2>1, <2>2, <1>4, <1>6, <1>10
  <2>4. Wanted(n)' /\ (\A u \in Openers : ~AtNode(u, n, "release")')
    BY <2>1, <2>2, <1>9, <1>11 DEF Wanted
  <2>5. NodeInv(n)'
    BY <2>1, <2>3, <2>4, <1>2, <1>3, <1>9, <1>10, <1>12, <1>14 DEF NodeInv
  <2>. QED BY <2>2, <2>4, <2>5, <1>1, <1>2, <1>3, <1>5, <1>7, <1>8, <1>13, QuietKeeps
<1>15. CASE n \notin inTree
  <2>1. Uses(n) = 1 /\ treeState[n] = 0 /\ nodesCount[n] = 1 + One(Adding(n))
    <3>1. Uses(n) = 1 /\ treeState[n] = 0
      BY <1>2, <1>4, <1>15 DEF NodeInv
    <3>2. nodesCount[n] = Uses(n) + One(n \in inTree \/ Adding(n))
      BY <1>2 DEF NodeInv
    <3>. QED BY <3>1, <3>2, <1>15 DEF One
  <2>2. Owners(n) = {t} /\ Owners(n)' = {}
    BY <2>1, <1>2, <1>9, UsesIs DEF NodeInv
  <2>3. treeState'[n] = 0 /\ Uses(n)' <= 1 /\ n \notin inTree'
    BY <2>1, <1>3, <1>6, <1>10, <1>15
  <2>4. nodesCount[n] = 1 <=> ~Adding(n)
    BY <2>1 DEF One
  <2>5. Wanted(n)' <=> Adding(n)
    BY <2>2, <1>9 DEF Wanted
  <2>6. NodeInv(n)'
    BY <2>2, <2>3, <2>4, <2>5, <1>9, <1>10, <1>11, <1>12 DEF NodeInv
  <2>7. CASE Adding(n)
    BY <2>4, <2>5, <2>6, <2>7, <1>1, <1>2, <1>3, <1>5, <1>7, <1>8, <1>13, QuietKeeps
  <2>8. CASE ~Adding(n)
    <3>1. array' = IF n[2] = "secondary" THEN [array EXCEPT ![index[n[1]]] = NoPty] ELSE array
      BY <2>4, <2>8, <1>3
    <3>2. \A u \in Openers : nodesPc[u] = "publish" => nodesPc'[u] = "publish" /\ nodesArg'[u] = nodesArg[u]
      BY <1>0, <1>3, <1>6
    <3>3. Entered' /\ Listed' /\ Indexed'
      BY <3>1, <3>2, <2>5, <2>8, <1>1, <1>2, <1>3, <1>7, ArrayDrops
    <3>. QED BY <3>3, <2>6, <1>1, <1>2, <1>5, <1>7, <1>8, <1>13, StepKeeps
  <2>. QED BY <2>7, <2>8
<1>. QED BY <1>14, <1>15

\* With three uses of a node there is a user who is none of two tasks.
LEMMA UsesMany ==
  ASSUME NEW n, IsFiniteSet(Owners(n)), ~Extra(n), NEW t \in Owners(n)
  PROVE  /\ Uses(n) >= 2 => Owners(n) \ {t} # {}
         /\ Uses(n) >= 3 => \A u : \E v \in Owners(n) \ {t} : v # u
<1>. DEFINE S == Owners(n) \ {t}
<1>1. IsFiniteSet(S) /\ Cardinality(S) = Cardinality(Owners(n)) - 1 /\ Cardinality(Owners(n)) \in Nat /\ Cardinality(S) \in Nat
  BY FS_RemoveElement, FS_CardinalityType
<1>2. Uses(n) = Cardinality(Owners(n))
  BY <1>1 DEF Uses, One
<1>3. Cardinality(S) # 0 => S # {}
  BY FS_EmptySet
<1>4. ASSUME NEW u, Cardinality(S) >= 2 PROVE \E v \in S : v # u
  <2>. SUFFICES ASSUME \A v \in S : v = u PROVE FALSE
    OBVIOUS
  <2>1. S = {} \/ S = {u}
    OBVIOUS
  <2>2. Cardinality({u}) = 1 /\ Cardinality({}) = 0
    BY FS_Singleton, FS_EmptySet
  <2>. QED BY <2>1, <2>2, <1>4
<1>. HIDE DEF S
<1>5. Uses(n) >= 2 => S # {}
  BY <1>1, <1>2, <1>3
<1>6. Uses(n) >= 3 => \A u : \E v \in S : v # u
  BY <1>1, <1>2, <1>4
<1>. QED BY <1>5, <1>6 DEF S

LEMMA TreeReleaseKeeps ==
  ASSUME PtyInv, NoPanic, NEW t \in Openers, TreeRelease(t)
  PROVE  PtyInv'
<1>. PICK n : n = nodesArg[t]
  OBVIOUS
<1>0. PtyTypeOK /\ TaskInv(t) /\ nodesPc[t] = "tree" /\ treeState[n] > 1
  BY DEF PtyInv, TasksInv, TreeRelease, At
<1>1. n \in PtyNode /\ n \in nodesHolds[t]
  BY <1>0 DEF TaskInv, PtyTypeOK
<1>2. n \in nodesNodes /\ NodeInv(n) /\ t \in Owners(n) /\ Wanted(n)
  BY <1>0, <1>1, HeldNode
<1>3. /\ nodesArg' = nodesArg /\ locker' = locker /\ shared' = shared /\ nodesNodes' = nodesNodes
      /\ index' = index /\ nshared' = nshared /\ overtaken' = overtaken /\ inTree' = inTree /\ array' = array
      /\ nodesHolds' = [nodesHolds EXCEPT ![t] = @ \ {n}]
      /\ nodesCount' = [nodesCount EXCEPT ![n] = @ - 1]
      /\ treeState' = [treeState EXCEPT ![n] = IF @ > 0 THEN @ - 1 ELSE 0]
      /\ nodesPc' = [nodesPc EXCEPT ![t] = "idle"]
  BY DEF TreeRelease, At, Lowered, memory
<1>4. n \in inTree /\ Uses(n) \in Nat /\ nodesCount[n] \in Nat /\ treeState[n] \in Nat
  BY <1>0, <1>1, <1>2, UsesIs DEF NodeInv, PtyTypeOK
<1>5. nodesCount[n] = Uses(n) + 1 /\ Uses(n) >= 2 /\ ~Adding(n)
  BY <1>0, <1>2, <1>4 DEF NodeInv, One
<1>6. PtyTypeOK'
  <2>1. nodesCount[n] - 1 \in Nat
    BY <1>4, <1>5
  <2>2. nodesCount' \in [PtyNode -> Nat] /\ treeState' \in [PtyNode -> Nat]
    BY <2>1, <1>0, <1>3, <1>4 DEF PtyTypeOK
  <2>3. nodesHolds' \in [Openers -> SUBSET PtyNode]
    BY <1>0, <1>3 DEF PtyTypeOK
  <2>. QED BY <2>2, <2>3, <1>0, <1>3 DEF PtyTypeOK
<1>7. /\ \A u \in Openers : nodesPc'[u] = IF u = t THEN "idle" ELSE nodesPc[u]
      /\ \A u \in Openers : nodesHolds'[u] = IF u = t THEN nodesHolds[u] \ {n} ELSE nodesHolds[u]
      /\ \A m \in PtyNode : m # n => nodesCount'[m] = nodesCount[m] /\ treeState'[m] = treeState[m]
      /\ nodesCount'[n] = nodesCount[n] - 1 /\ treeState'[n] = treeState[n] - 1
  <2>1. \A u \in Openers : nodesHolds'[u] = IF u = t THEN nodesHolds[u] \ {n} ELSE nodesHolds[u]
    BY <1>0, <1>3 DEF PtyTypeOK
  <2>2. \A m \in PtyNode : treeState'[m] = IF m = n THEN treeState[n] - 1 ELSE treeState[m]
    BY <1>0, <1>1, <1>3 DEF PtyTypeOK
  <2>. QED BY <2>1, <2>2, <1>0, <1>1, <1>3 DEF PtyTypeOK
<1>8. OnlyAt(t, n) /\ Calm(t, n)
  BY <1>0, <1>3, <1>7 DEF OnlyAt, Calm, Making
<1>9. /\ Owners(n)' = Owners(n) \ {t} /\ (Extra(n)' <=> Extra(n)) /\ (Adding(n)' <=> Adding(n))
      /\ \A u \in Openers, here \in {"direct", "release"} : AtNode(u, n, here)' <=> AtNode(u, n, here)
  BY <1>0, <1>3, <1>7 DEF AtNode, Extra, Adding, Owners
<1>10. IsFiniteSet(Owners(n)') /\ Uses(n)' = Uses(n) - 1
  BY <1>2, <1>9, UsesLeave DEF NodeInv
<1>11. nodesCount'[n] = Uses(n)' + One(n \in inTree' \/ Adding(n)')
  BY <1>3, <1>4, <1>5, <1>7, <1>9, <1>10 DEF One
<1>12. treeState'[n] <= Uses(n)' /\ Uses(n)' <= treeState'[n] + 1
  BY <1>0, <1>2, <1>4, <1>7, <1>10 DEF NodeInv
<1>13. Extra(n) => \E u \in Owners(n) \ {t} : AtNode(u, n, "undo")
  <2>1. \A u \in Openers : AtNode(u, n, "undo") => u \in Owners(n) /\ u # t
    BY <1>0, MakerHas DEF AtNode
  <2>. QED BY <2>1 DEF Extra
<1>14. Owners(n)' # {}
  BY <1>2, <1>5, <1>9, <1>13, UsesMany DEF NodeInv
<1>15. ASSUME NEW u \in Openers, AtNode(u, n, "direct")
       PROVE  treeState'[n] + 1 <= Uses(n)' /\ \E v \in Owners(n)' : v # u
  <2>1. treeState[n] + 1 <= Uses(n)
    BY <1>2, <1>4, <1>15 DEF NodeInv
  <2>2. Uses(n) >= 3
    BY <2>1, <1>0, <1>4
  <2>3. Extra(n) => \E v \in Owners(n) \ {t} : v # u
    BY <1>13, <1>15 DEF AtNode
  <2>4. \E v \in Owners(n) \ {t} : v # u
    BY <2>2, <2>3, <1>2, UsesMany DEF NodeInv
  <2>. QED BY <2>1, <2>4, <1>4, <1>7, <1>9, <1>10
<1>16. Wanted(n)' <=> Wanted(n)
  BY <1>2, <1>14 DEF Wanted
<1>. HIDE DEF One, Uses, AtNode, Adding, Extra, Owners, Wanted
<1>17. NodeInv(n)'
  BY <1>2, <1>3, <1>4, <1>5, <1>9, <1>10, <1>11, <1>12, <1>14, <1>15, <1>16 DEF NodeInv
<1>18. TaskInv(t)'
  BY <1>7 DEF TaskInv, Making
<1>. QED BY <1>1, <1>2, <1>3, <1>6, <1>8, <1>16, <1>17, <1>18, QuietKeeps

LEMMA TreeRemoveKeeps ==
  ASSUME PtyInv, NoPanic, NEW t \in Openers, TreeRemove(t)
  PROVE  PtyInv'
<1>. PICK n : n = nodesArg[t]
  OBVIOUS
<1>0. PtyTypeOK /\ TaskInv(t) /\ nodesPc[t] = "tree" /\ treeState[n] <= 1 /\ n \in inTree /\ locker = NoTask
  BY DEF PtyInv, TasksInv, TreeRemove
<1>1. n \in PtyNode /\ n \in nodesHolds[t]
  BY <1>0 DEF TaskInv, PtyTypeOK
<1>2. n \in nodesNodes /\ NodeInv(n) /\ t \in Owners(n) /\ Wanted(n) /\ index[n[1]] # ArrayCount
  BY <1>0, <1>1, HeldNode DEF NodeInv
<1>3. /\ nodesArg' = nodesArg /\ shared' = shared /\ nodesNodes' = nodesNodes
      /\ index' = index /\ nshared' = nshared /\ inTree' = inTree \ {n}
      /\ overtaken' = overtaken \cup {u \in Openers \ {t} : nodesPc[u] = "tree" /\ nodesArg[u] = n}
      /\ locker' = IF nodesCount[n] = 2 THEN t ELSE NoTask
      /\ nodesHolds' = [nodesHolds EXCEPT ![t] = @ \ {n}]
      /\ nodesCount' = [nodesCount EXCEPT ![n] = @ - 2]
      /\ treeState' = [treeState EXCEPT ![n] = IF @ > 0 THEN @ - 1 ELSE 0]
      /\ nodesPc' = [nodesPc EXCEPT ![t] = IF nodesCount[n] = 2 THEN "release" ELSE "idle"]
      /\ array' = IF nodesCount[n] = 2 /\ n[2] = "secondary" THEN [array EXCEPT ![index[n[1]]] = NoPty] ELSE array
  BY DEF TreeRemove, Drops, Lowered, memory
<1>4. Uses(n) \in Nat /\ Uses(n) # 0 /\ Uses(n) <= 2 /\ nodesCount[n] = Uses(n) + 1 /\ ~Adding(n) /\ treeState[n] \in Nat
  <2>1. Uses(n) \in Nat /\ Uses(n) # 0 /\ treeState[n] \in Nat
    BY <1>0, <1>1, <1>2, UsesIs DEF NodeInv, PtyTypeOK
  <2>. QED BY <2>1, <1>0, <1>2 DEF NodeInv, One
<1>5. PtyTypeOK'
  <2>1. nodesCount[n] - 2 \in Nat
    BY <1>4
  <2>2. nodesCount' \in [PtyNode -> Nat] /\ treeState' \in [PtyNode -> Nat]
    BY <2>1, <1>0, <1>3, <1>4 DEF PtyTypeOK
  <2>3. array' \in [0 .. (ArrayCount - 1) -> Ptys \cup {NoPty}]
    BY <1>0, <1>3 DEF PtyTypeOK
  <2>4. nodesHolds' \in [Openers -> SUBSET PtyNode] /\ locker' \in Openers \cup {NoTask} /\ inTree' \subseteq PtyNode
    BY <1>0, <1>3 DEF PtyTypeOK
  <2>. QED BY <2>2, <2>3, <2>4, <1>0, <1>3 DEF PtyTypeOK
<1>6. /\ \A u \in Openers : nodesPc'[u] = IF u = t THEN IF nodesCount[n] = 2 THEN "release" ELSE "idle" ELSE nodesPc[u]
      /\ \A u \in Openers : nodesHolds'[u] = IF u = t THEN nodesHolds[u] \ {n} ELSE nodesHolds[u]
      /\ \A m \in PtyNode : m # n => nodesCount'[m] = nodesCount[m] /\ treeState'[m] = treeState[m]
      /\ nodesCount'[n] = nodesCount[n] - 2 /\ treeState'[n] = 0
  <2>1. \A u \in Openers : nodesHolds'[u] = IF u = t THEN nodesHolds[u] \ {n} ELSE nodesHolds[u]
    BY <1>0, <1>3 DEF PtyTypeOK
  <2>2. treeState[n] = 0 \/ treeState[n] = 1
    BY <1>0, <1>4
  <2>3. \A m \in PtyNode : treeState'[m] = IF m = n THEN 0 ELSE treeState[m]
    BY <2>2, <1>0, <1>1, <1>3 DEF PtyTypeOK
  <2>. QED BY <2>1, <2>3, <1>0, <1>1, <1>3 DEF PtyTypeOK
<1>7. OnlyAt(t, n)
  BY <1>0, <1>3, <1>6 DEF OnlyAt
<1>8. Calm(t, n)
  BY <1>0, <1>2, <1>3, <1>6 DEF Calm, Making, AtNode
<1>9. /\ Owners(n)' = Owners(n) \ {t} /\ (Extra(n)' <=> Extra(n)) /\ ~Adding(n)'
      /\ \A u \in Openers : AtNode(u, n, "direct")' <=> AtNode(u, n, "direct")
      /\ \A u \in Openers : u # t => (AtNode(u, n, "release")' <=> AtNode(u, n, "release"))
      /\ AtNode(t, n, "release")' <=> nodesCount[n] = 2
  <2>1. \A u \in Openers, here \in {"undo", "add", "addown", "direct"} : AtNode(u, n, here)' <=> AtNode(u, n, here)
    BY <1>0, <1>3, <1>6 DEF AtNode
  <2>2. Owners(n)' = Owners(n) \ {t}
    BY <1>6 DEF Owners
  <2>. QED BY <2>1, <2>2, <1>3, <1>4, <1>6 DEF AtNode, Extra, Adding
<1>10. IsFiniteSet(Owners(n)') /\ Uses(n)' = Uses(n) - 1
  BY <1>2, <1>9, UsesLeave DEF NodeInv
<1>11. ~Extra(n)
  <2>1. \A u \in Openers : AtNode(u, n, "undo") => u \in Owners(n) /\ u # t
    BY <1>0, MakerHas DEF AtNode
  <2>. QED BY <2>1, <1>2, <1>4, UsesIs DEF Extra, NodeInv
<1>12. nodesCount[n] = 2 <=> Owners(n)' = {}
  <2>1. Uses(n) <= 1 => Owners(n) = {t}
    BY <1>2, UsesIs DEF NodeInv
  <2>2. Uses(n) >= 2 => Owners(n) \ {t} # {}
    BY <1>2, <1>11, UsesMany DEF NodeInv
  <2>. QED BY <2>1, <2>2, <1>4, <1>9
<1>13. Wanted(n)' <=> nodesCount[n] # 2
  BY <1>9, <1>12 DEF Wanted
<1>14. \A u \in Openers : ~AtNode(u, n, "release")
  BY <1>2 DEF NodeInv
<1>15. nodesCount'[n] = Uses(n)' + One(n \in inTree' \/ Adding(n)')
  BY <1>3, <1>4, <1>6, <1>9, <1>10 DEF One
<1>16. TaskInv(t)'
  BY <1>2, <1>3, <1>6 DEF TaskInv, Making
<1>. HIDE DEF One, Uses, AtNode, Adding, Extra, Owners, Wanted
<1>17. NodeInv(n)'
  <2>1. n \notin inTree' /\ Uses(n)' <= 1
    BY <1>3, <1>4, <1>10
  <2>2. \A u, v \in Openers : AtNode(u, n, "direct")' /\ AtNode(v, n, "direct")' => u = v
    BY <1>2, <1>9 DEF NodeInv
  <2>3. ~Wanted(n)' => \E u \in Openers : AtNode(u, n, "release")'
    BY <1>9, <1>13
  <2>4. \A u \in Openers : AtNode(u, n, "release")' => ~Wanted(n)'
    BY <1>9, <1>13, <1>14
  <2>. QED BY <2>1, <2>2, <2>3, <2>4, <1>6, <1>10, <1>15 DEF NodeInv
<1>18. CASE nodesCount[n] # 2
  BY <1>18, <1>13, <1>17, <1>1, <1>2, <1>3, <1>5, <1>7, <1>8, <1>16, QuietKeeps
<1>19. CASE nodesCount[n] = 2
  <2>1. array' = IF n[2] = "secondary" THEN [array EXCEPT ![index[n[1]]] = NoPty] ELSE array
    BY <1>3, <1>19
  <2>2. \A u \in Openers : nodesPc[u] = "publish" => nodesPc'[u] = "publish" /\ nodesArg'[u] = nodesArg[u]
    BY <1>0, <1>3, <1>6
  <2>3. Entered' /\ Listed' /\ Indexed'
    BY <2>1, <2>2, <1>1, <1>2, <1>3, <1>7, <1>13, <1>19, ArrayDrops
  <2>. QED BY <2>3, <1>1, <1>2, <1>5, <1>7, <1>8, <1>16, <1>17, StepKeeps
<1>. QED BY <1>18, <1>19

LEMMA TreePanicKeeps ==
  ASSUME PtyInv, NoPanic, NEW t \in Openers, TreePanic(t)
  PROVE  PtyInv'
<1>. PICK n : n = nodesArg[t]
  OBVIOUS
<1>0. PtyTypeOK /\ TaskInv(t) /\ nodesPc[t] = "tree" /\ n \notin inTree
  BY DEF PtyInv, TasksInv, TreePanic
<1>1. n \in PtyNode /\ n \in nodesHolds[t] /\ t \in overtaken
  BY <1>0 DEF TaskInv, PtyTypeOK
<1>2. n \in nodesNodes /\ NodeInv(n) /\ t \in Owners(n) /\ Wanted(n)
  BY <1>0, <1>1, HeldNode
<1>3. /\ nodesArg' = nodesArg /\ locker' = locker /\ shared' = shared /\ nodesNodes' = nodesNodes
      /\ index' = index /\ nshared' = nshared /\ overtaken' = overtaken /\ inTree' = inTree /\ array' = array
      /\ nodesHolds' = nodesHolds /\ nodesCount' = nodesCount /\ treeState' = treeState
      /\ nodesPc' = [nodesPc EXCEPT ![t] = "panic"]
  BY DEF TreePanic, Panics, memory, inVfs
<1>4. PtyTypeOK'
  BY <1>0, <1>3 DEF PtyTypeOK
<1>5. \A u \in Openers : nodesPc'[u] = IF u = t THEN "panic" ELSE nodesPc[u]
  BY <1>0, <1>3 DEF PtyTypeOK
<1>6. OnlyAt(t, n) /\ Calm(t, n)
  BY <1>0, <1>3, <1>5 DEF OnlyAt, Calm, Making
<1>7. SameNode(n)
  BY <1>0, <1>3, <1>5 DEF SameNode, Owners, Extra, Adding, AtNode
<1>8. NodeInv(n)'
  BY <1>0, <1>2, <1>7, SameKeeps, Zenon
<1>9. TaskInv(t)'
  <2>1. Owners(n) = {t} /\ Owners(n)' = Owners(n)
    BY <1>0, <1>2, <1>7, UsesIs DEF NodeInv, SameNode
  <2>. QED BY <2>1, <1>1, <1>3, <1>5 DEF TaskInv, Making
<1>10. Wanted(n)' <=> Wanted(n)
  BY <1>7 DEF SameNode, Wanted
<1>. QED BY <1>1, <1>2, <1>3, <1>4, <1>6, <1>8, <1>9, <1>10, QuietKeeps

-----------------------------------------------------------------------------
\* Steps that count for no node.
LEMMA NodesStay ==
  ASSUME NodesInv, nodesNodes' \subseteq nodesNodes, \A m \in nodesNodes' : SameNode(m),
         \A m \in inTree : index'[m[1]] # ArrayCount
  PROVE  NodesInv'
<1>. SUFFICES ASSUME NEW m \in nodesNodes' PROVE NodeInv(m)'
  BY DEF NodesInv
<1>1. NodeInv(m) /\ SameNode(m)
  BY DEF NodesInv
<1>. QED BY <1>1, SameKeeps, Zenon

LEMMA PublishKeeps ==
  ASSUME PtyInv, NoPanic, NEW t \in Openers, Publish(t)
  PROVE  PtyInv'
<1>. PICK n : n = nodesArg[t]
  OBVIOUS
<1>. PICK p : p = n[1]
  OBVIOUS
<1>. PICK k : k = Min(FreeSlots)
  OBVIOUS
<1>0. /\ PtyTypeOK /\ TaskInv(t) /\ nodesPc[t] = "publish" /\ NodesInv /\ TasksInv /\ Alone /\ Apart
      /\ FreedOnce /\ Shares /\ SharedIs /\ HeldAllocated /\ InTreeIs /\ Entered /\ Listed /\ Indexed
  BY DEF PtyInv, TasksInv, Publish, At
<1>1. n \in PtyNode /\ p \in Ptys /\ n = Secondary(p) /\ index[p] = ArrayCount /\ n \in nodesHolds[t] /\ Main(p) \in nodesHolds[t]
  BY <1>0, NodeIs DEF TaskInv, Making, PtyTypeOK
<1>2. n \in nodesNodes /\ Wanted(n)
  BY <1>1, HeldNode
<1>3. k \in DOMAIN array /\ array[k] = NoPty /\ k # ArrayCount /\ k \in 0 .. ArrayCount /\ NoPty \notin Ptys
      /\ ArrayCount \notin DOMAIN array
  <2>1. DOMAIN array = 0 .. (ArrayCount - 1) /\ ArrayCount \in Nat
    BY <1>0, PtyAssumption DEF PtyTypeOK
  <2>2. FreeSlots \subseteq Nat /\ FreeSlots # {}
    BY <2>1 DEF FreeSlots, Publish
  <2>3. k \in FreeSlots
    BY <2>2, MinIs
  <2>. QED BY <2>1, <2>3, PtyAssumption DEF FreeSlots, NoPty
<1>4. /\ nodesPc' = [nodesPc EXCEPT ![t] = "open"] /\ array' = [array EXCEPT ![k] = p] /\ index' = [index EXCEPT ![p] = k]
      /\ shared' = shared /\ nodesNodes' = nodesNodes /\ nshared' = nshared /\ nodesCount' = nodesCount
      /\ nodesHolds' = nodesHolds /\ nodesArg' = nodesArg /\ inTree' = inTree /\ treeState' = treeState
      /\ locker' = locker /\ overtaken' = overtaken
  BY DEF Publish, At, memory, inVfs
<1>5. PtyTypeOK'
  BY <1>0, <1>1, <1>3, <1>4 DEF PtyTypeOK
<1>6. /\ \A u \in Openers : nodesPc'[u] = IF u = t THEN "open" ELSE nodesPc[u]
      /\ \A q \in Ptys : index'[q] = IF q = p THEN k ELSE index[q]
      /\ \A i \in DOMAIN array : array'[i] = IF i = k THEN p ELSE array[i]
      /\ DOMAIN array' = DOMAIN array
  BY <1>0, <1>1, <1>4 DEF PtyTypeOK
<1>7. \A m : SameNode(m)
  BY <1>0, <1>4, <1>6 DEF SameNode, Owners, Extra, Adding, AtNode
<1>8. \A m : Wanted(m)' <=> Wanted(m)
  BY <1>7 DEF SameNode, Wanted
<1>9. NodesInv'
  <2>1. \A m \in inTree : m[1] \in Ptys /\ index[m[1]] # ArrayCount
    BY <1>0, NodeIs DEF NodesInv, NodeInv, InTreeIs, PtyTypeOK
  <2>. QED BY <2>1, <1>0, <1>3, <1>4, <1>6, <1>7, NodesStay
<1>10. TaskInv(t)'
  <2>1. nodesPc'[t] = "open" /\ nodesArg'[t] = n /\ n[1] = p /\ index'[p] # ArrayCount /\ nodesHolds' = nodesHolds
    BY <1>0, <1>1, <1>3, <1>4, <1>6
  <2>. QED BY <2>1, <1>1 DEF TaskInv, Making
<1>11. ASSUME NEW u \in Openers, u # t PROVE TaskInv(u)'
  <2>1. TaskInv(u) /\ nodesArg[u] \in PtyNode /\ nodesArg[u][1] \in Ptys
    BY <1>0, NodeIs DEF TasksInv, PtyTypeOK
  <2>2. nodesPc[u] \in Making => nodesArg[u][1] # p
    BY <2>1, <1>0, <1>1, <1>11 DEF TaskInv, Alone, Making
  <2>3. Owners(nodesArg[u])' = Owners(nodesArg[u])
    BY <1>4 DEF Owners
  <2>. QED BY <2>1, <2>2, <2>3, <1>3, <1>4, <1>6, <1>11 DEF TaskInv
<1>12. SharedIs' /\ FreedOnce' /\ Shares'
  BY <1>0, <1>4, <1>6, SharesStay
<1>13. Entered'
  BY <1>0, <1>1, <1>2, <1>3, <1>4, <1>6, <1>8 DEF Entered
<1>14. Listed'
  BY <1>0, <1>1, <1>2, <1>3, <1>4, <1>6, <1>8 DEF Listed
<1>15. Indexed'
  <2>1. \A q \in Ptys : q # p => Secondary(q) # n
    BY <1>1, NodeIs
  <2>. QED BY <2>1, <1>0, <1>3, <1>4, <1>6 DEF Indexed, AtNode
<1>16. Alone' /\ Apart'
  BY <1>0, <1>4, <1>6 DEF Alone, Apart, Making
<1>. QED BY <1>0, <1>4, <1>5, <1>9, <1>10, <1>11, <1>12, <1>13, <1>14, <1>15, <1>16
        DEF PtyInv, TasksInv, HeldAllocated, InTreeIs

LEMMA CreateKeeps ==
  ASSUME PtyInv, NoPanic, NEW t \in Openers, NEW p \in Ptys, Create(t, p)
  PROVE  PtyInv'
<1>. PICK n : n = Secondary(p)
  OBVIOUS
<1>. PICK m : m = Main(p)
  OBVIOUS
<1>0. /\ PtyTypeOK /\ nodesPc[t] = "idle" /\ NodesInv /\ TasksInv /\ Alone /\ Apart
      /\ FreedOnce /\ Shares /\ SharedIs /\ HeldAllocated /\ InTreeIs /\ Entered /\ Listed /\ Indexed
  BY DEF PtyInv, Create, At
<1>1. /\ m \in PtyNode /\ n \in PtyNode /\ m # n /\ n[1] = p /\ m[1] = p /\ n[2] = "secondary"
      /\ \A x \in PtyNode : x[1] \in Ptys /\ (x[1] = p => x = m \/ x = n)
  BY NodeIs
<1>2. /\ p \notin shared
      /\ nodesPc' = [nodesPc EXCEPT ![t] = "publish"] /\ nodesArg' = [nodesArg EXCEPT ![t] = n]
      /\ shared' = shared \cup {p} /\ nodesNodes' = nodesNodes \cup {m, n}
      /\ nshared' = [nshared EXCEPT ![p] = 2] /\ index' = [index EXCEPT ![p] = ArrayCount]
      /\ nodesCount' = [nodesCount EXCEPT ![m] = 1, ![n] = 1]
      /\ nodesHolds' = [nodesHolds EXCEPT ![t] = @ \cup {m, n}]
      /\ treeState' = [treeState EXCEPT ![m] = 0, ![n] = 0]
      /\ array' = array /\ inTree' = inTree /\ locker' = locker /\ overtaken' = overtaken
  BY DEF Create, At
<1>3. ArrayCount \in 0 .. ArrayCount
  BY PtyAssumption
<1>4. PtyTypeOK'
  <2>1. nodesCount' \in [PtyNode -> Nat] /\ treeState' \in [PtyNode -> Nat]
    BY <1>0, <1>1, <1>2 DEF PtyTypeOK
  <2>2. index' \in [Ptys -> 0 .. ArrayCount] /\ nshared' \in [Ptys -> 0 .. 2]
    BY <1>0, <1>2, <1>3 DEF PtyTypeOK
  <2>3. nodesHolds' \in [Openers -> SUBSET PtyNode] /\ nodesArg' \in [Openers -> PtyNode]
    BY <1>0, <1>1, <1>2 DEF PtyTypeOK
  <2>. QED BY <2>1, <2>2, <2>3, <1>0, <1>1, <1>2 DEF PtyTypeOK
<1>5. /\ \A u \in Openers : nodesPc'[u] = IF u = t THEN "publish" ELSE nodesPc[u]
      /\ \A u \in Openers : nodesArg'[u] = IF u = t THEN n ELSE nodesArg[u]
      /\ \A u \in Openers : nodesHolds'[u] = IF u = t THEN nodesHolds[u] \cup {m, n} ELSE nodesHolds[u]
      /\ \A q \in Ptys : index'[q] = IF q = p THEN ArrayCount ELSE index[q]
      /\ \A q \in Ptys : nshared'[q] = IF q = p THEN 2 ELSE nshared[q]
      /\ \A x \in PtyNode : nodesCount'[x] = IF x \in {m, n} THEN 1 ELSE nodesCount[x]
      /\ \A x \in PtyNode : treeState'[x] = IF x \in {m, n} THEN 0 ELSE treeState[x]
  BY <1>0, <1>1, <1>2 DEF PtyTypeOK
<1>6. \A x \in nodesNodes : x \in PtyNode /\ x[1] \in shared /\ x[1] # p /\ x # m /\ x # n
  BY <1>0, <1>1, <1>2 DEF SharedIs, PtyTypeOK
<1>7. \A u \in Openers : nodesPc[u] # "idle" => nodesArg[u] \in PtyNode /\ nodesArg[u][1] \in shared /\ nodesArg[u][1] # p
  BY <1>2, BusyShared
<1>8. ASSUME NEW x \in PtyNode, x[1] # p PROVE SameNode(x)
  <2>1. x # m /\ x # n
    BY <1>1, <1>8
  <2>2. Owners(x)' = Owners(x)
    <3>1. \A u \in Openers : x \in nodesHolds'[u] <=> x \in nodesHolds[u]
      BY <2>1, <1>5
    <3>. QED BY <3>1 DEF Owners
  <2>3. \A u \in Openers, here \in {"undo", "add", "addown", "direct", "release"} : AtNode(u, x, here)' <=> AtNode(u, x, here)
    BY <2>1, <1>0, <1>5 DEF AtNode
  <2>. QED BY <2>1, <2>2, <2>3, <1>2, <1>5 DEF SameNode, Extra, Adding
<1>9. ASSUME NEW x \in {m, n} PROVE NodeInv(x)'
  <2>1. Owners(x)' = {t}
    <3>1. \A u \in Openers : x \notin nodesHolds[u]
      BY <1>0, <1>1, <1>6 DEF HeldAllocated
    <3>2. \A u \in Openers : x \in nodesHolds'[u] <=> u = t
      BY <3>1, <1>5
    <3>. QED BY <3>2 DEF Owners
  <2>2. \A u \in Openers, here \in {"undo", "add", "addown", "direct", "release"} : ~AtNode(u, x, here)'
    BY <1>1, <1>5, <1>7 DEF AtNode
  <2>3. ~Extra(x)' /\ ~Adding(x)' /\ Wanted(x)'
    BY <2>1, <2>2 DEF Extra, Adding, Wanted
  <2>4. Cardinality(Owners(x)') = 1 /\ IsFiniteSet(Owners(x)')
    BY <2>1, FS_Singleton
  <2>5. Uses(x)' = 1
    BY <2>3, <2>4 DEF Uses, One
  <2>6. x \notin inTree'
    BY <1>0, <1>2, <1>6 DEF InTreeIs
  <2>7. nodesCount'[x] = Uses(x)' + One(x \in inTree' \/ Adding(x)')
    BY <2>3, <2>5, <2>6, <1>1, <1>5 DEF One
  <2>. HIDE DEF Uses, One
  <2>. QED BY <2>2, <2>3, <2>4, <2>5, <2>6, <2>7, <1>1, <1>5 DEF NodeInv
<1>10. ASSUME NEW x \in nodesNodes PROVE NodeInv(x)'
  <2>1. SameNode(x) /\ NodeInv(x) /\ index'[x[1]] = index[x[1]]
    BY <1>0, <1>1, <1>5, <1>6, <1>8 DEF NodesInv
  <2>2. x \in inTree => index'[x[1]] # ArrayCount
    BY <2>1 DEF NodeInv
  <2>. QED BY <2>1, <2>2, SameKeeps, Zenon
<1>11. NodesInv'
  BY <1>2, <1>9, <1>10 DEF NodesInv
<1>12. TaskInv(t)'
  <2>1. nodesPc'[t] = "publish" /\ nodesArg'[t] = n /\ n[1] = p /\ index'[p] = ArrayCount
        /\ n \in nodesHolds'[t] /\ m \in nodesHolds'[t]
    BY <1>1, <1>5
  <2>. QED BY <2>1 DEF TaskInv, Making
<1>13. ASSUME NEW u \in Openers, u # t PROVE TaskInv(u)'
  <2>1. TaskInv(u) /\ nodesPc'[u] = nodesPc[u] /\ nodesArg'[u] = nodesArg[u] /\ nodesHolds'[u] = nodesHolds[u] /\ nodesPc[u] # "panic"
    BY <1>0, <1>5, <1>13 DEF TasksInv, NoPanic
  <2>2. nodesPc[u] # "idle" =>
          /\ index'[nodesArg[u][1]] = index[nodesArg[u][1]] /\ nshared'[nodesArg[u][1]] = nshared[nodesArg[u][1]]
          /\ nodesArg[u] # m /\ nodesArg[u] # n
    BY <1>1, <1>5, <1>7
  <2>3. CASE nodesPc[u] = "idle"
    BY <2>1, <2>3 DEF TaskInv, Making
  <2>4. CASE nodesPc[u] # "idle"
    BY <2>1, <2>2, <2>4, <1>2 DEF TaskInv
  <2>. QED BY <2>3, <2>4
<1>14. HeldAllocated' /\ InTreeIs' /\ SharedIs'
  BY <1>0, <1>1, <1>2, <1>5 DEF HeldAllocated, InTreeIs, SharedIs
<1>15. Alone' /\ Apart' /\ FreedOnce'
  BY <1>0, <1>1, <1>5, <1>7 DEF Alone, Apart, FreedOnce, Making
<1>16. \A x \in PtyNode : x[1] # p => (Alive(x)' <=> Alive(x))
  BY <1>0, <1>1, <1>2, <1>5 DEF Alive, AtNode
<1>17. Shares'
  <2>1. Alive(m)' /\ Alive(n)'
    BY <1>2 DEF Alive
  <2>2. \A q \in Ptys : q # p => (Alive(Main(q))' <=> Alive(Main(q))) /\ (Alive(Secondary(q))' <=> Alive(Secondary(q)))
    BY <1>16, NodeIs
  <2>3. \A u \in Openers : nodesPc[u] = "free" => nodesPc'[u] = "free" /\ nodesArg'[u] = nodesArg[u]
    BY <1>0, <1>5
  <2>4. shared \subseteq Ptys
    BY <1>0 DEF PtyTypeOK
  <2>. QED BY <2>1, <2>2, <2>3, <2>4, <1>0, <1>2, <1>5 DEF Shares, One
<1>18. \A q \in Ptys : q # p => (Wanted(Secondary(q))' <=> Wanted(Secondary(q))) /\ Secondary(q) # m /\ Secondary(q) # n
  BY <1>1, <1>8, NodeIs DEF SameNode, Wanted
<1>. HIDE DEF Wanted
<1>19. Entered'
  BY <1>0, <1>2, <1>5, <1>6, <1>18 DEF Entered
<1>20. Listed'
  BY <1>0, <1>2, <1>5, <1>18 DEF Listed
<1>21. Indexed'
  BY <1>0, <1>2, <1>5, <1>18 DEF Indexed, AtNode
<1>. QED BY <1>4, <1>11, <1>12, <1>13, <1>14, <1>15, <1>17, <1>19, <1>20, <1>21 DEF PtyInv, TasksInv

LEMMA CreateFailsKeeps ==
  ASSUME PtyInv, NoPanic, NEW t \in Openers, CreateFails(t)
  PROVE  PtyInv'
<1>. PICK n : n = nodesArg[t]
  OBVIOUS
<1>. PICK p : p = n[1]
  OBVIOUS
<1>. PICK m : m = Main(p)
  OBVIOUS
<1>0. /\ PtyTypeOK /\ nodesPc[t] = "publish" /\ NodesInv /\ TasksInv /\ Alone /\ Apart
      /\ FreedOnce /\ Shares /\ SharedIs /\ HeldAllocated /\ InTreeIs /\ Entered /\ Listed /\ Indexed
  BY DEF PtyInv, CreateFails, At
<1>1. n \in PtyNode /\ p \in Ptys /\ n = Secondary(p) /\ index[p] = ArrayCount /\ n \in nodesHolds[t] /\ m \in nodesHolds[t]
  BY <1>0, NodeIs DEF TasksInv, TaskInv, Making, PtyTypeOK
<1>2. /\ m \in PtyNode /\ m # n /\ n[1] = p /\ m[1] = p /\ n[2] = "secondary" /\ m[2] = "main"
      /\ \A x \in PtyNode : x[1] \in Ptys /\ (x[1] = p => x = m \/ x = n)
  BY <1>1, NodeIs
<1>3. /\ nodesPc' = [nodesPc EXCEPT ![t] = "idle"] /\ nodesArg' = nodesArg
      /\ shared' = shared \ {p} /\ nodesNodes' = nodesNodes \ {m, n}
      /\ nshared' = nshared /\ index' = index /\ nodesCount' = nodesCount
      /\ nodesHolds' = [nodesHolds EXCEPT ![t] = @ \ {m, n}]
      /\ treeState' = treeState /\ array' = array /\ inTree' = inTree /\ locker' = locker /\ overtaken' = overtaken
  BY <1>1 DEF CreateFails, At, inVfs
<1>4. PtyTypeOK'
  <2>1. nodesHolds' \in [Openers -> SUBSET PtyNode]
    BY <1>0, <1>3 DEF PtyTypeOK
  <2>. QED BY <2>1, <1>0, <1>3 DEF PtyTypeOK
<1>5. /\ \A u \in Openers : nodesPc'[u] = IF u = t THEN "idle" ELSE nodesPc[u]
      /\ \A u \in Openers : nodesHolds'[u] = IF u = t THEN nodesHolds[u] \ {m, n} ELSE nodesHolds[u]
  BY <1>0, <1>3 DEF PtyTypeOK
<1>6. ASSUME NEW x \in {m, n} PROVE x \in nodesNodes /\ x \notin inTree /\ Owners(x) = {t} /\ Wanted(x)
  <2>1. x \in PtyNode /\ x \in nodesHolds[t] /\ x[1] = p
    BY <1>1, <1>2
  <2>2. x \in nodesNodes /\ NodeInv(x) /\ t \in Owners(x) /\ Wanted(x)
    BY <2>1, HeldNode
  <2>3. x \notin inTree
    BY <2>1, <2>2, <1>1 DEF NodeInv
  <2>4. Owners(x) = {t}
    BY <2>2, <2>3, UsesIs DEF NodeInv
  <2>. QED BY <2>2, <2>3, <2>4
\* Nobody else is busy with this pty.
<1>7. ASSUME NEW u \in Openers, u # t, nodesPc[u] # "idle" PROVE nodesArg[u] \in PtyNode /\ nodesArg[u][1] # p
  <2>. SUFFICES ASSUME nodesArg[u][1] = p PROVE FALSE
    BY <1>0 DEF PtyTypeOK
  <2>1. TaskInv(u) /\ nodesArg[u] \in {m, n}
    BY <1>0, <1>2 DEF TasksInv, PtyTypeOK
  <2>2. nodesArg[u] \in nodesNodes /\ nodesArg[u] \notin nodesHolds[u]
    BY <2>1, <1>6, <1>7 DEF Owners
  <2>3. nodesPc[u] # "release"
    BY <2>1, <1>0, <1>6 DEF NodesInv, NodeInv, AtNode
  <2>4. nodesPc[u] # "free"
    <3>1. nshared[p] = One(Alive(Main(p))) + One(Alive(Secondary(p))) /\ Alive(Main(p)) /\ Alive(Secondary(p))
      BY <1>0, <1>1, <1>2, <1>6 DEF Shares, Alive, SharedIs
    <3>2. nshared[p] = 2
      BY <3>1 DEF One
    <3>. QED BY <3>2, <2>1 DEF TaskInv
  <2>5. nodesPc[u] \in {"publish", "open", "addown", "undo", "add", "tree", "direct", "release", "unshare", "free"}
    BY <1>0, <1>7 DEF PtyTypeOK, NoPanic
  <2>. QED BY <2>1, <2>2, <2>3, <2>4, <2>5, <1>1 DEF TaskInv, Making
<1>8. ASSUME NEW x \in PtyNode, x[1] # p PROVE SameNode(x)
  <2>1. x # m /\ x # n
    BY <1>2, <1>8
  <2>2. Owners(x)' = Owners(x)
    <3>1. \A u \in Openers : x \in nodesHolds'[u] <=> x \in nodesHolds[u]
      BY <2>1, <1>5
    <3>. QED BY <3>1 DEF Owners
  <2>3. \A u \in Openers, here \in {"undo", "add", "addown", "direct", "release"} : AtNode(u, x, here)' <=> AtNode(u, x, here)
    BY <2>1, <1>0, <1>3, <1>5 DEF AtNode
  <2>. QED BY <2>1, <2>2, <2>3, <1>3 DEF SameNode, Extra, Adding
<1>9. \A x \in nodesNodes' : x \in PtyNode /\ x[1] # p /\ x[1] \in shared'
  BY <1>0, <1>2, <1>3 DEF SharedIs, PtyTypeOK
<1>10. NodesInv'
  <2>1. \A x \in inTree : index'[x[1]] # ArrayCount
    BY <1>0, <1>3 DEF NodesInv, NodeInv, InTreeIs
  <2>. QED BY <2>1, <1>0, <1>3, <1>8, <1>9, NodesStay
<1>11. TaskInv(t)'
  BY <1>5 DEF TaskInv, Making
<1>12. ASSUME NEW u \in Openers, u # t PROVE TaskInv(u)'
  <2>1. TaskInv(u) /\ nodesPc'[u] = nodesPc[u] /\ nodesArg'[u] = nodesArg[u] /\ nodesHolds'[u] = nodesHolds[u] /\ nodesPc[u] # "panic"
    BY <1>0, <1>3, <1>5, <1>12 DEF TasksInv, NoPanic
  <2>2. CASE nodesPc[u] = "idle"
    BY <2>1, <2>2 DEF TaskInv, Making
  <2>3. CASE nodesPc[u] # "idle"
    <3>1. nodesArg[u] # m /\ nodesArg[u] # n /\ nodesArg[u][1] # p
      BY <2>3, <1>2, <1>7, <1>12
    <3>. QED BY <3>1, <2>1, <1>3 DEF TaskInv
  <2>. QED BY <2>2, <2>3
<1>13. HeldAllocated'
  <2>1. \A u \in Openers : u # t => m \notin nodesHolds[u] /\ n \notin nodesHolds[u]
    BY <1>6 DEF Owners
  <2>. QED BY <2>1, <1>0, <1>3, <1>5 DEF HeldAllocated
<1>14. InTreeIs' /\ SharedIs'
  BY <1>0, <1>3, <1>6, <1>9 DEF InTreeIs, SharedIs
<1>15. Alone' /\ Apart' /\ FreedOnce'
  BY <1>0, <1>3, <1>5 DEF Alone, Apart, FreedOnce, Making
<1>16. \A q \in Ptys : q # p => /\ Alive(Main(q))' <=> Alive(Main(q))
                                /\ Alive(Secondary(q))' <=> Alive(Secondary(q))
                                /\ Wanted(Secondary(q))' <=> Wanted(Secondary(q))
                                /\ Secondary(q) # m /\ Secondary(q) # n
  <2>1. \A x \in PtyNode : x[1] # p => (Alive(x)' <=> Alive(x)) /\ (Wanted(x)' <=> Wanted(x)) /\ x # m /\ x # n
    <3>1. \A x \in PtyNode : x[1] # p => (Wanted(x)' <=> Wanted(x)) /\ x # m /\ x # n
      BY <1>2, <1>8 DEF SameNode, Wanted
    <3>2. \A x \in PtyNode : x[1] # p => (Alive(x)' <=> Alive(x))
      BY <1>0, <1>2, <1>3, <1>5 DEF Alive, AtNode
    <3>. QED BY <3>1, <3>2
  <2>. QED BY <2>1, NodeIs
<1>17. Shares'
  <2>1. \A u \in Openers : nodesPc[u] = "free" => nodesPc'[u] = "free" /\ nodesArg'[u] = nodesArg[u]
    BY <1>0, <1>3, <1>5
  <2>2. shared \subseteq Ptys
    BY <1>0 DEF PtyTypeOK
  <2>. QED BY <2>1, <2>2, <1>0, <1>3, <1>16 DEF Shares, One
<1>. HIDE DEF Wanted
<1>18. Entered'
  <2>1. \A i \in DOMAIN array : i # ArrayCount
    BY <1>0, PtyAssumption DEF PtyTypeOK
  <2>2. \A i \in DOMAIN array, q \in Ptys : array[i] = q => q # p
    BY <2>1, <1>0, <1>1 DEF Entered
  <2>. QED BY <2>2, <1>0, <1>3, <1>16 DEF Entered
<1>19. Listed'
  BY <1>0, <1>2, <1>3, <1>9, <1>16, NodeIs DEF Listed
<1>20. Indexed'
  <2>. SUFFICES ASSUME NEW q \in Ptys, index[q] = ArrayCount, Secondary(q) \in nodesNodes'
                PROVE  \E u \in Openers : AtNode(u, Secondary(q), "publish")'
    BY <1>3 DEF Indexed
  <2>1. q # p
    BY <1>9, NodeIs
  <2>2. PICK u \in Openers : AtNode(u, Secondary(q), "publish")
    BY <1>0, <1>3 DEF Indexed
  <2>3. u # t
    BY <2>1, <2>2, <1>16 DEF AtNode
  <2>. QED BY <2>2, <2>3, <1>3, <1>5 DEF AtNode
<1>. QED BY <1>4, <1>10, <1>11, <1>12, <1>13, <1>14, <1>15, <1>17, <1>18, <1>19, <1>20 DEF PtyInv, TasksInv

LEMMA FreeNodeKeeps ==
  ASSUME PtyInv, NoPanic, NEW t \in Openers, FreeNode(t)
  PROVE  PtyInv'
<1>. PICK n : n = nodesArg[t]
  OBVIOUS
<1>0. /\ PtyTypeOK /\ nodesPc[t] = "release" /\ NodesInv /\ TasksInv /\ Alone /\ Apart
      /\ FreedOnce /\ Shares /\ SharedIs /\ HeldAllocated /\ InTreeIs /\ Entered /\ Listed /\ Indexed
  BY DEF PtyInv, FreeNode, At
<1>1. n \in PtyNode /\ n \in nodesNodes /\ NodeInv(n) /\ AtNode(t, n, "release") /\ n[1] \in shared
  BY <1>0 DEF PtyTypeOK, TasksInv, TaskInv, NodesInv, AtNode, SharedIs
<1>2. ~Wanted(n) /\ Owners(n) = {} /\ ~Adding(n) /\ n \notin inTree
  BY <1>1 DEF NodeInv, Wanted
<1>3. /\ nodesPc' = [nodesPc EXCEPT ![t] = "unshare"] /\ nodesNodes' = nodesNodes \ {n}
      /\ array' = array /\ shared' = shared /\ index' = index /\ nshared' = nshared /\ nodesCount' = nodesCount
      /\ nodesHolds' = nodesHolds /\ nodesArg' = nodesArg /\ inTree' = inTree /\ treeState' = treeState
      /\ locker' = locker /\ overtaken' = overtaken
  BY DEF FreeNode, At, inVfs
<1>4. PtyTypeOK'
  BY <1>0, <1>3 DEF PtyTypeOK
<1>5. \A u \in Openers : nodesPc'[u] = IF u = t THEN "unshare" ELSE nodesPc[u]
  BY <1>0, <1>3 DEF PtyTypeOK
<1>6. \A x : x # n => SameNode(x)
  BY <1>0, <1>3, <1>5 DEF SameNode, Owners, Extra, Adding, AtNode
<1>7. \A x : x # n => (Wanted(x)' <=> Wanted(x))
  BY <1>6 DEF SameNode, Wanted
<1>8. NodesInv'
  <2>1. \A x \in inTree : index'[x[1]] # ArrayCount
    BY <1>0, <1>3 DEF NodesInv, NodeInv, InTreeIs
  <2>2. n \notin nodesNodes'
    BY <1>3
  <2>. QED BY <2>1, <2>2, <1>0, <1>3, <1>6, NodesStay
<1>9. TaskInv(t)'
  BY <1>1, <1>3, <1>5 DEF TaskInv, Making
<1>10. ASSUME NEW u \in Openers, u # t PROVE TaskInv(u)'
  <2>1. TaskInv(u) /\ nodesPc'[u] = nodesPc[u] /\ nodesArg'[u] = nodesArg[u] /\ nodesPc[u] # "panic"
    BY <1>0, <1>3, <1>5, <1>10 DEF TasksInv, NoPanic
  <2>2. nodesPc[u] = "release" => nodesArg[u] # n
    BY <1>0, <1>10 DEF Apart
  <2>3. nodesPc[u] \in {"add", "addown"} => nodesArg[u] # n
    BY <1>2 DEF Adding, AtNode
  <2>. QED BY <2>1, <2>2, <2>3, <1>3 DEF TaskInv
<1>11. HeldAllocated' /\ InTreeIs' /\ SharedIs'
  BY <1>0, <1>2, <1>3 DEF HeldAllocated, InTreeIs, SharedIs, Owners
<1>12. Alone' /\ Apart' /\ FreedOnce'
  BY <1>0, <1>3, <1>5 DEF Alone, Apart, FreedOnce, Making
<1>13. Shares'
  <2>1. \A x : x # n => (Alive(x)' <=> Alive(x))
    BY <1>0, <1>3, <1>5 DEF Alive, AtNode
  <2>2. Alive(n) /\ Alive(n)'
    BY <1>1, <1>3, <1>5 DEF Alive, AtNode
  <2>3. \A x : Alive(x)' <=> Alive(x)
    BY <2>1, <2>2
  <2>4. \A u \in Openers : nodesPc[u] = "free" => nodesPc'[u] = "free" /\ nodesArg'[u] = nodesArg[u]
    BY <1>0, <1>3, <1>5
  <2>. QED BY <2>3, <2>4, <1>0, <1>3 DEF Shares, One
<1>. HIDE DEF Wanted
<1>14. Entered'
  BY <1>0, <1>2, <1>3, <1>7 DEF Entered
<1>15. Listed'
  BY <1>0, <1>3, <1>7 DEF Listed
<1>16. Indexed'
  BY <1>0, <1>3, <1>5 DEF Indexed, AtNode
<1>. QED BY <1>4, <1>8, <1>9, <1>10, <1>11, <1>12, <1>13, <1>14, <1>15, <1>16 DEF PtyInv, TasksInv

LEMMA UnshareKeeps ==
  ASSUME PtyInv, NoPanic, NEW t \in Openers, Unshare(t)
  PROVE  PtyInv'
<1>. PICK n : n = nodesArg[t]
  OBVIOUS
<1>. PICK p : p = n[1]
  OBVIOUS
<1>0. /\ PtyTypeOK /\ nodesPc[t] = "unshare" /\ NodesInv /\ TasksInv /\ Alone /\ Apart
      /\ FreedOnce /\ Shares /\ SharedIs /\ HeldAllocated /\ InTreeIs /\ Entered /\ Listed /\ Indexed
  BY DEF PtyInv, Unshare
<1>1. n \in PtyNode /\ n \notin nodesNodes /\ p \in shared /\ p \in Ptys /\ (n = Main(p) \/ n = Secondary(p)) /\ Alive(n)
  BY <1>0, NodeIs DEF PtyTypeOK, TasksInv, TaskInv, Alive, AtNode
<1>2. /\ nodesPc' = [nodesPc EXCEPT ![t] = IF nshared[p] = 1 THEN "free" ELSE "idle"]
      /\ nshared' = [nshared EXCEPT ![p] = @ - 1]
      /\ nodesNodes' = nodesNodes /\ array' = array /\ shared' = shared /\ index' = index /\ nodesCount' = nodesCount
      /\ nodesHolds' = nodesHolds /\ nodesArg' = nodesArg /\ inTree' = inTree /\ treeState' = treeState
      /\ overtaken' = overtaken
  BY DEF Unshare, LastShare, memory
<1>3. locker' = locker \/ (locker' = NoTask /\ locker = t)
  BY DEF Unshare, Leaves
<1>4. nshared[p] = One(Alive(Main(p))) + One(Alive(Secondary(p))) /\ nshared[p] \in {1, 2}
  BY <1>0, <1>1 DEF Shares, One
<1>5. PtyTypeOK'
  <2>1. nshared[p] - 1 \in 0 .. 2
    BY <1>4
  <2>. QED BY <2>1, <1>0, <1>1, <1>2, <1>3 DEF PtyTypeOK
<1>6. /\ \A u \in Openers : nodesPc'[u] = IF u = t THEN IF nshared[p] = 1 THEN "free" ELSE "idle" ELSE nodesPc[u]
      /\ \A q \in Ptys : nshared'[q] = IF q = p THEN nshared[p] - 1 ELSE nshared[q]
  BY <1>0, <1>1, <1>2 DEF PtyTypeOK
<1>7. \A x : SameNode(x)
  BY <1>0, <1>2, <1>6 DEF SameNode, Owners, Extra, Adding, AtNode
<1>8. \A x : Wanted(x)' <=> Wanted(x)
  BY <1>7 DEF SameNode, Wanted
<1>9. NodesInv'
  <2>1. \A x \in inTree : index'[x[1]] # ArrayCount
    BY <1>0, <1>2 DEF NodesInv, NodeInv, InTreeIs
  <2>. QED BY <2>1, <1>0, <1>2, <1>7, NodesStay
<1>10. TaskInv(t)'
  <2>1. nodesPc'[t] = "free" => nodesArg'[t][1] \in shared' /\ nshared'[nodesArg'[t][1]] = 0
    BY <1>1, <1>2, <1>6
  <2>. QED BY <2>1, <1>6 DEF TaskInv, Making
<1>11. ASSUME NEW u \in Openers, u # t PROVE TaskInv(u)'
  <2>1. TaskInv(u) /\ nodesPc'[u] = nodesPc[u] /\ nodesArg'[u] = nodesArg[u] /\ nodesPc[u] # "panic"
    BY <1>0, <1>2, <1>6, <1>11 DEF TasksInv, NoPanic
  <2>2. nodesPc[u] = "free" => nodesArg[u][1] # p
    BY <2>1, <1>4 DEF TaskInv
  <2>3. nodesPc[u] = "free" => nshared'[nodesArg[u][1]] = nshared[nodesArg[u][1]]
    <3>1. nodesArg[u][1] \in Ptys
      BY <1>0, NodeIs DEF PtyTypeOK
    <3>. QED BY <3>1, <2>2, <1>6
  <2>4. u # NoTask
    BY PtyAssumption DEF NoTask
  <2>. QED BY <2>1, <2>3, <2>4, <1>2, <1>3, <1>11 DEF TaskInv
<1>12. HeldAllocated' /\ InTreeIs' /\ SharedIs'
  BY <1>0, <1>2 DEF HeldAllocated, InTreeIs, SharedIs
<1>13. Alone' /\ Apart'
  BY <1>0, <1>2, <1>6 DEF Alone, Apart, Making
<1>14. FreedOnce'
  <2>1. \A u \in Openers : nodesPc[u] = "free" => nodesArg[u][1] # p
    BY <1>0, <1>4 DEF TasksInv, TaskInv
  <2>. QED BY <2>1, <1>0, <1>2, <1>6 DEF FreedOnce
<1>15. Shares'
  <2>1. \A x : x # n => (Alive(x)' <=> Alive(x))
    BY <1>0, <1>2, <1>6 DEF Alive, AtNode
  <2>2. ~Alive(n)'
    <3>1. \A u \in Openers : AtNode(u, n, "unshare") => u = t
      BY <1>0 DEF Apart, AtNode
    <3>. QED BY <3>1, <1>1, <1>2, <1>6 DEF Alive, AtNode
  <2>3. \A q \in Ptys : q # p => Main(q) # n /\ Secondary(q) # n
    BY NodeIs
  <2>4. \A u \in Openers : nodesPc[u] = "free" => nodesPc'[u] = "free" /\ nodesArg'[u] = nodesArg[u]
    BY <1>0, <1>2, <1>6
  <2>5. nshared'[p] = One(Alive(Main(p))') + One(Alive(Secondary(p))')
    BY <2>1, <2>2, <1>1, <1>4, <1>6, NodeIs DEF One
  <2>6. nshared'[p] = 0 => nodesPc'[t] = "free" /\ nodesArg'[t][1] = p
    BY <1>1, <1>2, <1>4, <1>6
  <2>7. ASSUME NEW q \in shared, q # p
        PROVE  nshared'[q] = One(Alive(Main(q))') + One(Alive(Secondary(q))')
               /\ (nshared'[q] = 0 => \E u \in Openers : nodesPc'[u] = "free" /\ nodesArg'[u][1] = q)
    <3>1. q \in Ptys /\ nshared'[q] = nshared[q]
      BY <2>7, <1>0, <1>6 DEF PtyTypeOK
    <3>2. (Alive(Main(q))' <=> Alive(Main(q))) /\ (Alive(Secondary(q))' <=> Alive(Secondary(q)))
      BY <3>1, <2>1, <2>3, <2>7
    <3>. QED BY <3>1, <3>2, <2>4, <1>0 DEF Shares, One
  <2>. HIDE DEF One, Alive
  <2>. QED BY <2>5, <2>6, <2>7, <1>1, <1>2 DEF Shares
<1>16. Entered' /\ Listed' /\ Indexed'
  BY <1>0, <1>2, <1>6, <1>8, ArrayStays
<1>. QED BY <1>5, <1>9, <1>10, <1>11, <1>12, <1>13, <1>14, <1>15, <1>16 DEF PtyInv, TasksInv

LEMMA FreeSharedKeeps ==
  ASSUME PtyInv, NoPanic, NEW t \in Openers, FreeShared(t)
  PROVE  PtyInv'
<1>. PICK p : p = nodesArg[t][1]
  OBVIOUS
<1>0. /\ PtyTypeOK /\ nodesPc[t] = "free" /\ NodesInv /\ TasksInv /\ Alone /\ Apart
      /\ FreedOnce /\ Shares /\ SharedIs /\ HeldAllocated /\ InTreeIs /\ Entered /\ Listed /\ Indexed
  BY DEF PtyInv, FreeShared, At
<1>1. p \in shared /\ p \in Ptys /\ nshared[p] = 0
  BY <1>0, NodeIs DEF PtyTypeOK, TasksInv, TaskInv
<1>2. ~Alive(Main(p)) /\ ~Alive(Secondary(p))
  BY <1>0, <1>1 DEF Shares, One
<1>3. /\ nodesPc' = [nodesPc EXCEPT ![t] = "idle"] /\ shared' = shared \ {p} /\ nshared' = nshared
      /\ nodesNodes' = nodesNodes /\ array' = array /\ index' = index /\ nodesCount' = nodesCount
      /\ nodesHolds' = nodesHolds /\ nodesArg' = nodesArg /\ inTree' = inTree /\ treeState' = treeState
      /\ overtaken' = overtaken /\ (locker' = locker \/ (locker' = NoTask /\ locker = t))
  BY DEF FreeShared, At, Leaves
<1>4. PtyTypeOK'
  BY <1>0, <1>3 DEF PtyTypeOK
<1>5. \A u \in Openers : nodesPc'[u] = IF u = t THEN "idle" ELSE nodesPc[u]
  BY <1>0, <1>3 DEF PtyTypeOK
<1>6. \A x : SameNode(x)
  BY <1>0, <1>3, <1>5 DEF SameNode, Owners, Extra, Adding, AtNode
<1>7. \A x : Wanted(x)' <=> Wanted(x)
  BY <1>6 DEF SameNode, Wanted
<1>8. NodesInv'
  <2>1. \A x \in inTree : index'[x[1]] # ArrayCount
    BY <1>0, <1>3 DEF NodesInv, NodeInv, InTreeIs
  <2>. QED BY <2>1, <1>0, <1>3, <1>6, NodesStay
<1>9. TaskInv(t)'
  BY <1>5 DEF TaskInv, Making
<1>10. ASSUME NEW u \in Openers, u # t PROVE TaskInv(u)'
  <2>1. TaskInv(u) /\ nodesPc'[u] = nodesPc[u] /\ nodesArg'[u] = nodesArg[u] /\ nodesPc[u] # "panic" /\ nodesArg[u] \in PtyNode
    BY <1>0, <1>3, <1>5, <1>10 DEF TasksInv, NoPanic, PtyTypeOK
  <2>2. nodesPc[u] = "unshare" => nodesArg[u][1] # p
    <3>1. nodesPc[u] = "unshare" => Alive(nodesArg[u])
      BY DEF Alive, AtNode
    <3>. QED BY <3>1, <2>1, <1>2, NodeIs
  <2>3. nodesPc[u] = "free" => nodesArg[u][1] # p
    BY <1>0, <1>10 DEF FreedOnce
  <2>4. u # NoTask
    BY PtyAssumption DEF NoTask
  <2>. QED BY <2>1, <2>2, <2>3, <2>4, <1>3, <1>10 DEF TaskInv
<1>11. HeldAllocated' /\ InTreeIs'
  BY <1>0, <1>3 DEF HeldAllocated, InTreeIs
<1>12. SharedIs'
  <2>1. \A x \in nodesNodes : x \in PtyNode /\ Alive(x)
    BY <1>0 DEF Alive, PtyTypeOK
  <2>2. \A x \in nodesNodes : x[1] # p
    BY <2>1, <1>2, NodeIs
  <2>. QED BY <2>2, <1>0, <1>3 DEF SharedIs
<1>13. Alone' /\ Apart' /\ FreedOnce'
  BY <1>0, <1>3, <1>5 DEF Alone, Apart, FreedOnce, Making
<1>14. Shares'
  <2>1. \A x : Alive(x)' <=> Alive(x)
    BY <1>0, <1>3, <1>5 DEF Alive, AtNode
  <2>2. \A u \in Openers : nodesPc[u] = "free" /\ nodesArg[u][1] # p => nodesPc'[u] = "free" /\ nodesArg'[u] = nodesArg[u]
    BY <1>0, <1>3, <1>5
  <2>. QED BY <2>1, <2>2, <1>0, <1>3 DEF Shares, One
<1>15. Entered' /\ Listed' /\ Indexed'
  BY <1>0, <1>3, <1>5, <1>7, ArrayStays
<1>. QED BY <1>4, <1>8, <1>9, <1>10, <1>11, <1>12, <1>13, <1>14, <1>15 DEF PtyInv, TasksInv

-----------------------------------------------------------------------------
LEMMA PtyStarts ==
  ASSUME PtyInit
  PROVE  PtyInv
<1>1. \A t \in Openers : nodesPc[t] = "idle" /\ nodesHolds[t] = {}
  BY DEF PtyInit
<1>2. PtyTypeOK
  <2>1. (CHOOSE n \in PtyNode : TRUE) \in PtyNode
    <3>1. PICK p \in Ptys : TRUE
      BY PtyAssumption
    <3>2. Main(p) \in PtyNode
      BY NodeIs
    <3>. QED BY <3>2
  <2>. QED BY <2>1, PtyAssumption DEF PtyInit, PtyTypeOK
<1>3. nodesNodes = {} /\ shared = {} /\ inTree = {}
  BY DEF PtyInit
<1>4. \A i \in DOMAIN array : array[i] \notin Ptys
  BY PtyAssumption DEF PtyInit, NoPty
<1>. QED BY <1>1, <1>2, <1>3, <1>4
        DEF PtyInv, NodesInv, TasksInv, TaskInv, Making, HeldAllocated, InTreeIs, SharedIs, Alone, Apart, FreedOnce,
            Shares, Entered, Listed, Indexed

LEMMA PtyStays ==
  ASSUME PtyInv, UNCHANGED ptyVars
  PROVE  PtyInv'
<1>1. /\ array' = array /\ shared' = shared /\ nodesNodes' = nodesNodes /\ index' = index /\ nshared' = nshared
      /\ nodesCount' = nodesCount /\ nodesHolds' = nodesHolds /\ nodesPc' = nodesPc /\ nodesArg' = nodesArg
      /\ inTree' = inTree /\ treeState' = treeState /\ locker' = locker /\ overtaken' = overtaken
  BY DEF ptyVars, memory, inVfs
<1>2. PtyTypeOK' /\ HeldAllocated' /\ InTreeIs'
  BY <1>1 DEF PtyInv, PtyTypeOK, HeldAllocated, InTreeIs
<1>3. SharedIs' /\ FreedOnce' /\ Shares'
  BY <1>1, SharesStay DEF PtyInv
<1>4. \A x : SameNode(x)
  BY <1>1 DEF SameNode, Owners, Extra, Adding, AtNode
<1>5. \A x : Wanted(x)' <=> Wanted(x)
  BY <1>4 DEF SameNode, Wanted
<1>6. Entered' /\ Listed' /\ Indexed'
  BY <1>1, <1>5, ArrayStays DEF PtyInv
<1>7. NodesInv'
  <2>1. \A x \in inTree : index'[x[1]] # ArrayCount
    BY <1>1 DEF PtyInv, NodesInv, NodeInv, InTreeIs
  <2>. QED BY <2>1, <1>1, <1>4, NodesStay DEF PtyInv
<1>8. TasksInv'
  BY <1>1 DEF PtyInv, TasksInv, TaskInv, Owners
<1>9. Alone' /\ Apart'
  BY <1>1 DEF PtyInv, Alone, Apart
<1>. QED BY <1>2, <1>3, <1>6, <1>7, <1>8, <1>9 DEF PtyInv

LEMMA PtyKeeps ==
  ASSUME PtyInv, PtyNext
  PROVE  PtyInv'
<1>1. NoPanic
  BY DEF PtyNext, NoPanic
<1>. PICK t \in Openers :
       \/ \E p \in Ptys : Create(t, p)
       \/ Publish(t) \/ CreateFails(t)
       \/ OpenCreatedSeen(t) \/ OpenCreated(t) \/ AddCreated(t) \/ CreateDone(t)
       \/ \E i \in DOMAIN array : OpenSeen(t, i) \/ OpenPts(t, i)
       \/ OpenAdd(t)
       \/ \E n \in PtyNode : PtyRelease(t, n)
       \/ DirectRelease(t) \/ TreeRelease(t) \/ TreeRemove(t) \/ TreePanic(t)
       \/ FreeNode(t) \/ Unshare(t) \/ FreeShared(t)
  BY DEF PtyNext
<1>2. CASE \E p \in Ptys : Create(t, p)
  BY <1>1, <1>2, CreateKeeps
<1>3. CASE Publish(t) \/ CreateFails(t)
  BY <1>1, <1>3, PublishKeeps, CreateFailsKeeps
<1>4. CASE OpenCreatedSeen(t) \/ OpenCreated(t) \/ AddCreated(t) \/ CreateDone(t)
  BY <1>1, <1>4, OpenCreatedSeenKeeps, OpenCreatedKeeps, AddCreatedKeeps, CreateDoneKeeps
<1>5. CASE \E i \in DOMAIN array : OpenSeen(t, i) \/ OpenPts(t, i)
  BY <1>1, <1>5, OpenSeenKeeps, OpenPtsKeeps
<1>6. CASE OpenAdd(t) \/ \E n \in PtyNode : PtyRelease(t, n)
  BY <1>1, <1>6, OpenAddKeeps, PtyReleaseKeeps
<1>7. CASE DirectRelease(t) \/ TreeRelease(t) \/ TreeRemove(t) \/ TreePanic(t)
  BY <1>1, <1>7, DirectReleaseKeeps, TreeReleaseKeeps, TreeRemoveKeeps, TreePanicKeeps
<1>8. CASE FreeNode(t) \/ Unshare(t) \/ FreeShared(t)
  BY <1>1, <1>8, FreeNodeKeeps, UnshareKeeps, FreeSharedKeeps
<1>. QED BY <1>2, <1>3, <1>4, <1>5, <1>6, <1>7, <1>8

LEMMA PtyImplies ==
  ASSUME PtyInv
  PROVE  UsedIsAllocated /\ PtyNothingLeaks /\ OpensItsOwn
<1>0. /\ PtyTypeOK /\ NodesInv /\ TasksInv /\ Shares /\ SharedIs /\ HeldAllocated /\ InTreeIs /\ Entered
  BY DEF PtyInv
<1>1. \A i \in DOMAIN array : PtyFound(i) =>
        /\ array[i] \in Ptys /\ Secondary(array[i]) \in nodesNodes /\ array[i] \in shared /\ index[array[i]] = i
  <2>1. \A i \in DOMAIN array : PtyFound(i) => array[i] \in Ptys
    BY <1>0 DEF PtyTypeOK, PtyFound
  <2>2. \A i \in DOMAIN array : PtyFound(i) => Secondary(array[i]) \in nodesNodes /\ index[array[i]] = i
    BY <2>1, <1>0 DEF Entered
  <2>. QED BY <2>1, <2>2, <1>0, NodeIs DEF SharedIs
<1>2. UsedIsAllocated
  BY <1>0, <1>1 DEF UsedIsAllocated, HeldAllocated, SharedIs, InTreeIs
<1>3. PtyNothingLeaks
  <2>. SUFFICES ASSUME \A t \in Openers : nodesPc[t] = "idle"
                PROVE  nodesNodes = {n \in PtyNode : \E t \in Openers : n \in nodesHolds[t]} /\ shared = {n[1] : n \in nodesNodes}
    BY <1>0, <1>1 DEF PtyNothingLeaks, InTreeIs
  <2>1. ASSUME NEW n \in nodesNodes PROVE n \in PtyNode /\ \E t \in Openers : n \in nodesHolds[t]
    <3>1. NodeInv(n) /\ n \in PtyNode
      BY <1>0 DEF NodesInv, PtyTypeOK
    <3>2. Wanted(n) /\ ~Adding(n)
      BY <3>1 DEF NodeInv, Adding, AtNode
    <3>. QED BY <3>1, <3>2 DEF Wanted, Owners
  <2>2. nodesNodes = {n \in PtyNode : \E t \in Openers : n \in nodesHolds[t]}
    BY <2>1, <1>0 DEF HeldAllocated
  <2>3. ASSUME NEW p \in shared PROVE \E n \in nodesNodes : n[1] = p
    <3>1. nshared[p] # 0 /\ nshared[p] = One(Alive(Main(p))) + One(Alive(Secondary(p)))
      BY <1>0 DEF Shares
    <3>2. Alive(Main(p)) \/ Alive(Secondary(p))
      BY <3>1 DEF One
    <3>3. Main(p) \in nodesNodes \/ Secondary(p) \in nodesNodes
      BY <3>2 DEF Alive, AtNode
    <3>. QED BY <3>3, NodeIs
  <2>4. shared = {n[1] : n \in nodesNodes}
    BY <2>3, <1>0 DEF SharedIs
  <2>. QED BY <2>2, <2>4
<1>4. OpensItsOwn
  BY <1>0 DEF TasksInv, TaskInv, Owners, OpensItsOwn
<1>. QED BY <1>2, <1>3, <1>4

LEMMA PtyHolds == Spec => []PtyInv
<1>1. Init => PtyInv
  BY PtyStarts DEF Init
<1>2. PtyInv /\ [Next]_vars => PtyInv'
  <2>. SUFFICES ASSUME PtyInv, [Next]_vars PROVE PtyInv'
    OBVIOUS
  <2>1. CASE PtyNext
    BY <2>1, PtyKeeps
  <2>2. CASE UNCHANGED ptyVars
    BY <2>2, PtyStays
  <2>3. [Next]_vars => PtyNext \/ UNCHANGED ptyVars
    BY Zenon DEF Next, vars, TableMoves, PipeMoves, TreeMoves, LinesMoves, EchoMoves, WordsMoves, CallsMoves, NodesMoves
  <2>. QED BY <2>1, <2>2, <2>3
<1>. QED BY <1>1, <1>2, PTL DEF Spec

(***************************************************************************)
(* However creations, opens and releases of both sides of a pseudo         *)
(* terminal are ordered (pty_create, n_open_pts, n_release, and the tree   *)
(* with its tree_state between), a node that a task has, that is in the    *)
(* tree or that can be found in /dev/pts is allocated, with the data it    *)
(* shares; what nobody uses has left the tree and is freed when nobody is  *)
(* at work on it; and pty_create opens its own node by the name it has     *)
(* published. One panic remains: a task that releases the last reference   *)
(* may find that another has taken the node out of the tree before.        *)
(***************************************************************************)
THEOREM PtyNodesAreRight == Spec => [](UsedIsAllocated /\ PtyNothingLeaks /\ OpensItsOwn)
BY PtyHolds, PtyImplies, PTL

-----------------------------------------------------------------------------
(***************************************************************************)
(* The entries of the file table and the nodes of the tree.                *)
(***************************************************************************)
LEMMA TableHolds == Spec => []TableInv
<1>1. Init => TableInv
  BY TableStarts, Zenon DEF Init
<1>2. TableInv /\ [Next]_vars => TableInv'
  <2>1. [Next]_vars => TableNext \/ UNCHANGED tableVars
    BY Zenon DEF Next, vars, TableMoves, PipeMoves, TreeMoves, LinesMoves, EchoMoves, WordsMoves, CallsMoves, NodesMoves
  <2>. QED BY <2>1, TableSteps, TableStays, Zenon
<1>. QED BY <1>1, <1>2, PTL DEF Spec

(***************************************************************************)
(* The count of an entry of the file table is the number of descriptors    *)
(* and calls that refer to it (file.c), an entry that alloc_file_entry has *)
(* given out is in nobody's table yet, what a task uses has its node, and  *)
(* an entry nobody refers to is free: whatever calls of file_open,         *)
(* file_pipe, file_dup, file_close, fd_clone_func and fd_release_func      *)
(* overlap, for any number of tasks, entries and descriptors.              *)
(***************************************************************************)
THEOREM EntriesAreRight ==
  Spec => [](CountIsReferences /\ AllocatedFresh /\ NodeWhileUsed /\ NoEntryLost)
BY TableHolds, TableRight, PTL

LEMMA TreeHolds == Spec => []TreeInv
<1>1. Init => TreeInv
  BY TreeStarts, Zenon DEF Init
<1>2. TreeInv /\ [Next]_vars => TreeInv'
  <2>1. [Next]_vars => VfsNext \/ UNCHANGED vfsVars
    BY Zenon DEF Next, vars, TableMoves, PipeMoves, TreeMoves, LinesMoves, EchoMoves, WordsMoves, CallsMoves, NodesMoves
  <2>. QED BY <2>1, TreeSteps, TreeStays, Zenon
<1>. QED BY <1>1, <1>2, PTL DEF Spec

(***************************************************************************)
(* In the tree of vfs.c a node's count is one more than the tasks that     *)
(* hold it and its tree_state is their number, a task holds only nodes     *)
(* that are in the tree, a node without child, mount and user has been     *)
(* taken off (remove_leaf_node), what is open on the volume is on it, and  *)
(* a file opened exclusively has one user: whatever calls of vfs_open,     *)
(* n_release, vfs_remove and vfs_mount overlap, for any number of users,   *)
(* nodes and names and for paths of any length.                            *)
(***************************************************************************)
THEOREM TreeIsRight ==
  Spec => [](CountsExact /\ HeldIsLive /\ TreeTidy /\ OpenIsOnDisk /\ ExclusiveAlone)
BY TreeHolds, TreeRight, PTL

(***************************************************************************)
(* Entries of the file table (file.c), nodes of the tree (vfs.c) and       *)
(* nodes of pseudo terminals (pty.c) are counted exactly, used only while  *)
(* they exist and given back; what is open is on the volume, and an        *)
(* exclusive file has one user.                                            *)
(***************************************************************************)
THEOREM NodesAreRight == Spec => []NodesRight
<1>1. TableInv => TableTypeOK
  BY Zenon DEF TableInv
<1>2. TreeInv => VfsTypeOK
  BY Zenon DEF TreeInv
<1>3. PtyInv => PtyTypeOK
  BY Zenon DEF PtyInv
<1>4. Spec => []TableInv /\ []TreeInv /\ []PtyInv
  BY TableHolds, TreeHolds, PtyHolds, PTL
<1>. QED BY <1>1, <1>2, <1>3, <1>4, EntriesAreRight, TreeIsRight, PtyNodesAreRight, PTL DEF NodesRight

=============================================================================
