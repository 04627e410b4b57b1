-------------------------------- MODULE Irq ---------------------------------
(***************************************************************************)
(* Interrupt dispatch: irq_apic, irq_pic, irq_install and irq_uninstall    *)
(* (base/irq.c), and the route of ACPI handlers (acpios/osdancy.c).        *)
(*                                                                         *)
(* One interrupt request that several drivers share.  Its handler runs on  *)
(* the boot processor, where all requests are routed to; drivers install   *)
(* and uninstall their functions on other processors meanwhile.            *)
(***************************************************************************)
EXTENDS Naturals, Sequences, FiniteSets

CONSTANTS
  Drivers,     \* the functions; a driver installs one
  Edge,        \* the request is edge triggered
  MaxInstalls  \* bound on the calls of irq_install

None == "none"  \* irq_empty_func

VARIABLES
  list,     \* the entries: the function and the lock of each
  mtx,      \* the holder of irq_mtx
  pc,       \* where each driver is
  entry,    \* the entry of each driver, 0 when it has none
  line,     \* the device of the driver wants attention
  request,  \* the controller has a request to deliver
  inService, \* the controller has delivered one and waits for its end
  pos,      \* the entry the handler is at; 0 when it does not run
  running,  \* the function the handler runs
  installs  \* calls of irq_install so far

drivers == <<mtx, pc, entry, installs>>
handler == <<request, inService, pos, running>>
vars == <<list, drivers, line, handler>>

States == {"out", "install", "reuse", "in", "uninstall", "wait", "unlock", "leave"}

TypeOK ==
  /\ list \in Seq([func : Drivers \cup {None}, lock : {"free", "handler"} \cup Drivers])
  /\ mtx \in Drivers \cup {None}
  /\ pc \in [Drivers -> States]
  /\ entry \in [Drivers -> 0 .. Len(list)]
  /\ line \in [Drivers -> BOOLEAN]
  /\ request \in BOOLEAN /\ inService \in BOOLEAN
  /\ pos \in 0 .. Len(list) + 1 /\ running \in Drivers \cup {None, "empty"}
  /\ installs \in 0 .. MaxInstalls

Init ==
  /\ list = <<>> /\ mtx = None
  /\ pc = [d \in Drivers |-> "out"] /\ entry = [d \in Drivers |-> 0]
  /\ line = [d \in Drivers |-> FALSE]
  /\ request = FALSE /\ inService = FALSE /\ pos = 0 /\ running = None
  /\ installs = 0

Goes(d, here, there) == pc[d] = here /\ pc' = [pc EXCEPT ![d] = there]

-----------------------------------------------------------------------------
(* irq_install and irq_uninstall. *)

FreeAlways == TRUE

Free == mtx = None

\* irq_mtx is taken; the first entry with the empty function is found.
Install(d) ==
  /\ Free /\ installs < MaxInstalls /\ Goes(d, "out", "install")
  /\ mtx' = d /\ installs' = installs + 1
  /\ LET empty == {i \in DOMAIN list : list[i].func = None} IN
     entry' = [entry EXCEPT ![d] = IF empty = {} THEN 0 ELSE CHOOSE i \in empty : \A j \in empty : i <= j]
  /\ UNCHANGED <<list, line, handler>>

\* The entry that was found gets the function, or a new one is linked. The
\* argument is left out: it is written before the function, but the handler reads
\* both without irq_mtx, in an order that is not fixed.
Link(d) ==
  /\ Goes(d, "install", "reuse")
  /\ IF entry[d] # 0
     THEN list' = [list EXCEPT ![entry[d]].func = d] /\ UNCHANGED entry
     ELSE /\ list' = Append(list, [func |-> d, lock |-> "free"])
          /\ entry' = [entry EXCEPT ![d] = Len(list) + 1]
  /\ UNCHANGED <<mtx, installs, line, handler>>

\* There is no memory for an entry.
NoMemory(d) ==
  /\ entry[d] = 0 /\ Goes(d, "install", "out")
  /\ mtx' = None
  /\ UNCHANGED <<list, entry, installs, line, handler>>

Installed(d) ==
  /\ Goes(d, "reuse", "in")
  /\ mtx' = None
  /\ UNCHANGED <<list, entry, installs, line, handler>>

\* irq_uninstall: the empty function; the device is quiet by then.
Uninstall(d) ==
  /\ Free /\ Goes(d, "in", "uninstall")
  /\ mtx' = d
  /\ line' = [line EXCEPT ![d] = FALSE]
  /\ UNCHANGED <<list, entry, installs, handler>>

Empty(d) ==
  /\ Goes(d, "uninstall", "wait")
  /\ list' = [list EXCEPT ![entry[d]].func = None]
  /\ UNCHANGED <<mtx, entry, installs, line, handler>>

UnusedAny(i) == TRUE

Unused(i) == list[i].lock = "free"

\* The lock of the entry, so that a function that runs has returned.
Wait(d) ==
  /\ Goes(d, "wait", "unlock") /\ Unused(entry[d])
  /\ list' = [list EXCEPT ![entry[d]].lock = d]
  /\ UNCHANGED <<mtx, entry, installs, line, handler>>

Unlock(d) ==
  /\ Goes(d, "unlock", "leave")
  /\ list' = [list EXCEPT ![entry[d]].lock = "free"]
  /\ UNCHANGED <<mtx, entry, installs, line, handler>>

Leave(d) ==
  /\ Goes(d, "leave", "out")
  /\ mtx' = None /\ entry' = [entry EXCEPT ![d] = 0]
  /\ UNCHANGED <<list, installs, line, handler>>

-----------------------------------------------------------------------------
(* The device and the controller. *)

\* A device whose driver is installed wants attention.
Raise(d) ==
  /\ pc[d] = "in" /\ ~line[d]
  /\ line' = [line EXCEPT ![d] = TRUE]
  /\ request' = TRUE
  /\ UNCHANGED <<list, drivers, inService, pos, running>>

\* The request is delivered; nothing more of it until its end.
Deliver ==
  /\ request /\ ~inService
  /\ inService' = TRUE /\ request' = FALSE
  /\ pos' = 1
  /\ UNCHANGED <<list, drivers, line, running>>

-----------------------------------------------------------------------------
(* irq_apic and irq_pic, after a spurious request 7 or 15 has been sorted out. *)

\* The lock of the entry is tried, and its function is read.
Try ==
  /\ pos # 0 /\ running = None /\ pos <= Len(list)
  /\ IF list[pos].lock = "free"
     THEN /\ list' = [list EXCEPT ![pos].lock = "handler"]
          /\ running' = IF list[pos].func = None THEN "empty" ELSE list[pos].func
          /\ UNCHANGED pos
     ELSE pos' = pos + 1 /\ UNCHANGED <<list, running>>
  /\ UNCHANGED <<drivers, line, request, inService>>

ServeSkips ==
  /\ running # None
  /\ line' = [d \in Drivers |-> IF d = running THEN FALSE ELSE line[d]]
  /\ list' = [list EXCEPT ![pos].lock = "free"]
  /\ running' = None /\ pos' = pos + 2
  /\ UNCHANGED <<drivers, request, inService>>

\* The function serves its device; the lock is left.
Serve ==
  /\ running # None
  /\ line' = [d \in Drivers |-> IF d = running THEN FALSE ELSE line[d]]
  /\ list' = [list EXCEPT ![pos].lock = "free"]
  /\ running' = None /\ pos' = pos + 1
  /\ UNCHANGED <<drivers, request, inService>>

EndEarly ==
  /\ pos > Len(list) /\ pos # 0
  /\ inService' = inService /\ pos' = 0
  /\ UNCHANGED <<list, drivers, line, request, running>>

\* The end of the list: apic_eoi, or the PIC's.  A level triggered request
\* is there again while a device wants attention.
End ==
  /\ pos > Len(list) /\ pos # 0
  /\ inService' = FALSE /\ pos' = 0
  /\ request' = (request \/ (~Edge /\ \E d \in Drivers : line[d]))
  /\ UNCHANGED <<list, drivers, line, running>>

Driver(d) ==
  \/ Install(d) \/ Link(d) \/ NoMemory(d) \/ Installed(d)
  \/ Uninstall(d) \/ Empty(d) \/ Wait(d) \/ Unlock(d) \/ Leave(d)
Handler == Deliver \/ Try \/ Serve \/ End

Next == Handler \/ \E d \in Drivers : Driver(d) \/ Raise(d)

\* Interrupts are delivered and their handlers return.
Spec == Init /\ [][Next]_vars /\ WF_vars(Handler)

-----------------------------------------------------------------------------
(* Properties. *)

\* irq_uninstall: when it has returned the function does not run and is not
\* called again; what it used may be freed.
QuietAfterUninstall == \A d \in Drivers : pc[d] = "out" => running # d

\* irq_install: a function that is installed is in the list once, and no two
\* drivers have the same entry.
InstalledOnce ==
  \A d \in Drivers : pc[d] = "in" =>
    /\ list[entry[d]].func = d
    /\ Cardinality({i \in DOMAIN list : list[i].func = d}) = 1

\* irq_apic: a device that wants attention is served although entries are
\* skipped when their lock is taken, and although other drivers come and go.
Served == \A d \in Drivers : line[d] ~> ~line[d]
=============================================================================
