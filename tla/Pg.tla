--------------------------------- MODULE Pg ---------------------------------
(***************************************************************************)
(* Address spaces of tasks (base/pg.c): pg_create, pg_delete, the alternate *)
(* space of an exec, pg_map_user, pg_unmap_user, pg_protect_user, the      *)
(* checks of user addresses, pg_sync_arctic, and the sections in which a   *)
(* task runs with the tables of the kernel.                                *)
(*                                                                         *)
(* A space has one root, page tables for groups of pages and an entry for  *)
(* each page; the levels between root and page table of the 64-bit build   *)
(* are left out.  Frames come from a pool that other tasks use as well.    *)
(* An entry of the 64-bit build has the no-execute bit above the address.  *)
(***************************************************************************)
EXTENDS Naturals, FiniteSets

CONSTANTS
  Frames,     \* the frames of the pool
  MaxPage,    \* pages of a space that are used, from 1 on
  PerTable,   \* pages of a page table
  Stack,      \* pages in the range of the stack
  Types       \* types of mappings: subsets of {"readonly", "noexec", "blocked", "arctic"}

None == "none"
Kernel == "kernel"   \* pg_kernel
Page == 1 .. MaxPage
Tables == {(p - 1) \div PerTable : p \in Page}
Table(p) == (p - 1) \div PerTable

NoEntry == [frame |-> None, bits |-> {}]
NoSpace == [root |-> None, tables |-> [t \in Tables |-> None], entries |-> [p \in Page |-> NoEntry]]
Bits == {"present", "write", "noexec", "arctic"}

VARIABLES
  free,     \* frames of the pool
  lost,     \* history: frames that mm_free_page was not given back
  space,    \* pg_cr3
  alt,      \* pg_alt_cr3
  memory,   \* pg_user_memory, in pages
  cr3,      \* current->cr3
  cpu,      \* the register
  state,    \* pg_state
  pc,       \* where the task is
  goal,     \* where it is in the section it enters
  todo,     \* the pages of the range still to do
  type,     \* what they are done with
  checked   \* history: the range and the mode of the last check that said yes

spaces == <<free, lost, space, alt, memory>>
run == <<cr3, cpu, state>>
work == <<pc, goal, todo, type, checked>>
vars == <<spaces, run, work>>

Entries == [frame : Frames \cup {None}, bits : SUBSET Bits]

TypeOK ==
  /\ free \subseteq Frames /\ lost \subseteq Frames
  /\ space.root \in Frames \cup {None} /\ alt.root \in Frames \cup {None}
  /\ \A s \in {space, alt} : \A p \in Page : s.entries[p] \in Entries
  /\ memory \in 0 .. 2 * MaxPage
  /\ cr3 \in Frames \cup {Kernel} /\ cpu \in Frames \cup {Kernel}
  /\ state \in 0 .. 1
  /\ pc \in {"user", "enter", "map", "check", "leave"}
  /\ todo \subseteq Page

Init ==
  /\ free = Frames /\ lost = {} /\ space = NoSpace /\ alt = NoSpace /\ memory = 0
  /\ cr3 = Kernel /\ cpu = Kernel /\ state = 0
  /\ pc = "user" /\ goal = "map" /\ todo = {} /\ type = {} /\ checked = [pages |-> {}, write |-> FALSE]

-----------------------------------------------------------------------------
(* Frames of a space, and the space without its user pages. *)

Used(s) ==
  ({s.root} \cup {s.tables[t] : t \in Tables} \cup {s.entries[p].frame : p \in Page}) \ {None}

Mapped(s) == {p \in Page : s.entries[p].frame # None}

\* mm_alloc_page takes one frame of the pool.  The frames are alike, so it
\* does not matter which.
First(pool) == IF pool = {} THEN {} ELSE {CHOOSE f \in pool : TRUE}

Stays(s, p) == "arctic" \in s.entries[p].bits

\* pg_delete_cr3 with sync_arctic: the arctic pages stay, as ordinary ones.
Synced(s) ==
  LET e == [p \in Page |-> IF Stays(s, p)
                           THEN [s.entries[p] EXCEPT !.bits = @ \ {"arctic"}]
                           ELSE NoEntry]
      stays == {Table(p) : p \in {p \in Page : e[p] # NoEntry}}
  IN [s EXCEPT !.entries = e,
               !.tables = [t \in Tables |-> IF t \in stays THEN s.tables[t] ELSE None]]

Atomic == pc = "user" /\ cpu # Kernel

\* pg_enter_kernel and pg_leave_kernel around something that does not wait.
Section == cr3' = space'.root /\ cpu' = space'.root /\ UNCHANGED state

-----------------------------------------------------------------------------
(* Spaces. *)

\* pg_create, in a new task.
Create ==
  /\ pc = "user" /\ space = NoSpace /\ state = 0
  /\ \E f \in First(free) :
       /\ free' = free \ {f}
       /\ space' = [NoSpace EXCEPT !.root = f]
       /\ cr3' = f /\ cpu' = f
  /\ checked' = [pages |-> {}, write |-> FALSE]
  /\ UNCHANGED <<lost, alt, memory, state, pc, goal, todo, type>>

\* Delete that leaves the tables in the register.
DeleteInUse ==
  /\ Atomic /\ state = 0
  /\ free' = free \cup Used(space) \cup Used(alt)
  /\ space' = NoSpace /\ alt' = NoSpace
  /\ memory' = 0
  /\ checked' = [pages |-> {}, write |-> FALSE]
  /\ UNCHANGED <<lost, run, pc, goal, todo, type>>

\* pg_delete, when the task ends.
Delete ==
  /\ Atomic /\ state = 0
  /\ cr3' = Kernel /\ cpu' = Kernel
  /\ free' = free \cup Used(space) \cup Used(alt)
  /\ space' = NoSpace /\ alt' = NoSpace
  /\ memory' = 0
  /\ checked' = [pages |-> {}, write |-> FALSE]
  /\ UNCHANGED <<lost, state, pc, goal, todo, type>>

\* pg_alt_create: the new space is used, the old one is kept.
AltCreate ==
  /\ Atomic /\ alt = NoSpace /\ state = 0
  /\ \E f \in First(free) :
       /\ free' = free \ {f}
       /\ space' = [NoSpace EXCEPT !.root = f]
       /\ alt' = space
       /\ cr3' = f /\ cpu' = f
  /\ checked' = [pages |-> {}, write |-> FALSE]
  /\ UNCHANGED <<lost, memory, state, pc, goal, todo, type>>

\* pg_alt_accept: the old space goes.
AltAccept ==
  /\ Atomic /\ alt # NoSpace /\ space.root = cpu
  /\ free' = free \cup Used(alt)
  /\ memory' = memory - Cardinality(Mapped(alt))
  /\ alt' = NoSpace /\ UNCHANGED space
  /\ Section
  /\ UNCHANGED <<lost, work>>

\* pg_alt_delete: the new space goes.
AltDelete ==
  /\ Atomic /\ alt # NoSpace /\ space.root = cpu
  /\ free' = free \cup Used(space)
  /\ memory' = memory - Cardinality(Mapped(space))
  /\ space' = alt /\ alt' = NoSpace
  /\ Section
  /\ checked' = [pages |-> {}, write |-> FALSE]
  /\ UNCHANGED <<lost, pc, goal, todo, type>>

\* pg_sync_arctic.
SyncArctic ==
  /\ Atomic
  /\ space' = Synced(space)
  /\ free' = free \cup (Used(space) \ Used(space'))
  /\ memory' = memory - (Cardinality(Mapped(space)) - Cardinality(Mapped(space')))
  /\ Section
  /\ checked' = [pages |-> {}, write |-> FALSE]
  /\ UNCHANGED <<lost, alt, pc, goal, todo, type>>

-----------------------------------------------------------------------------
(* Sections.  Entering one has two steps: current->cr3, and the rest.       *)

Enter(p) ==
  /\ Atomic
  /\ cr3' = Kernel
  /\ pc' = "enter" /\ goal' = p
  /\ UNCHANGED <<spaces, cpu, state>>

Entered ==
  /\ pc = "enter"
  /\ cpu' = Kernel /\ state' = state + 1
  /\ pc' = goal
  /\ UNCHANGED <<spaces, cr3, goal, todo, type, checked>>

\* Leave that forgets to count down.
LeaveUncounted ==
  /\ pc = "leave"
  /\ pc' = "user"
  /\ cr3' = space.root /\ cpu' = space.root
  /\ UNCHANGED <<spaces, state, goal, todo, type, checked>>

Leave ==
  /\ pc = "leave"
  /\ pc' = "user"
  /\ state' = state - 1
  /\ IF state = 1 /\ space.root # None
     THEN cr3' = space.root /\ cpu' = space.root
     ELSE UNCHANGED <<cr3, cpu>>
  /\ UNCHANGED <<spaces, goal, todo, type, checked>>

\* An interrupt: its handler enters a section of its own and leaves it.
\* Between the two steps it leaves the tables of the user in current->cr3.
Interrupt ==
  /\ pc = "enter" /\ state = 0
  /\ cr3' = space.root /\ cpu' = space.root
  /\ UNCHANGED <<spaces, state, work>>

\* The task is switched away and back, with the tables of current->cr3.
Switch ==
  /\ cpu # cr3
  /\ cpu' = cr3
  /\ UNCHANGED <<spaces, cr3, state, work>>

-----------------------------------------------------------------------------
(* Mapping and unmapping. *)

Range(lo, hi) == {p \in Page : lo <= p /\ p <= hi}

\* pg_map_user, called for a range, and by the handler of page faults for a
\* page of the stack.
Map(lo, hi, t) ==
  /\ Enter("map")
  /\ todo' = Range(lo, hi) /\ type' = t
  /\ checked' = [pages |-> {}, write |-> FALSE]

BitsOf(t) ==
  (Bits \ (IF "blocked" \in t THEN {"present"} ELSE {}))
    \ ((IF "readonly" \in t THEN {"write"} ELSE {})
       \cup (IF "noexec" \in t THEN {} ELSE {"noexec"})
       \cup (IF "arctic" \in t THEN {} ELSE {"arctic"}))

\* The frame an entry that is overwritten gives back.
Freed(e) == {e.frame} \ {None}

\* MapVirtual that does not see the page that was there.
MapVirtualOver(p, f, t) ==
  LET needs == space.tables[Table(p)] = None
  IN \E g \in (IF needs THEN First(free \ {f}) ELSE {space.tables[Table(p)]}) :
       /\ space' = [space EXCEPT !.tables[Table(p)] = g, !.entries[p] = [frame |-> f, bits |-> BitsOf(t)]]
       /\ free' = free \ {f, g}
       /\ memory' = memory + 1

\* MapVirtual that takes the table of a page from the pool twice.
MapVirtualTwice(p, f, t) ==
  LET needs == space.tables[Table(p)] = None
  IN \E g \in (IF needs THEN First(free \ {f}) ELSE {space.tables[Table(p)]}) :
       /\ space' = [space EXCEPT !.tables[Table(p)] = g, !.entries[p] = [frame |-> f, bits |-> BitsOf(t)]]
       /\ free' = (free \ {f}) \cup Freed(space.entries[p])
       /\ memory' = memory + 1

\* pg_map_virtual with the frame f: a page table when there is none; the
\* page that was there is freed.
MapVirtual(p, f, t) ==
  LET needs == space.tables[Table(p)] = None
      old == space.entries[p]
  IN \/ /\ needs /\ \E g \in First(free \ {f}) :
             /\ space' = [space EXCEPT !.tables[Table(p)] = g, !.entries[p] = [frame |-> f, bits |-> BitsOf(t)]]
             /\ free' = free \ {f, g}
        /\ memory' = memory + 1
     \/ /\ ~needs
        /\ space' = [space EXCEPT !.entries[p] = [frame |-> f, bits |-> BitsOf(t)]]
        /\ free' = (free \ {f}) \cup Freed(old)
        /\ memory' = IF old = NoEntry THEN memory + 1 ELSE memory

\* One page, from the end of the range on.
MapPage ==
  /\ pc = "map" /\ todo # {}
  /\ LET p == CHOOSE p \in todo : \A q \in todo : q <= p IN
     /\ \E f \in First(free) : MapVirtual(p, f, type)
     /\ todo' = todo \ {p}
  /\ UNCHANGED <<lost, alt, run, pc, goal, type, checked>>

\* The range is done, or there is no frame for a page or its table: what
\* was mapped stays.
MapEnd ==
  /\ pc = "map"
  /\ \/ todo = {}
     \/ Cardinality(free) <= 1
  /\ pc' = "leave" /\ todo' = {}
  /\ UNCHANGED <<spaces, run, goal, type, checked>>

\* pg_unmap_user takes the address from the entry with everything above the
\* lowest 12 bits; mm_free_page ignores a frame out of its range.
GivesBack(e) == "noexec" \notin e.bits

\* pg_unmap_user.
Unmap(lo, hi) ==
  /\ Atomic
  /\ LET gone == Range(lo, hi) \cap Mapped(space) IN
     /\ space' = [space EXCEPT !.entries = [p \in Page |-> IF p \in gone THEN NoEntry ELSE space.entries[p]]]
     /\ free' = free \cup {space.entries[p].frame : p \in {p \in gone : GivesBack(space.entries[p])}}
     /\ lost' = lost \cup {space.entries[p].frame : p \in {p \in gone : ~GivesBack(space.entries[p])}}
     /\ memory' = memory - Cardinality(gone)
  /\ Section
  /\ checked' = [pages |-> {}, write |-> FALSE]
  /\ UNCHANGED <<alt, pc, goal, todo, type>>

\* pg_protect_user.
Protect(lo, hi, t) ==
  /\ Atomic
  /\ space' = [space EXCEPT !.entries = [p \in Page |->
       IF p \in Range(lo, hi) \cap Mapped(space)
       THEN [space.entries[p] EXCEPT !.bits = (@ \cap {"arctic"}) \cup (BitsOf(t) \ {"arctic"})]
       ELSE space.entries[p]]]
  /\ Section
  /\ checked' = [pages |-> {}, write |-> FALSE]
  /\ UNCHANGED <<free, lost, alt, memory, pc, goal, todo, type>>

-----------------------------------------------------------------------------
(* pg_check_user_read and pg_check_user_write. *)

Check(lo, hi, write) ==
  /\ Enter("check")
  /\ todo' = Range(lo, hi) /\ type' = IF write THEN {"write"} ELSE {}
  /\ checked' = [pages |-> {}, write |-> write]

AllowedAny(e) == "present" \in e.bits

Allowed(e) == "present" \in e.bits /\ ("write" \in type => "write" \in e.bits)

\* A page that is there and allows it; a page of the stack that is not
\* there is mapped; everything else ends the check with an error.
CheckPage ==
  /\ pc = "check" /\ todo # {}
  /\ LET p == CHOOSE p \in todo : \A q \in todo : p <= q
         e == space.entries[p]
     IN \/ /\ Allowed(e)
           /\ todo' = todo \ {p}
           /\ checked' = [checked EXCEPT !.pages = @ \cup {p}]
           /\ UNCHANGED <<spaces, pc>>
        \/ /\ e = NoEntry /\ p \in Stack
           /\ \E f \in First(free) : MapVirtual(p, f, {"noexec"})
           /\ UNCHANGED <<lost, alt, pc, todo, checked>>
        \/ /\ ~Allowed(e) /\ (e # NoEntry \/ p \notin Stack \/ Cardinality(free) <= 1)
           /\ pc' = "leave" /\ todo' = {}
           /\ checked' = [pages |-> {}, write |-> FALSE]
           /\ UNCHANGED spaces
  /\ UNCHANGED <<run, goal, type>>

CheckEnd ==
  /\ pc = "check" /\ todo = {}
  /\ pc' = "leave"
  /\ UNCHANGED <<spaces, run, goal, todo, type, checked>>

\* Other tasks take frames and give them back.
Others ==
  \/ \E f \in First(free) : free' = free \ {f} /\ UNCHANGED <<lost, space, alt, memory, run, work>>
  \/ \E f \in Frames \ (free \cup lost \cup Used(space) \cup Used(alt)) :
       free' = free \cup {f} /\ UNCHANGED <<lost, space, alt, memory, run, work>>

Next ==
  \/ Create \/ Delete \/ AltCreate \/ AltAccept \/ AltDelete \/ SyncArctic
  \/ Entered \/ Leave \/ Interrupt \/ Switch
  \/ \E lo, hi \in Page : lo <= hi /\
       (\/ \E t \in Types : Map(lo, hi, t) \/ Protect(lo, hi, t)
        \/ \E w \in BOOLEAN : Check(lo, hi, w)
        \/ Unmap(lo, hi))
  \/ MapPage \/ MapEnd \/ CheckPage \/ CheckEnd
  \/ Others

Spec == Init /\ [][Next]_vars

-----------------------------------------------------------------------------
(* Properties. *)

\* pg_map_virtual, pg_delete_cr3: a frame has one owner: the pool, one place
\* in one space, or the frames munmap has lost.
OneOwner ==
  /\ \A s \in {space, alt} :
       /\ s.root # None => s.root \notin {s.tables[t] : t \in Tables} \cup {s.entries[p].frame : p \in Page}
       /\ \A p, q \in Page : p # q /\ s.entries[p].frame = s.entries[q].frame => s.entries[p] = NoEntry
       /\ \A t \in Tables, p \in Page : s.tables[t] # None => s.tables[t] # s.entries[p].frame
  /\ free \cap (Used(space) \cup Used(alt) \cup lost) = {}
  /\ Used(space) \cap Used(alt) = {} /\ lost \cap (Used(space) \cup Used(alt)) = {}

\* An entry is in a page table that is there; pg_user_memory counts the
\* entries of both spaces.
MemoryCounted ==
  /\ \A p \in Page : space.entries[p] # NoEntry => space.tables[Table(p)] # None
  /\ memory = Cardinality(Mapped(space)) + Cardinality(Mapped(alt))

\* The register never has the root of a space that was deleted, not even
\* when an interrupt or a switch changes it in a section.
RegisterValid == cpu = Kernel \/ cpu = space.root

\* pg_check_user: when a check of a range has said yes every page of it is
\* there, and writable when that was asked, until the task changes it.
CheckedStays ==
  \A p \in checked.pages :
    /\ "present" \in space.entries[p].bits
    /\ checked.write => "write" \in space.entries[p].bits

\* munmap: "Unmap pages of memory": frames that are unmapped can be used
\* again.
Reclaimed == lost = {}
=============================================================================
