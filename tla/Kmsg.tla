-------------------------------- MODULE Kmsg --------------------------------
(***************************************************************************)
(* Kernel messages: the ring of records (base/kmsg.c), the device          *)
(* /dev/kmsg (misc/kmsg.c) and the loop that reads it (call_n_read of      *)
(* syscall/file.c).                                                        *)
(*                                                                         *)
(* A record is a tab, its number, its text and a newline.  The writer      *)
(* holds the lock while it writes character by character; a reader looks   *)
(* for its record without the lock and checks it again under the lock.     *)
(* A number is one cell of the ring, and so is a character of the text,    *)
(* which carries the number of the record it was written for.              *)
(***************************************************************************)
EXTENDS Naturals, Sequences

CONSTANTS
  Readers,     \* tasks that read, each through an entry of its own
  Size,        \* kernel->kmsg.size
  MaxText,     \* bound on the length of the text
  Window,      \* the 1024 of call_n_read
  MaxBuffer,   \* the size of a reader's buffer
  MaxRecords   \* bound on the messages

None == Size \* no index

Nul == [c |-> "nul", n |-> 0]
Tab == [c |-> "tab", n |-> 0]
Newline == [c |-> "newline", n |-> 0]
Number(k) == [c |-> "number", n |-> k]
Text(k) == [c |-> "text", n |-> k]

Cells == {Nul, Tab, Newline} \cup {Number(k) : k \in 0 .. MaxRecords} \cup {Text(k) : k \in 0 .. MaxRecords}

VARIABLES
  buffer,   \* the ring
  state,    \* the index of the next character
  counter,  \* the number of the next record
  lock,     \* kmsg.lock: "free", "writer" or a reader
  left,     \* what the writer has still to write
  findI,    \* kmsg_find_i
  pc,       \* where each reader is
  offset,   \* fte->offset of each reader
  start,    \* where the search began
  at,       \* the index the search looks at; what it found
  got,      \* what the last read returned
  texts,    \* history: the length of the text of each record
  taken     \* history: the records each reader has got

ring == <<buffer, state, counter, left, texts>>
reader == <<findI, pc, offset, start, at, got, taken>>
vars == <<ring, lock, reader>>

Record(k, n) == <<Tab, Number(k)>> \o [i \in 1 .. n |-> Text(k)] \o <<Newline>>

TypeOK ==
  /\ buffer \in [0 .. Size - 1 -> Cells]
  /\ state \in 0 .. Size - 1
  /\ counter \in 0 .. MaxRecords
  /\ lock \in {"free", "writer"} \cup Readers
  /\ left \in Seq(Cells) /\ Len(left) <= MaxText + 3
  /\ findI \in 0 .. Size - 1
  /\ pc \in [Readers -> {"idle", "scan", "number", "next", "read", "placeholder"}]
  /\ offset \in [Readers -> Nat]
  /\ start \in [Readers -> 0 .. Size - 1] /\ at \in [Readers -> 0 .. Size - 1]
  /\ texts \in Seq(0 .. MaxText)
  /\ taken \in [Readers -> SUBSET (0 .. MaxRecords)]

Init ==
  /\ buffer = [i \in 0 .. Size - 1 |-> Nul]
  /\ state = 0 /\ counter = 0 /\ lock = "free" /\ left = <<>> /\ findI = 0
  /\ pc = [r \in Readers |-> "idle"]
  /\ offset = [r \in Readers |-> 0]
  /\ start = [r \in Readers |-> 0] /\ at = [r \in Readers |-> 0]
  /\ got = [r \in Readers |-> [result |-> "none", text |-> <<>>]]
  /\ texts = <<>>
  /\ taken = [r \in Readers |-> {}]

IncLate(i) == IF i < Size THEN i + 1 ELSE 0

Inc(i) == IF i + 1 < Size THEN i + 1 ELSE 0

-----------------------------------------------------------------------------
(* kmsg_write. *)

\* The lock is taken; an empty message would write nothing.
Begin ==
  /\ lock = "free" /\ counter < MaxRecords
  /\ lock' = "writer"
  /\ \E n \in 1 .. MaxText : left' = Record(counter, n) /\ texts' = Append(texts, n)
  /\ UNCHANGED <<buffer, state, counter, reader>>

\* kmsg_write_char_locked.
WriteChar ==
  /\ lock = "writer" /\ left /= <<>>
  /\ buffer' = [buffer EXCEPT ![state] = Head(left)]
  /\ state' = Inc(state)
  /\ left' = Tail(left)
  /\ UNCHANGED <<counter, lock, texts, reader>>

\* The NUL after the record, the counter, the lock is left.
End ==
  /\ lock = "writer" /\ left = <<>>
  /\ buffer' = [buffer EXCEPT ![state] = Nul]
  /\ counter' = counter + 1
  /\ lock' = "free"
  /\ UNCHANGED <<state, left, texts, reader>>

-----------------------------------------------------------------------------
(* n_read, called by call_n_read with the entry locked. *)

\* The counter under the lock; nothing is returned for a record to come.
Call(r) ==
  /\ pc[r] = "idle" /\ lock = "free"
  /\ IF offset[r] >= counter
     THEN /\ got' = [got EXCEPT ![r] = [result |-> "empty", text |-> <<>>]]
          /\ UNCHANGED <<pc, start, at>>
     ELSE /\ start' = [start EXCEPT ![r] = findI] /\ at' = [at EXCEPT ![r] = findI]
          /\ pc' = [pc EXCEPT ![r] = "scan"]
          /\ UNCHANGED got
  /\ UNCHANGED <<ring, lock, findI, offset, taken>>

\* kmsg_find: one character, without the lock.
Scan(r) ==
  /\ pc[r] = "scan"
  /\ pc' = [pc EXCEPT ![r] = IF buffer[at[r]] = Tab THEN "number" ELSE "next"]
  /\ UNCHANGED <<ring, lock, findI, offset, start, at, got, taken>>

\* kmsg_check, without the lock: the number after the tab.
Check(r) ==
  /\ pc[r] = "number"
  /\ pc' = [pc EXCEPT ![r] = IF buffer[Inc(at[r])] = Number(offset[r]) THEN "read" ELSE "next"]
  /\ UNCHANGED <<ring, lock, findI, offset, start, at, got, taken>>

\* The next index, until the search is where it began.
Advance(r) ==
  /\ pc[r] = "next"
  /\ at' = [at EXCEPT ![r] = Inc(@)]
  /\ pc' = [pc EXCEPT ![r] = IF Inc(at[r]) = start[r] THEN "placeholder" ELSE "scan"]
  /\ UNCHANGED <<ring, lock, findI, offset, start, got, taken>>

ValidAny(i, k) == TRUE

\* kmsg_check under the lock.
Valid(i, k) == buffer[i] = Tab /\ buffer[Inc(i)] = Number(k)

\* What kmsg_read copies from index i: up to the newline, an unexpected
\* character or the end of the reader's buffer.
CellAt(i, j) == buffer[(i + j) % Size]

Stops(i, j) == CellAt(i, j).c \in {"newline", "tab", "nul"}

Copied(i) ==
  LET stops == {j \in 1 .. MaxBuffer : Stops(i, j)}
      n == CHOOSE j \in stops : \A k \in stops : j <= k
  IN IF stops = {}
     THEN [result |-> "DE_BUFFER", text |-> <<>>]
     ELSE IF CellAt(i, n) # Newline
          THEN [result |-> "DE_UNEXPECTED", text |-> <<>>]
          ELSE [result |-> "ok", text |-> [j \in 1 .. n |-> CellAt(i, j)]]

\* The second part of n_read: the record is checked again and copied under
\* the lock; the search starts again when it has gone.  call_n_read counts
\* a record that was read.
Read(r) ==
  /\ pc[r] = "read" /\ lock = "free"
  /\ IF ~Valid(at[r], offset[r])
     THEN /\ pc' = [pc EXCEPT ![r] = "scan"]
          /\ at' = [at EXCEPT ![r] = start[r]]
          /\ UNCHANGED <<findI, offset, got, taken>>
     ELSE LET c == Copied(at[r]) IN
          /\ got' = [got EXCEPT ![r] = c]
          /\ pc' = [pc EXCEPT ![r] = "idle"]
          /\ IF c.result = "ok"
             THEN /\ findI' = (at[r] + Len(c.text)) % Size
                  /\ offset' = [offset EXCEPT ![r] = @ + 1]
                  /\ taken' = [taken EXCEPT ![r] = @ \cup {offset[r]}]
             ELSE UNCHANGED <<findI, offset, taken>>
          /\ UNCHANGED at
  /\ UNCHANGED <<ring, lock, start>>

SkipAll(k) == counter

SkipSame(k) == k

\* The offset after a record that is not in the ring.
Skip(k) == IF k + 1 + Window < counter THEN counter - Window ELSE k + 1

\* call_n_read, DE_PLACEHOLDER: the offset moves on, under the lock.
Placeholder(r) ==
  /\ pc[r] = "placeholder" /\ lock = "free"
  /\ offset' = [offset EXCEPT ![r] = Skip(@)]
  /\ pc' = [pc EXCEPT ![r] = "idle"]
  /\ UNCHANGED <<ring, lock, findI, start, at, got, taken>>

Write == Begin \/ WriteChar \/ End
Reads(r) == Call(r) \/ Scan(r) \/ Check(r) \/ Advance(r) \/ Read(r) \/ Placeholder(r)
Next == Write \/ \E r \in Readers : Reads(r)

\* A processor that holds a spin lock goes on, and a task that is not
\* blocked runs again and again; a lock it waits for is free in between.
Fairness ==
  /\ WF_vars(WriteChar \/ End)
  /\ \A r \in Readers :
       /\ WF_vars(Scan(r) \/ Check(r) \/ Advance(r))
       /\ SF_vars(Call(r)) /\ SF_vars(Read(r)) /\ SF_vars(Placeholder(r))

Spec == Init /\ [][Next]_vars /\ Fairness

-----------------------------------------------------------------------------
(* Properties. *)

\* The record k is in the ring, whole.
InRing(k) ==
  \E i \in 0 .. Size - 1 :
    \A j \in 1 .. texts[k + 1] + 3 : buffer[(i + j - 1) % Size] = Record(k, texts[k + 1])[j]

\* kmsg_read: a read that succeeds returns one record, the whole of it and
\* nothing of another one, although it was found without the lock and the
\* writer goes round the ring; the numbers of a reader's records increase.
WholeRecords ==
  \A r \in Readers : got[r].result = "ok" =>
    \E k \in taken[r] : got[r].text = Tail(Record(k, texts[k + 1]))

\* kmsg_read: DE_UNEXPECTED, a record that is cut off by another one, never
\* happens.
NeverUnexpected == \A r \in Readers : got[r].result # "DE_UNEXPECTED"

\* call_n_read: a record that a reader has passed without getting it had
\* been overwritten, or is older than the window.
SkipsOnlyLost ==
  \A r \in Readers : \A k \in 0 .. counter - 1 :
    /\ k < offset[r]
    /\ k \notin taken[r]
    => ~InRing(k) \/ k + Window < counter

\* A record that is not overwritten is found, so a task that reads again
\* and again has had, in the end, everything that was still there.
CatchesUp == \A r \in Readers : (counter = MaxRecords) ~> (offset[r] = counter)
=============================================================================
