-------------------------------- MODULE Pipe --------------------------------
(***************************************************************************)
(* A pipe (vfs/pipe.c), with the loops of file_read and file_write that    *)
(* block on it and the file_decrement_count that closes it                 *)
(* (syscall/file.c).                                                       *)
(*                                                                         *)
(* The ring buffer changes only while shared_data->lock is held.  n_read   *)
(* and n_write move at most Chunk bytes before they release the lock, so   *)
(* one such section is one step here and a large transfer is several.      *)
(* A byte is a record that says which write it belongs to.                 *)
(***************************************************************************)
EXTENDS Naturals, Sequences, FiniteSets

CONSTANTS
  Readers,     \* the tasks that may hold the read end
  Writers,     \* the tasks that may hold the write end
  Size,        \* PIPE_SIZE (4096)
  Chunk,       \* the bytes that are moved at once (512)
  ReadSizes,   \* bound: the sizes of the reads
  WriteSizes,  \* bound: the sizes of the writes
  MaxBytes     \* bound on the bytes that are written

PipeTask == Readers \cup Writers

VARIABLES
  base, start, end,  \* the ring buffer
  count,             \* shared_data->count, the number of open ends
  signal,            \* the state of the manual reset event
  freed,             \* shared_data is deleted
  holds,             \* the tasks that have a file descriptor for their end
  pc,                \* task -> where it is
  nonblock,          \* task -> O_NONBLOCK
  req,               \* task -> requested_size
  size,              \* task -> *size of n_read or n_write
  r,                 \* task -> what n_read or n_write returned
  sum,               \* task -> s of file_read or file_write
  stream,            \* history: the bytes in the order they were written
  received           \* history: the bytes in the order they were read

ring == <<base, start, end>>
call == <<nonblock, req, size, r, sum>>
vars == <<ring, count, signal, freed, holds, pc, call, stream, received>>

Zero == [w |-> "zero", k |-> 0, of |-> 0]
Byte == [w : Writers, k : Nat, of : Nat] \cup {Zero}
Error == {"ok", "DE_EMPTY", "DE_PIPE", "DE_RETRY", "DE_INTERRUPT"}

TypeOK ==
  /\ base \in [0 .. (Size - 1) -> Byte]
  /\ start \in 0 .. (Size - 1) /\ end \in 0 .. (Size - 1)
  /\ count \in 0 .. 2 /\ signal \in BOOLEAN /\ freed \in BOOLEAN
  /\ holds \subseteq PipeTask
  /\ pc \in [PipeTask -> {"idle", "node", "loop", "wait", "close", "free"}]
  /\ nonblock \in [PipeTask -> BOOLEAN]
  /\ req \in [PipeTask -> Nat] /\ size \in [PipeTask -> Nat] /\ sum \in [PipeTask -> Nat]
  /\ \A t \in PipeTask : size[t] <= req[t] \* else DE_UNEXPECTED in file_write
  /\ r \in [PipeTask -> Error]
  /\ stream \in Seq(Byte) /\ received \in Seq(Byte)

\* vfs_pipe and file_pipe: one task of each end has a descriptor.
Init ==
  /\ base = [i \in 0 .. (Size - 1) |-> Zero] /\ start = 0 /\ end = 0
  /\ count = 2 /\ signal = FALSE /\ freed = FALSE
  /\ \E x \in Readers, y \in Writers : holds = {x, y}
  /\ pc = [t \in PipeTask |-> "idle"] /\ nonblock = [t \in PipeTask |-> FALSE]
  /\ req = [t \in PipeTask |-> 0] /\ size = [t \in PipeTask |-> 0]
  /\ r = [t \in PipeTask |-> "ok"] /\ sum = [t \in PipeTask |-> 0]
  /\ stream = <<>> /\ received = <<>>

Used == (Size + end - start) % Size

\* Mutant: the last element is used too, and a full buffer looks empty.
RoomAll == Size - Used

\* One element stays unused: start = new_end means full.
Room == Size - 1 - Used

Least(S) == CHOOSE n \in S : \A m \in S : n <= m

\* The byte at index i, and the first n bytes of the buffer.
At(i) == base[(start + i) % Size]
FirstBytes(n) == [i \in 1 .. n |-> At(i - 1)]
Contents == FirstBytes(Used)

-----------------------------------------------------------------------------
\* file_read or file_write calls n_read or n_write for the first time.
Call(t, n, nb) ==
  /\ pc[t] = "idle" /\ t \in holds
  /\ pc' = [pc EXCEPT ![t] = "node"]
  /\ nonblock' = [nonblock EXCEPT ![t] = nb]
  /\ req' = [req EXCEPT ![t] = n]
  /\ size' = [size EXCEPT ![t] = 0]
  /\ sum' = [sum EXCEPT ![t] = 0]
  /\ r' = [r EXCEPT ![t] = "ok"]
  /\ UNCHANGED <<ring, count, signal, freed, holds, stream, received>>

FileRead(t, n, nb) == t \in Readers /\ n \in ReadSizes /\ Call(t, n, nb)

FileWrite(t, n, nb) ==
  /\ t \in Writers /\ n \in WriteSizes
  /\ Len(stream) + n <= MaxBytes
  /\ \A u \in Writers \ {t} : pc[u] = "idle" \/ Len(stream) + n + req[u] <= MaxBytes
  /\ Call(t, n, nb)

\* n_read or n_write returns to its caller.
NodeReturns(t, error) ==
  /\ pc' = [pc EXCEPT ![t] = "loop"]
  /\ r' = [r EXCEPT ![t] = error]

NodeAgain(t) == UNCHANGED <<pc, r>>

-----------------------------------------------------------------------------
\* Mutant: the event is reset although the other end was closed.
AfterReadReset(empty) == ~empty /\ signal

\* The event after n_read: reset if the buffer is empty, set if an end is closed.
AfterRead(empty) == IF count = 2 THEN signal /\ ~empty ELSE TRUE

(***************************************************************************)
(* One locked section of n_read.  b < 0 says that the buffer was found     *)
(* empty: the section stopped before the requested size and the chunk.     *)
(***************************************************************************)
NodeRead(t) ==
  LET n     == Least({req[t] - size[t], Chunk, Used})
      empty == size[t] + n < req[t] /\ n < Chunk
  IN
  /\ pc[t] = "node" /\ t \in Readers
  /\ base' = [i \in DOMAIN base |->
               IF \E j \in 0 .. (n - 1) : i = (start + j) % Size THEN Zero ELSE base[i]]
  /\ start' = (start + n) % Size
  /\ size' = [size EXCEPT ![t] = @ + n]
  /\ received' = received \o FirstBytes(n)
  /\ signal' = AfterRead(empty)
  /\ IF count # 2 /\ size[t] + n = 0 THEN NodeReturns(t, "DE_EMPTY")
     ELSE IF empty \/ size[t] + n = req[t] THEN NodeReturns(t, "ok")
     ELSE NodeAgain(t)
  /\ UNCHANGED <<end, count, freed, holds, nonblock, req, sum, stream>>

\* The bytes of the buffer that n_write still has to write, ptr on.
Rest(t, n) ==
  [i \in 1 .. n |-> [w |-> t, k |-> sum[t] + size[t] + i, of |-> sum[t] + req[t]]]

\* Mutant: a small write is cut when the buffer has no room for all of it.
CutShortNever(t, n) == FALSE

\* A write of at most a chunk is done as a whole or not at all.
CutShort(t, n) == req[t] <= Chunk /\ n # req[t]

\* One locked section of n_write.
NodeWrite(t) ==
  LET n == Least({req[t] - size[t], Chunk, Room})
      new == Rest(t, n)
  IN
  /\ pc[t] = "node" /\ t \in Writers /\ count = 2
  /\ base' = [i \in DOMAIN base |->
               IF \E j \in 1 .. n : i = (end + j - 1) % Size
               THEN new[CHOOSE j \in 1 .. n : i = (end + j - 1) % Size] ELSE base[i]]
  /\ \/ /\ CutShort(t, n)
        /\ size' = [size EXCEPT ![t] = 0]
        /\ NodeReturns(t, "DE_RETRY")
        /\ UNCHANGED <<end, signal, stream>>
     \/ /\ ~CutShort(t, n)
        /\ end' = (end + n) % Size
        /\ size' = [size EXCEPT ![t] = @ + n]
        /\ signal' = (signal \/ n > 0)
        /\ stream' = stream \o new
        /\ IF n = 0 \/ size[t] + n = req[t] THEN NodeReturns(t, "ok") ELSE NodeAgain(t)
  /\ UNCHANGED <<start, count, freed, holds, nonblock, req, sum, received>>

\* n_write, when the read end is closed.
NodeWriteClosed(t) ==
  /\ pc[t] = "node" /\ t \in Writers /\ count # 2
  /\ NodeReturns(t, "DE_PIPE")
  /\ UNCHANGED <<ring, count, signal, freed, holds, nonblock, req, size, sum,
                 stream, received>>

-----------------------------------------------------------------------------
Return(t, error) ==
  /\ pc' = [pc EXCEPT ![t] = "idle"]
  /\ r' = [r EXCEPT ![t] = error]
  /\ sum' = [sum EXCEPT ![t] = @ + size[t]]
  /\ size' = [size EXCEPT ![t] = 0]
  /\ req' = [req EXCEPT ![t] = 0]
  /\ UNCHANGED <<ring, count, signal, freed, holds, nonblock, stream, received>>

\* The call is complete: bytes were read, or all of them written.
Complete(t) ==
  IF t \in Readers THEN size[t] # 0 ELSE size[t] = req[t]

ReturnComplete(t) == pc[t] = "loop" /\ Complete(t) /\ Return(t, r[t])

\* file_read: DE_EMPTY is the end of the file.
ReturnEof(t) ==
  /\ pc[t] = "loop" /\ t \in Readers /\ ~Complete(t) /\ r[t] = "DE_EMPTY"
  /\ Return(t, "ok")

\* Mutant: an error is dropped like DE_RETRY.
FatalNever(t) == FALSE

\* detect_interrupt: DE_RETRY is dropped, DE_PIPE is returned (with SIGPIPE).
Fatal(t) == r[t] \notin {"ok", "DE_RETRY"}

Incomplete(t) == pc[t] = "loop" /\ ~Complete(t) /\ r[t] # "DE_EMPTY"

ReturnNonblock(t) == Incomplete(t) /\ nonblock[t] /\ Return(t, r[t])

ReturnError(t) ==
  Incomplete(t) /\ ~nonblock[t] /\ Fatal(t) /\ Return(t, r[t])

Blocks(t) == Incomplete(t) /\ ~nonblock[t] /\ ~Fatal(t)

\* task_signaled: a signal may have been sent at any time.
ReturnInterrupt(t) == Blocks(t) /\ Return(t, "DE_INTERRUPT")

\* file_read waits for the event.
ReadWait(t) ==
  /\ t \in Readers /\ Blocks(t)
  /\ pc' = [pc EXCEPT ![t] = "wait"]
  /\ UNCHANGED <<ring, count, signal, freed, holds, call, stream, received>>

\* event_wait returns: the event is set, or 500 ticks have passed.
ReadAgain(t) ==
  /\ pc[t] = "wait"
  /\ pc' = [pc EXCEPT ![t] = "node"]
  /\ UNCHANGED <<ring, count, signal, freed, holds, call, stream, received>>

\* Mutant: the requested size is not reduced by what was written.
AdvanceWhole(t) == UNCHANGED req /\ sum' = [sum EXCEPT ![t] = @ + size[t]]

\* requested_size, ptr and s advance by *size.
Advance(t) ==
  /\ req' = [req EXCEPT ![t] = @ - size[t]]
  /\ sum' = [sum EXCEPT ![t] = @ + size[t]]

\* file_write yields if nothing was written, and calls n_write again.
WriteAgain(t) ==
  /\ t \in Writers /\ Blocks(t)
  /\ Advance(t)
  /\ size' = [size EXCEPT ![t] = 0]
  /\ pc' = [pc EXCEPT ![t] = "node"]
  /\ UNCHANGED <<ring, count, signal, freed, holds, nonblock, r, stream, received>>

-----------------------------------------------------------------------------
Ends(t) == IF t \in Readers THEN Readers ELSE Writers

\* fd_clone_func: a new task shares the file table entry.
Clone(t, u) ==
  /\ t \in holds /\ u \in Ends(t) \ holds
  /\ pc[t] = "idle" /\ pc[u] = "idle"
  /\ holds' = holds \cup {u}
  /\ UNCHANGED <<ring, count, signal, freed, pc, call, stream, received>>

\* Mutant: the node is released although other tasks share the entry.
LastAlways(t) == TRUE

\* fte->count reaches 0.
Last(t) == holds \cap Ends(t) = {t}

\* file_decrement_count.
Close(t) ==
  /\ t \in holds /\ pc[t] = "idle"
  /\ holds' = holds \ {t}
  /\ pc' = [pc EXCEPT ![t] = IF Last(t) THEN "close" ELSE "idle"]
  /\ UNCHANGED <<ring, count, signal, freed, call, stream, received>>

\* Mutant: the end is closed without a signal.
AfterReleaseSilent == signal

\* n_release signals the event.
AfterRelease == TRUE

Release(t) ==
  /\ pc[t] = "close"
  /\ count' = count - 1
  /\ signal' = AfterRelease
  /\ pc' = [pc EXCEPT ![t] = IF count' = 0 THEN "free" ELSE "idle"]
  /\ UNCHANGED <<ring, freed, holds, call, stream, received>>

\* The last n_release deletes the event and the shared data.
Free(t) ==
  /\ pc[t] = "free"
  /\ freed' = TRUE
  /\ pc' = [pc EXCEPT ![t] = "idle"]
  /\ UNCHANGED <<ring, count, signal, holds, call, stream, received>>

-----------------------------------------------------------------------------
CallStep(t) ==
  \/ NodeRead(t) \/ NodeWrite(t) \/ NodeWriteClosed(t)
  \/ ReturnComplete(t) \/ ReturnEof(t) \/ ReturnNonblock(t) \/ ReturnError(t)
  \/ ReturnInterrupt(t) \/ ReadWait(t) \/ ReadAgain(t) \/ WriteAgain(t)
  \/ Release(t) \/ Free(t)

Next ==
  \E t \in PipeTask :
    \/ CallStep(t) \/ Close(t)
    \/ \E u \in PipeTask : Clone(t, u)
    \/ \E n \in ReadSizes \cup WriteSizes, nb \in BOOLEAN :
         FileRead(t, n, nb) \/ FileWrite(t, n, nb)

\* A task inside a call is scheduled again and again.
Spec == Init /\ [][Next]_vars /\ \A t \in PipeTask : WF_vars(CallStep(t))

-----------------------------------------------------------------------------
(***************************************************************************)
(* The pipe is first in, first out, and loses, repeats and invents no      *)
(* byte: what was written is what was read and then what is in the ring    *)
(* buffer, also after a write was rolled back (n_read, n_write).           *)
(***************************************************************************)
Fifo == stream = received \o Contents

(***************************************************************************)
(* The bytes of a write of at most a chunk are never separated by bytes of *)
(* another write, and never written in part (the rollback in n_write).     *)
(***************************************************************************)
SmallWritesWhole ==
  \A i \in DOMAIN stream :
    stream[i].of <= Chunk /\ stream[i].k < stream[i].of =>
      /\ i + 1 \in DOMAIN stream
      /\ stream[i + 1] = [stream[i] EXCEPT !.k = @ + 1]

(***************************************************************************)
(* The bytes of a writer arrive in its order and none twice, although a    *)
(* large write is cut and continued (file_write): a byte follows its       *)
(* predecessor of the same write, or begins a write.                       *)
(***************************************************************************)
WriterInOrder ==
  \A j \in DOMAIN stream :
    LET before == {i \in 1 .. (j - 1) : stream[i].w = stream[j].w}
        last   == stream[CHOOSE i \in before : \A h \in before : h <= i]
    IN  \/ stream[j].k = 1
        \/ before # {} /\ last.k + 1 = stream[j].k /\ last.of = stream[j].of

(***************************************************************************)
(* A reader that should go on is not left waiting: while there is a byte   *)
(* to read or an end is closed, the event is set (event_reset in n_read,   *)
(* event_signal in n_write and n_release).                                 *)
(***************************************************************************)
ReadyIsSignalled == Used > 0 \/ count # 2 => signal

(***************************************************************************)
(* The end of the file is reported to a read that asks for bytes only when *)
(* no writer is left and all that was ever written has been read (n_read,  *)
(* file_read).                                                             *)
(***************************************************************************)
EofIsFinal ==
  \A t \in PipeTask : ReturnEof(t) /\ req[t] > 0 => holds \cap Writers = {} /\ received = stream

(***************************************************************************)
(* Nobody is inside n_read or n_write, or can call them again, when        *)
(* n_release frees the shared data.                                        *)
(***************************************************************************)
FreedUnused ==
  freed => holds = {} /\ \A t \in PipeTask : pc[t] = "idle"

(***************************************************************************)
(* When the other end is closed, every blocked read and write returns      *)
(* (DE_EMPTY, DE_PIPE; file_read, file_write).                             *)
(***************************************************************************)
ClosedUnblocks ==
  \A t \in PipeTask : count = 1 /\ pc[t] \in {"node", "loop", "wait"} ~> pc[t] = "idle"

=============================================================================
