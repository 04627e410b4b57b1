------------------------------- MODULE Stdio -------------------------------
(***************************************************************************)
(* One stream of the C library (arctic/libc/stdio) over one file: the      *)
(* buffer between the program and read(2)/write(2), the three buffering    *)
(* modes, ungetc, positioning, setvbuf, freopen and fclose.                *)
(*                                                                         *)
(* A call that moves several bytes is a sequence of steps, one per byte or *)
(* per system call, so that each read and each write may be short or fail. *)
(* The library has no threads (libc/threads has mutexes only), so one call *)
(* is under way at a time and the stream's mutex is left out.              *)
(*                                                                         *)
(* view and at are the file and the position as the program sees them:     *)
(* every byte the stream accepted is in view, whether or not it has been   *)
(* written.                                                                *)
(***************************************************************************)
EXTENDS Integers, Sequences

CONSTANTS Bytes,      \* byte values, NL among them
          NL,
          None,       \* no byte is pushed back
          BufSiz,     \* BUFSIZ
          MaxLen      \* bound on the file's length

VARIABLES
    held,     \* what an open stream owns
    fd,       \* is _fd an open descriptor
    file,     \* the file's bytes
    off,      \* the descriptor's offset
    mode,     \* _mode: "r", "w" or "rw"
    bmode,    \* _state & 0xFF: "full", "line" or "none"
    size,     \* _buffer_size
    buf,      \* _buffer[0 .. _buffer_end)
    start,    \* _buffer_start
    written,  \* __DANCY_FILE_WRITTEN_BYTES
    pushed,   \* _ungetc
    eof, err, \* _eof and _error
    call,     \* the call under way, or the last one
    view, at  \* the file and the position the program sees

vars == <<held, fd, file, off, mode, bmode, size, buf, start, written, pushed,
          eof, err, call, view, at>>
buffer == <<buf, start, written>>
setup == <<held, fd, mode, bmode, size>>

Resources == <<"struct", "mtx", "buffer", "slot", "fd">>
SeqsTo(n) == UNION {[1..k -> Bytes] : k \in 0..n}
Least(a, b) == IF a < b THEN a ELSE b

\* The bytes between _buffer_start and _buffer_end.
Rest == SubSeq(buf, start + 1, Len(buf))

\* Bytes s put into f at position p; a gap cannot arise here because no
\* position lies beyond the end.
Put(f, p, s) ==
    [i \in 1..(IF p + Len(s) > Len(f) THEN p + Len(s) ELSE Len(f)) |->
        IF i > p /\ i <= p + Len(s) THEN s[i - p] ELSE f[i]]

NoCall == [op |-> "none", busy |-> FALSE, data |-> <<>>, n |-> 0, i |-> 0,
           got |-> <<>>, push |-> None, at |-> 0, view |-> <<>>,
           res |-> "none", tries |-> 0]

Idle == ~call.busy
Done(r) == call' = [call EXCEPT !.busy = FALSE, !.res = r]

\* A call begins: what it is asked to move and where the program stands.
Start(op, data, n) ==
    /\ Idle
    /\ "struct" \in held
    /\ call' = [NoCall EXCEPT !.op = op, !.busy = TRUE, !.data = data, !.n = n,
                              !.push = pushed, !.at = at, !.view = view]

-----------------------------------------------------------------------------
(* Opening *)

\* Mutant: the buffer is not freed when the array is full.
OpenFailsKeeps(i) ==
    LET undone == [struct |-> {},
                   mtx    |-> {"struct"},
                   buffer |-> {"mtx", "struct"},
                   slot   |-> {"mtx", "struct"},
                   fd     |-> {"slot", "buffer", "mtx", "struct"}]
    IN  {Resources[j] : j \in 1..(i - 1)} \ undone[Resources[i]]

\* fopen and fdopen take five things in turn; the one that fails undoes the
\* earlier ones (fclose does it for the last).
OpenFails(i) ==
    LET undone == [struct |-> {},
                   mtx    |-> {"struct"},
                   buffer |-> {"mtx", "struct"},
                   slot   |-> {"buffer", "mtx", "struct"},
                   fd     |-> {"slot", "buffer", "mtx", "struct"}]
    IN  {Resources[j] : j \in 1..(i - 1)} \ undone[Resources[i]]

FopenNone ==
    /\ Idle /\ held = {}
    /\ \E i \in 1..Len(Resources) : held' = OpenFails(i)
    /\ UNCHANGED <<fd, file, off, mode, bmode, size, buffer, pushed, eof, err,
                   call, view, at>>

\* A truncating mode empties the file; the buffer is line buffered.
OpenModes == {[mode |-> "r", trunc |-> FALSE], [mode |-> "rw", trunc |-> FALSE],
              [mode |-> "w", trunc |-> TRUE], [mode |-> "rw", trunc |-> TRUE]}

Fopen ==
    /\ Idle /\ held = {}
    /\ \E m \in OpenModes :
         /\ mode' = m.mode
         /\ file' = IF m.trunc THEN <<>> ELSE file
    /\ held' = {Resources[j] : j \in 1..Len(Resources)}
    /\ fd' = TRUE /\ off' = 0
    /\ bmode' = "line" /\ size' = BufSiz
    /\ buf' = <<>> /\ start' = 0 /\ written' = FALSE
    /\ pushed' = None /\ eof' = FALSE /\ err' = FALSE
    /\ view' = file' /\ at' = 0
    /\ call' = [NoCall EXCEPT !.op = "fopen", !.res = "ok"]

-----------------------------------------------------------------------------
(* __dancy_internal_fflush *)

\* Mutant: a short write is repeated from its beginning.
FlushToAgain(k) ==
    LET f == Put(file, off, SubSeq(Rest, 1, k))
    IN  /\ (~fd) => k = 0
        /\ file' = f
        /\ off' = off + k
        /\ IF k = Len(Rest)
             THEN buf' = <<>> /\ start' = 0 /\ written' = FALSE
             ELSE UNCHANGED <<start, buf, written>>

\* The loop writes what it can; it gives up when the retries are used up
\* (a closed descriptor refuses every write) and then keeps the rest.
FlushTo(k) ==
    LET f == Put(file, off, SubSeq(Rest, 1, k))
    IN  /\ (~fd) => k = 0
        /\ file' = f
        /\ off' = off + k
        /\ IF k = Len(Rest)
             THEN buf' = <<>> /\ start' = 0 /\ written' = FALSE
             ELSE start' = start + k /\ UNCHANGED <<buf, written>>

Flush(fails) ==
    IF ~written
      THEN fails = FALSE /\ UNCHANGED <<file, off, buf, start, written>>
      ELSE \E k \in 0..Len(Rest) : FlushTo(k) /\ fails = (k < Len(Rest))

Fflush ==
    /\ Idle /\ "struct" \in held
    /\ \E fails \in BOOLEAN :
         /\ Flush(fails)
         /\ err' = (err \/ fails)
         /\ call' = [NoCall EXCEPT !.op = "fflush", !.res = IF fails THEN "eof" ELSE "ok"]
    /\ UNCHANGED <<setup, pushed, eof, view, at>>

-----------------------------------------------------------------------------
(* Writing *)

CanWrite == mode # "r" /\ (start # 0 \/ buf # <<>> => written)

\* The checks every writing call makes first.
Refused ==
    /\ ~CanWrite
    /\ err' = TRUE
    /\ Done("eof")
    /\ UNCHANGED <<setup, file, off, buffer, pushed, eof, view, at>>

Data == {s \in SeqsTo(2) : s # <<>>}

FwriteBegin ==
    /\ \E d \in Data : Start("write", d, Len(d))
    /\ at + call'.n <= MaxLen
    /\ UNCHANGED <<setup, file, off, buffer, pushed, eof, err, view, at>>

FwriteRefused == call.busy /\ call.op = "write" /\ call.i = 0 /\ Refused

\* A full buffer that could not be written out refuses the next byte.
FwriteFull ==
    /\ call.busy /\ call.op = "write" /\ bmode # "none"
    /\ call.i < call.n /\ CanWrite /\ Len(buf) >= size
    /\ err' = TRUE
    /\ Done("eof")
    /\ UNCHANGED <<setup, file, off, buffer, pushed, eof, view, at>>

\* Mutant: line mode does not look for the end of the line.
BufferByteFull(c) ==
    LET b == Append(buf, c)
        out == Len(b) >= size
        rest == SubSeq(b, start + 1, Len(b))
    IN  \E k \in IF out /\ fd THEN 0..Len(rest) ELSE {0} :
          /\ file' = Put(file, off, SubSeq(rest, 1, k))
          /\ off' = off + k
          /\ IF out /\ k = Len(rest)
               THEN buf' = <<>> /\ start' = 0 /\ written' = FALSE
               ELSE buf' = b /\ start' = start + k /\ written' = TRUE
          /\ err' = (err \/ (out /\ k < Len(rest)))
          /\ LET i == call.i + 1 IN
               call' = [call EXCEPT
                   !.i = i,
                   !.busy = i < call.n /\ (out => k = Len(rest)),
                   !.res = IF out /\ k < Len(rest) THEN "eof"
                           ELSE IF i = call.n THEN "ok" ELSE "none"]

\* The byte goes into the buffer; the end of a line in line mode, and a full
\* buffer, are written out. The two flushes of the code follow one another: the
\* second finds nothing after a first that succeeded.
BufferByte(c) ==
    LET b == Append(buf, c)
        out == (bmode = "line" /\ c = NL) \/ Len(b) >= size
        rest == SubSeq(b, start + 1, Len(b))
    IN  \E k \in IF out /\ fd THEN 0..Len(rest) ELSE {0} :
          /\ file' = Put(file, off, SubSeq(rest, 1, k))
          /\ off' = off + k
          /\ IF out /\ k = Len(rest)
               THEN buf' = <<>> /\ start' = 0 /\ written' = FALSE
               ELSE buf' = b /\ start' = start + k /\ written' = TRUE
          /\ err' = (err \/ (out /\ k < Len(rest)))
          /\ LET i == call.i + 1 IN
               call' = [call EXCEPT
                   !.i = i,
                   !.busy = i < call.n /\ (out => k = Len(rest)),
                   !.res = IF out /\ k < Len(rest) THEN "eof"
                           ELSE IF i = call.n THEN "ok" ELSE "none"]

\* Mutant: no test for a full buffer.
FwriteByteNoRoom ==
    /\ call.busy /\ call.op = "write" /\ bmode # "none"
    /\ call.i < call.n /\ CanWrite
    /\ BufferByte(call.data[call.i + 1])
    /\ view' = Put(view, at, <<call.data[call.i + 1]>>)
    /\ at' = at + 1
    /\ UNCHANGED <<setup, pushed, eof>>

FwriteByte ==
    /\ call.busy /\ call.op = "write" /\ bmode # "none"
    /\ call.i < call.n /\ CanWrite /\ Len(buf) < size
    /\ BufferByte(call.data[call.i + 1])
    /\ view' = Put(view, at, <<call.data[call.i + 1]>>)
    /\ at' = at + 1
    /\ UNCHANGED <<setup, pushed, eof>>

\* Mutant: a short unbuffered write sets no error.
FwriteUnbufferedQuiet ==
    /\ call.busy /\ call.op = "write" /\ bmode = "none" /\ CanWrite
    /\ \E k \in IF fd THEN 0..call.n ELSE {0} :
         /\ file' = Put(file, off, SubSeq(call.data, 1, k))
         /\ off' = off + k
         /\ view' = Put(view, at, SubSeq(call.data, 1, k))
         /\ at' = at + k
         /\ err' = err
         /\ call' = [call EXCEPT !.i = k, !.busy = FALSE,
                                 !.res = IF k < call.n THEN "eof" ELSE "ok"]
    /\ UNCHANGED <<setup, buffer, pushed, eof>>

\* Unbuffered: one write; a short one is an error and the count tells.
FwriteUnbuffered ==
    /\ call.busy /\ call.op = "write" /\ bmode = "none" /\ CanWrite
    /\ \E k \in IF fd THEN 0..call.n ELSE {0} :
         /\ file' = Put(file, off, SubSeq(call.data, 1, k))
         /\ off' = off + k
         /\ view' = Put(view, at, SubSeq(call.data, 1, k))
         /\ at' = at + k
         /\ err' = (err \/ k < call.n)
         /\ call' = [call EXCEPT !.i = k, !.busy = FALSE,
                                 !.res = IF k < call.n THEN "eof" ELSE "ok"]
    /\ UNCHANGED <<setup, buffer, pushed, eof>>

-----------------------------------------------------------------------------
(* Reading *)

CanRead == mode # "w" /\ (start # 0 \/ buf # <<>> => ~written)

\* What read(2) may return for n bytes: an error, or some of what is there.
Reads(n) ==
    {-1} \cup IF ~fd THEN {}
              ELSE IF off = Len(file) THEN {0}
              ELSE 1..Least(n, Len(file) - off)

\* "getc" is fgetc, "gets" fgets and "delim" getdelim.
ReadOps == {"getc", "gets", "delim", "read"}
Take == [getc |-> {1}, gets |-> {1, 2}, delim |-> {MaxLen + 2}, read |-> {1, 2, 3}]

ReadBegin ==
    /\ \E op \in ReadOps : \E n \in Take[op] : Start(op, <<>>, n)
    /\ UNCHANGED <<setup, file, off, buffer, pushed, eof, err, view, at>>

Reading == call.busy /\ call.op \in ReadOps

ReadRefused ==
    /\ Reading /\ ~CanRead
    /\ err' = TRUE
    /\ Done("eof")
    /\ UNCHANGED <<setup, file, off, buffer, pushed, eof, view, at>>

\* A byte is handed to the caller. fgetc ends with it, fgets and getdelim at
\* the end of a line or when the room is used up, fread when it has them all.
Deliver(c) ==
    LET g == Append(call.got, c)
        full == Len(g) = call.n \/ (c = NL /\ call.op \in {"gets", "delim"})
    IN  call' = [call EXCEPT !.got = g, !.busy = ~full,
                             !.res = IF full THEN "ok" ELSE "none"]

\* Mutant: the byte pushed back stays when there is no buffer.
GetPushedStays ==
    /\ Reading /\ CanRead /\ pushed # None
    /\ call.op = "read" /\ bmode # "none" => start < Len(buf)
    /\ Deliver(pushed)
    /\ pushed' = IF bmode = "none" THEN pushed ELSE None
    /\ UNCHANGED <<setup, file, off, buffer, eof, err, view, at>>

\* fread fills the buffer before it looks at the byte pushed back.
GetPushed ==
    /\ Reading /\ CanRead /\ pushed # None
    /\ call.op = "read" /\ bmode # "none" => start < Len(buf)
    /\ Deliver(pushed)
    /\ pushed' = None
    /\ UNCHANGED <<setup, file, off, buffer, eof, err, view, at>>

\* The read returned r: data, the end of the file or an error.
Refill(r) ==
    /\ off' = IF r > 0 THEN off + r ELSE off
    /\ err' = (err \/ r < 0)
    /\ eof' = (eof \/ r = 0)
    /\ IF r > 0
         THEN buf' = SubSeq(file, off + 1, off + r) /\ start' = 0 /\ written' = FALSE
         ELSE UNCHANGED <<buf, start, written>>

\* fgets returns what it has at the end of the file and NULL after an error;
\* getdelim returns -1 for both.
Ended(r) ==
    IF call.op = "gets" /\ call.got # <<>> /\ (eof \/ r = 0) THEN "ok" ELSE "eof"

ReadFill ==
    /\ Reading /\ CanRead /\ bmode # "none" /\ start >= Len(buf)
    /\ pushed = None \/ call.op = "read"
    /\ \E r \in Reads(size) :
         /\ Refill(r)
         /\ IF r > 0 THEN UNCHANGED call ELSE Done(Ended(r))
    /\ UNCHANGED <<setup, file, pushed, view, at>>

ReadBuffered ==
    /\ Reading /\ CanRead /\ bmode # "none" /\ start < Len(buf) /\ pushed = None
    /\ Deliver(buf[start + 1])
    /\ start' = start + 1
    /\ at' = at + 1
    /\ UNCHANGED <<setup, file, off, buf, written, pushed, eof, err, view>>

\* Unbuffered: a byte at a time for fgetc and its users; fread asks for all it
\* lacks and once more after a short read.
ReadUnbuffered ==
    /\ Reading /\ CanRead /\ bmode = "none" /\ pushed = None
    /\ LET n == IF call.op = "read" THEN call.n - Len(call.got) ELSE 1
       IN  \E r \in Reads(n) :
             /\ off' = IF r > 0 THEN off + r ELSE off
             /\ at' = IF r > 0 THEN at + r ELSE at
             /\ err' = (err \/ r < 0)
             /\ eof' = (eof \/ r = 0)
             /\ IF r <= 0 THEN Done(Ended(r))
                ELSE IF call.op # "read" THEN Deliver(file[off + 1])
                ELSE call' = [call EXCEPT
                       !.got = @ \o SubSeq(file, off + 1, off + r),
                       !.tries = @ + 1,
                       !.busy = r < n /\ call.tries = 0,
                       !.res = IF r = n THEN "ok" ELSE IF call.tries = 0 THEN "none" ELSE "short"]
    /\ UNCHANGED <<setup, file, buffer, pushed, view>>

Ungetc ==
    /\ Idle /\ "struct" \in held
    /\ \E c \in Bytes :
         IF pushed = None
           THEN pushed' = c /\ call' = [NoCall EXCEPT !.op = "ungetc", !.res = "ok"]
           ELSE UNCHANGED pushed /\ call' = [NoCall EXCEPT !.op = "ungetc", !.res = "eof"]
    /\ UNCHANGED <<setup, file, off, buffer, eof, err, view, at>>

-----------------------------------------------------------------------------
(* Positions *)

\* ftell and ftello: bytes not yet written lie ahead of the offset, bytes read
\* in advance and the byte pushed back behind it.
Ftell ==
    LET count == Len(buf) - start
        o == IF written THEN off + count
             ELSE off - count - (IF pushed # None THEN 1 ELSE 0)
    IN  IF o < 0 THEN 0 ELSE o

Extra == IF pushed # None THEN 1 ELSE 0

\* SEEK_CUR takes the bytes in the buffer off the offset it passes on, whichever
\* kind they are.
SeekOffset(whence, o) ==
    IF whence = "cur" THEN o - (Len(buf) - start) - Extra ELSE o

\* The flush of reposition. SEEK_SET refuses a negative offset; rewind clears
\* the error first.
FseekBegin ==
    /\ Idle /\ "struct" \in held
    /\ \E whence \in {"set", "cur", "end"}, o \in -1..1, rewind \in BOOLEAN :
       \E fails \in BOOLEAN :
         /\ rewind => whence = "set" /\ o = 0
         /\ (whence = "set") => o >= 0
         /\ Flush(fails)
         /\ err' = ((err /\ ~rewind) \/ fails)
         /\ call' = [NoCall EXCEPT !.op = "fseek", !.busy = ~fails,
               !.res = IF fails THEN "eof" ELSE "none",
               !.data = <<whence>>, !.n = SeekOffset(whence, o), !.i = o,
               !.at = at, !.push = pushed, !.tries = IF written THEN 1 ELSE 0]
    /\ UNCHANGED <<setup, pushed, eof, view, at>>

\* Mutant: the bytes read in advance are kept after a seek.
FseekEndKeeps ==
    /\ call.busy /\ call.op = "fseek"
    /\ LET base == [set |-> 0, cur |-> off, end |-> Len(file)]
           to == base[call.data[1]] + call.n
       IN  IF fd /\ to \in 0..Len(file)
             THEN /\ off' = to
                  /\ UNCHANGED buffer
                  /\ pushed' = None /\ eof' = FALSE
                  /\ at' = IF call.data[1] = "cur" /\ call.tries = 0
                             THEN call.at + call.i - (IF call.push # None THEN 1 ELSE 0)
                             ELSE to
                  /\ Done("ok")
             ELSE /\ Done("eof")
                  /\ UNCHANGED <<off, buffer, pushed, eof, at>>
    /\ UNCHANGED <<setup, file, err, view>>

\* lseek, and on success the buffer, the end of the file and the byte pushed
\* back are forgotten. A position beyond the end counts as refused (a bound).
FseekEnd ==
    /\ call.busy /\ call.op = "fseek"
    /\ LET base == [set |-> 0, cur |-> off, end |-> Len(file)]
           to == base[call.data[1]] + call.n
       IN  IF fd /\ to \in 0..Len(file)
             THEN /\ off' = to
                  /\ buf' = <<>> /\ start' = 0 /\ written' = FALSE
                  /\ pushed' = None /\ eof' = FALSE
                  /\ at' = IF call.data[1] = "cur" /\ call.tries = 0
                             THEN call.at + call.i - (IF call.push # None THEN 1 ELSE 0)
                             ELSE to
                  /\ Done("ok")
             ELSE /\ Done("eof")
                  /\ UNCHANGED <<off, buffer, pushed, eof, at>>
    /\ UNCHANGED <<setup, file, err, view>>

Clearerr ==
    /\ Idle /\ "struct" \in held /\ (eof \/ err)
    /\ eof' = FALSE /\ err' = FALSE
    /\ call' = [NoCall EXCEPT !.op = "clearerr", !.res = "ok"]
    /\ UNCHANGED <<setup, file, off, buffer, pushed, view, at>>

-----------------------------------------------------------------------------
(* Buffers, reopening and closing *)

\* setvbuf throws away what the buffer holds, in either direction; a size of
\* zero means no buffer.
Setvbuf ==
    /\ Idle /\ "struct" \in held
    /\ \E m \in {"full", "line", "none"}, n \in {0, BufSiz} :
         /\ bmode' = IF n = 0 THEN "none" ELSE m
         /\ size' = IF bmode' = "none" THEN 0 ELSE n
    /\ buf' = <<>> /\ start' = 0 /\ written' = FALSE
    /\ view' = file /\ at' = off
    /\ call' = [NoCall EXCEPT !.op = "setvbuf", !.res = "ok"]
    /\ UNCHANGED <<held, fd, mode, file, off, pushed, eof, err>>

\* freopen ignores a flush that fails. When the new file cannot be opened the
\* stream is left without a descriptor and with _mode 0, which is O_RDONLY.
Freopen ==
    /\ Idle /\ "struct" \in held
    /\ \E k \in IF written /\ fd THEN 0..Len(Rest) ELSE {0},
          m \in OpenModes, opened \in BOOLEAN :
         /\ file' = IF opened /\ m.trunc THEN <<>>
                    ELSE IF written THEN Put(file, off, SubSeq(Rest, 1, k)) ELSE file
         /\ fd' = opened
         /\ mode' = IF opened THEN m.mode ELSE "r"
         /\ held' = IF opened THEN held \cup {"fd"} ELSE held \ {"fd"}
         /\ call' = [NoCall EXCEPT !.op = "freopen", !.res = IF opened THEN "ok" ELSE "eof"]
    /\ off' = 0 /\ at' = 0 /\ view' = file'
    /\ buf' = <<>> /\ start' = 0 /\ written' = FALSE
    /\ pushed' = None /\ eof' = FALSE /\ err' = FALSE
    /\ UNCHANGED <<bmode, size>>

\* Mutant: no flush.
FcloseDrops ==
    /\ Idle /\ "struct" \in held
    /\ \E fails, bad \in BOOLEAN :
         /\ fails = FALSE /\ UNCHANGED <<file, off, buf, start, written>>
         /\ (~fd) => bad
         /\ call' = [NoCall EXCEPT !.op = "fclose", !.view = view,
                                 !.res = IF fails \/ bad THEN "eof" ELSE "ok"]
    /\ held' = {}
    /\ fd' = FALSE
    /\ view' = file'
    /\ UNCHANGED <<mode, bmode, size, pushed, eof, err, at>>

\* fclose frees everything whatever the flush and close return.
Fclose ==
    /\ Idle /\ "struct" \in held
    /\ \E fails, bad \in BOOLEAN :
         /\ Flush(fails)
         /\ (~fd) => bad
         /\ call' = [NoCall EXCEPT !.op = "fclose", !.view = view,
                                 !.res = IF fails \/ bad THEN "eof" ELSE "ok"]
    /\ held' = {}
    /\ fd' = FALSE
    /\ view' = file'
    /\ UNCHANGED <<mode, bmode, size, pushed, eof, err, at>>

-----------------------------------------------------------------------------
Init ==
    /\ held = {} /\ fd = FALSE
    /\ \E b \in Bytes \ {NL} : file = <<b, NL>>
    /\ off = 0 /\ mode = "r" /\ bmode = "line" /\ size = BufSiz
    /\ buf = <<>> /\ start = 0 /\ written = FALSE
    /\ pushed = None /\ eof = FALSE /\ err = FALSE
    /\ call = NoCall /\ view = file /\ at = 0

Next ==
    \/ FopenNone \/ Fopen \/ Fflush
    \/ FwriteBegin \/ FwriteRefused \/ FwriteFull \/ FwriteByte \/ FwriteUnbuffered
    \/ ReadBegin \/ ReadRefused \/ GetPushed \/ ReadFill \/ ReadBuffered
    \/ ReadUnbuffered \/ Ungetc
    \/ FseekBegin \/ FseekEnd \/ Clearerr
    \/ Setvbuf \/ Freopen \/ Fclose

Spec == Init /\ [][Next]_vars

-----------------------------------------------------------------------------
(* Properties *)

\* Every field stays in its range: the buffer never holds more than its size.
TypeOK ==
    /\ held \subseteq {Resources[j] : j \in 1..Len(Resources)}
    /\ fd \in BOOLEAN /\ written \in BOOLEAN /\ eof \in BOOLEAN /\ err \in BOOLEAN
    /\ file \in SeqsTo(MaxLen) /\ view \in SeqsTo(MaxLen)
    /\ off \in 0..MaxLen /\ at \in 0..MaxLen
    /\ mode \in {"r", "w", "rw"} /\ bmode \in {"full", "line", "none"}
    /\ size \in 0..BufSiz /\ buf \in SeqsTo(BufSiz)
    /\ start \in 0..Len(buf) /\ pushed \in Bytes \cup {None}
    /\ held # {} => Len(buf) <= size

\* A stream that is closed, or that could not be opened, owns nothing.
NothingHeld == "struct" \notin held => held = {}

\* No byte that the stream accepted is lost, written twice or written in
\* another order, however often a write is short or fails: the file with the
\* waiting bytes added at the offset is the file the program sees.
BytesKept ==
    held # {} => view = IF written THEN Put(file, off, Rest) ELSE file

\* ftell reports where the program is, whatever the buffer holds.
Told ==
    held # {} => Ftell = IF pushed # None /\ ~written
                           THEN (IF at = 0 THEN 0 ELSE at - 1) ELSE at

\* A reading call returns the byte pushed back and then the file's bytes in
\* order from where the program was, over any split into short reads.
ReadsInOrder ==
    call.op \in ReadOps =>
        call.got = (IF call.push # None /\ pushed = None THEN <<call.push>> ELSE <<>>)
                     \o SubSeq(call.view, call.at + 1, at)

\* fwrite's count is the number of bytes that were accepted, and fewer than
\* asked for sets the error indicator.
CountIsAccepted ==
    call.op = "write" =>
        /\ view = Put(call.view, call.at, SubSeq(call.data, 1, call.i))
        /\ ~call.busy /\ call.i < call.n => err

\* A line that was put without an error on a line buffered stream has left the
\* buffer.
LineLeft ==
    call.op = "write" /\ call.res = "ok" /\ bmode = "line" /\ call.data[call.n] = NL
        => Rest = <<>>

\* When fclose succeeds all the program wrote is in the file.
ClosedWhole == call.op = "fclose" /\ call.res = "ok" => file = call.view

\* A seek relative to the current position starts from the position that ftell
\* reports (it does not when bytes wait to be written).
SeekFromHere ==
    call.op = "fseek" /\ call.res = "ok" /\ call.data = <<"cur">>
        /\ call.push = None => at = call.at + call.i

\* A byte pushed back is there for the next read (fread does not return it at
\* the end of the file).
PushedBackRead ==
    call.op = "read" /\ ~call.busy /\ call.push # None /\ ~err => call.got # <<>>
=============================================================================
