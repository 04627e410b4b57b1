-------------------------------- MODULE Pty --------------------------------
(***************************************************************************)
(* The line discipline of a pseudo terminal (vfs/pty.c): what the terminal *)
(* types on the main side is echoed, edited and, a line at a time, passed  *)
(* to the readers of the secondary side, whose output goes back.           *)
(*                                                                         *)
(* Every function of a node holds shared_data->lock from its first access  *)
(* to its last.  A read is one step; a write is one step for each byte, in *)
(* which lock says whose write it is.  The two ring buffers are sequences  *)
(* with room for one byte less than their size.  A byte is named for what  *)
(* termios.c_cc makes of it: "VEOF" is the byte c_cc[VEOF].                *)
(***************************************************************************)
EXTENDS Naturals, Sequences, FiniteSets, FiniteSetsExt, SequencesExt

CONSTANTS
  Terminal,    \* the task that holds the main node
  Group,       \* [task of the secondary node -> its process group, above 1]
  BufferSize,  \* PTY_BUFFER_SIZE (16384)
  IcanonSize,  \* PTY_ICANON_SIZE (a quarter of the buffer)
  Chars,       \* bound: the bytes that are typed
  Output,      \* bound: what the programs write, a set of sequences
  Typing,      \* bound: the number of bytes of one write of the terminal
  Modes,       \* bound: the termios flags in use, a set of sets
  ReadSizes    \* bound: the sizes of the reads

NoTask == "none"
Programs == DOMAIN Group

\* set_default_termios, without the flags that nothing tests.
DefaultTermios == {"ICRNL", "ONLCR", "OPOST", "ECHO", "ECHOE", "ECHOK", "ICANON", "ISIG"}

VARIABLES
  buffer,   \* buffer[0] is read by the main node, buffer[1] by the secondary one
  event,    \* 0 .. 1 -> the manual reset event of the buffer is signalled
  icanon,   \* the line that is edited
  eof,      \* an end of file was typed on an empty line
  termios,  \* the flags that are set
  group,    \* the foreground process group, 0 when it is not set
  sigs,     \* group -> the signals it was sent
  lock,     \* the task inside a write
  rest,     \* the bytes it still has to write
  raw       \* history: termios was once without ICANON

line == <<buffer, event, icanon, eof>>
vars == <<line, termios, group, sigs, lock, rest, raw>>

Groups == {Group[t] : t \in Programs}
Control == {"VEOF", "VERASE", "VKILL", "VWERASE", "VINTR", "VQUIT", "VEOL", "\t"}
Blank == {"\t", " "}
Byte == Chars \cup UNION {Range(s) : s \in Output} \cup {"\n", "\r", "^", "BS", " "}
Signals == {"SIGINT", "SIGQUIT", "SIGTTIN", "SIGTTOU"}
Flags == DefaultTermios \cup {"INLCR", "IGNCR", "TOSTOP"}

TypeOK ==
  /\ buffer \in [0 .. 1 -> Seq(Byte)] /\ icanon \in Seq(Byte)
  /\ \A i \in 0 .. 1 : Len(buffer[i]) < BufferSize
  /\ Len(icanon) < IcanonSize
  /\ event \in [0 .. 1 -> BOOLEAN] /\ eof \in BOOLEAN /\ raw \in BOOLEAN
  /\ termios \subseteq Flags
  /\ group \in Groups \cup {0} /\ sigs \in [Groups -> SUBSET Signals]
  /\ lock \in Programs \cup {Terminal, NoTask} /\ rest \in Seq(Byte)

\* pty_create, with the termios flags of its caller or the default ones.
Init ==
  /\ buffer = [i \in 0 .. 1 |-> <<>>] /\ event = [i \in 0 .. 1 |-> FALSE]
  /\ icanon = <<>> /\ eof = FALSE /\ termios \in Modes
  /\ group = 0 /\ sigs = [g \in Groups |-> {}]
  /\ lock = NoTask /\ rest = <<>> /\ raw = ("ICANON" \notin termios)

-----------------------------------------------------------------------------
Room(b) == BufferSize - 1 - Len(b)

\* write_buffer for each byte of s, whatever it returns: those that fit are kept.
WriteBuffer(b, s) == b \o SubSeq(s, 1, Min({Len(s), Room(b)}))

\* Mutant: the reader is woken only by the write itself, not by its echo.
SignalledEcho(i, s, wrote) == event[i] \/ wrote

\* write_buffer signals an empty buffer's event; a write signals once more.
Signalled(i, s, wrote) == event[i] \/ wrote \/ (buffer[i] = <<>> /\ s # <<>>)

\* The state of the buffers after s was written to buffer i.
Written(i, s, wrote) ==
  /\ buffer' = [buffer EXCEPT ![i] = WriteBuffer(@, s)]
  /\ event' = [event EXCEPT ![i] = Signalled(i, s, wrote)]

\* What write_byte_secondary makes of a byte, and whether it fits.
OutputOf(c) ==
  IF c = "\n" /\ {"OPOST", "ONLCR"} \subseteq termios THEN <<"\r", "\n">> ELSE <<c>>

OutputFits(c) == Room(buffer[0]) >= Len(OutputOf(c))

\* write_echo_main.
EchoOf(c) ==
  CASE c = "\n" /\ "ICANON" \in termios -> OutputOf(c)
    [] c \in Control \cup {"\n", "\r"}  -> <<"^", c>>
    [] OTHER                            -> <<c>>

Echo(c) == IF "ECHO" \in termios THEN EchoOf(c) ELSE <<>>

-----------------------------------------------------------------------------
\* The first bytes of the characters of a line: "c" continues a UTF-8 sequence.
Starts(s) == {k \in 1 .. Len(s) : s[k] # "c" \/ k = 1}

\* Mutant: a word ends before its first blank, even when nothing was erased yet.
WordEndsBlank(s, n) == s[n] \in Blank

\* A word ends at a blank, after a character that is none was erased.
WordEnds(s, n) ==
  s[n] \in Blank /\ \E k \in Starts(s) : k > n /\ s[k] \notin Blank

(***************************************************************************)
(* The length that write_erase_main leaves of a line, for one character    *)
(* (VERASE), a word (VWERASE) or all of it (VKILL), and what it echoes.    *)
(***************************************************************************)
Erased(s, c) ==
  Max({0} \cup {n \in {k - 1 : k \in Starts(s)} :
                 c = "VERASE" \/ (c = "VWERASE" /\ n > 0 /\ WordEnds(s, n))})

RubOut == <<"BS", " ", "BS">>

EraseEcho(s, c) ==
  LET gone   == {k \in Starts(s) : k > Erased(s, c)}
      visual == IF c = "VKILL" THEN "ECHOK" ELSE "ECHOE"
      cells  == Cardinality(gone) + Cardinality({k \in gone : s[k] \in Control})
  IN  CASE "ECHO" \notin termios \/ gone = {} -> <<>>
        [] visual \in termios -> FlattenSeq([k \in 1 .. cells |-> RubOut])
        [] OTHER -> <<"^", c>>

-----------------------------------------------------------------------------
(* The bytes that the terminal writes, n_write_main. *)

\* The translation of carriage returns and line feeds, and the bytes it drops.
InputOf(c) ==
  CASE c = "\n" /\ "INLCR" \in termios -> "\r"
    [] c = "\r" /\ "ICRNL" \in termios -> "\n"
    [] OTHER                           -> c

Ignored(c) == c = "\r" /\ "IGNCR" \in termios

SignalOf(c) ==
  CASE "ISIG" \in termios /\ c = "VINTR" -> {"SIGINT"}
    [] "ISIG" \in termios /\ c = "VQUIT" -> {"SIGQUIT"}
    [] OTHER -> {}

\* Mutant: a line may start while the secondary buffer has no room for it.
TooFullNever == FALSE

\* The secondary buffer holds more than a line: buffer_state > PTY_ICANON_SIZE.
TooFull == Len(buffer[1]) > IcanonSize

\* Mutant: the last place of the line is used for any byte.
StoredAll(c) == IF Len(icanon) < IcanonSize THEN Append(icanon, c) ELSE icanon

\* The byte enters the line, which keeps a place for the byte that ends it.
Stored(c) == IF Len(icanon) < IcanonSize - 1 THEN Append(icanon, c) ELSE icanon

\* Mutant: a line that has become full is passed on.
EndsLineFull(c) == c \in {"\n", "VEOF", "VEOL"} \/ Len(icanon) = IcanonSize - 1

EndsLine(c) == c \in {"\n", "VEOF", "VEOL"}

\* The whole line, with the byte that ends it.
Line(c) == IF Last(Stored(c)) = c THEN Stored(c) ELSE Append(icanon, c)

EndOfFile(c) == c = "VEOF" /\ icanon = <<>>

Erases(c) == c \in {"VERASE", "VKILL", "VWERASE"}

\* A byte for the secondary node and an echo for the main one.
Pass(s, echo) ==
  /\ buffer' = [buffer EXCEPT ![0] = WriteBuffer(@, echo), ![1] = WriteBuffer(@, s)]
  /\ event' = [event EXCEPT ![0] = Signalled(0, echo, FALSE), ![1] = Signalled(1, s, TRUE)]

\* The byte belongs to a line: it is stored, and an ending byte passes it on.
Canonical(c) ==
  \/ /\ EndOfFile(c)
     /\ eof' = TRUE /\ icanon' = <<>> /\ Pass(<<>>, <<>>)
  \/ /\ Erases(c)
     /\ LET s == Front(Stored(c)) IN
        /\ icanon' = SubSeq(s, 1, Erased(s, c))
        /\ Pass(<<>>, EraseEcho(s, c))
     /\ UNCHANGED eof
  \/ /\ ~Erases(c) /\ ~EndOfFile(c)
     /\ LET echo == IF c = "VEOF" THEN <<>> ELSE Echo(c) IN
        IF EndsLine(c) THEN icanon' = <<>> /\ Pass(Line(c), echo)
                       ELSE icanon' = Stored(c) /\ Pass(<<>>, echo)
     /\ UNCHANGED eof

\* One byte is done.  An end of file also ends this write; the caller goes on
\* with the rest, after others had their turn.
ByteDone(c) ==
  /\ rest' = Tail(rest)
  /\ lock' = IF Len(rest) = 1 \/ ("ICANON" \in termios /\ EndOfFile(c)) THEN NoTask ELSE lock

\* Mutant: a full secondary buffer is looked at before the signals.
SignalFirst(c) == SignalOf(c) # {} /\ ~TooFull

Interrupts(c) == SignalOf(c) # {}

\* A byte that raises a signal and discards the line.
TypeSignal(c) ==
  /\ Interrupts(c)
  /\ sigs' = [g \in Groups |-> IF g = group THEN sigs[g] \cup SignalOf(c) ELSE sigs[g]]
  /\ icanon' = <<>>
  /\ Pass(<<>>, Echo(c))
  /\ UNCHANGED eof

TypeByte ==
  /\ lock = Terminal
  /\ LET c == InputOf(Head(rest)) IN
     /\ ByteDone(c)
     /\ \/ /\ Ignored(Head(rest))
           /\ event' = [event EXCEPT ![1] = TRUE]
           /\ UNCHANGED <<buffer, icanon, eof, sigs>>
        \/ ~Ignored(Head(rest)) /\ TypeSignal(c)
        \/ /\ ~Ignored(Head(rest)) /\ ~Interrupts(c) /\ UNCHANGED sigs
           /\ \/ "ICANON" \in termios /\ ~TooFull /\ Canonical(c)
              \/ /\ "ICANON" \notin termios /\ Room(buffer[1]) > 0
                 /\ Pass(<<c>>, Echo(c))
                 /\ UNCHANGED <<icanon, eof>>
  /\ UNCHANGED <<termios, group, raw>>

\* DE_RETRY: the rest of the write is left to the caller.  Without ICANON the
\* byte has already been echoed.
TypeRetry ==
  /\ lock = Terminal
  /\ LET c == InputOf(Head(rest)) IN
     /\ ~Ignored(Head(rest)) /\ ~Interrupts(c)
     /\ \/ "ICANON" \in termios /\ TooFull /\ UNCHANGED <<buffer, event>>
        \/ /\ "ICANON" \notin termios /\ Room(buffer[1]) = 0
           /\ Written(0, Echo(c), FALSE)
  /\ lock' = NoTask
  /\ UNCHANGED <<icanon, eof, termios, group, sigs, rest, raw>>

\* The terminal writes; a write that was cut short is taken up where it ended.
Type(s) ==
  /\ lock = NoTask /\ s # <<>>
  /\ lock' = Terminal /\ rest' = s
  /\ UNCHANGED <<line, termios, group, sigs, raw>>

-----------------------------------------------------------------------------
(* The other functions of the nodes. *)

\* n_read_main.
ReadMain(n) ==
  /\ lock = NoTask
  /\ buffer' = [buffer EXCEPT ![0] = SubSeq(@, n + 1, Len(@))]
  /\ event' = [event EXCEPT ![0] = @ /\ n <= Len(buffer[0])]
  /\ UNCHANGED <<icanon, eof, termios, group, sigs, lock, rest, raw>>

Background(t) == group # 0 /\ Group[t] # group

\* A read ends with a line, or with an end of file character in canonical mode.
Stops == {"\n"} \cup (IF "ICANON" \in termios THEN {"VEOF"} ELSE {})

\* The number of bytes that a read of n bytes takes from buffer[1].
Taken(n) ==
  Min({n, Len(buffer[1])} \cup {k \in 1 .. Len(buffer[1]) : buffer[1][k] \in Stops})

\* Mutant: a read goes on after the line it has found.
FoundEmptyPast(n) == n > Len(buffer[1])

\* The read asked for more when the buffer was empty.
FoundEmpty(n) ==
  n > Taken(n) /\ Taken(n) = Len(buffer[1])
  /\ (buffer[1] = <<>> \/ Last(buffer[1]) \notin Stops)

\* n_read_secondary of a task of the foreground group.
ReadSecondary(t, n) ==
  /\ lock = NoTask /\ ~Background(t)
  /\ buffer' = [buffer EXCEPT ![1] = SubSeq(@, Taken(n) + 1, Len(@))]
  /\ event' = [event EXCEPT ![1] = @ /\ ~FoundEmpty(n)]
  /\ eof' = (eof /\ ~FoundEmpty(n))
  /\ UNCHANGED <<icanon, termios, group, sigs, lock, rest, raw>>

\* n_read_secondary of any other task: it is stopped and reads nothing.
ReadBackground(t) ==
  /\ lock = NoTask /\ Background(t)
  /\ sigs' = [sigs EXCEPT ![Group[t]] = @ \cup {"SIGTTIN"}]
  /\ UNCHANGED <<line, termios, group, lock, rest, raw>>

\* n_write_secondary.
Write(t, s) ==
  /\ lock = NoTask /\ s # <<>>
  /\ IF Background(t) /\ "TOSTOP" \in termios
       THEN /\ sigs' = [sigs EXCEPT ![Group[t]] = @ \cup {"SIGTTOU"}]
            /\ UNCHANGED <<lock, rest>>
       ELSE lock' = t /\ rest' = s /\ UNCHANGED sigs
  /\ UNCHANGED <<line, termios, group, raw>>

WriteByte(t) ==
  /\ lock = t
  /\ IF OutputFits(Head(rest))
       THEN /\ Written(0, OutputOf(Head(rest)), TRUE)
            /\ rest' = Tail(rest)
            /\ lock' = IF Len(rest) = 1 THEN NoTask ELSE t
       ELSE lock' = NoTask /\ UNCHANGED <<buffer, event, rest>>
  /\ UNCHANGED <<icanon, eof, termios, group, sigs, raw>>

\* Mutant: the line stays in the editor when lines are no longer edited.
FlushedNever(flags) == <<>>

\* What TCSETS passes to the secondary node.
Flushed(flags) == IF "ICANON" \in flags THEN <<>> ELSE icanon

\* TCSETS, TCSETSW and TCSETSF.  Only write_buffer signals the event.
TcSets(flags) ==
  /\ lock = NoTask
  /\ Written(1, Flushed(flags), FALSE)
  /\ icanon' = IF "ICANON" \in flags THEN icanon ELSE <<>>
  /\ termios' = flags
  /\ raw' = (raw \/ "ICANON" \notin flags)
  /\ UNCHANGED <<eof, group, sigs, lock, rest>>

\* TIOCSPGRP: g is a group of the caller's session.
TiocSPgrp(g) ==
  /\ lock = NoTask
  /\ group' = g
  /\ UNCHANGED <<line, termios, sigs, lock, rest, raw>>

Next ==
  \/ \E k \in 1 .. Typing : \E s \in [1 .. k -> Chars] : Type(s)
  \/ Type(rest)
  \/ TypeByte \/ TypeRetry
  \/ \E n \in ReadSizes : ReadMain(n)
  \/ \E t \in Programs :
       \/ \E n \in ReadSizes : ReadSecondary(t, n)
       \/ ReadBackground(t)
       \/ \E s \in Output : Write(t, s)
       \/ WriteByte(t)
  \/ \E flags \in Modes : TcSets(flags)
  \/ \E g \in Groups : TiocSPgrp(g)

Spec == Init /\ [][Next]_vars

-----------------------------------------------------------------------------
(***************************************************************************)
(* "The buffer sizes have been set and checked so that everything can be   *)
(* written": the line that is edited fits into the secondary buffer with   *)
(* the byte that ends it, so write_byte_main, whose result n_write_main    *)
(* and TCSETS ignore, loses nothing, whatever the mode was before.         *)
(***************************************************************************)
LineFits == icanon # <<>> => Room(buffer[1]) > Len(icanon)

(***************************************************************************)
(* A reader that waits for the event of its buffer is woken by everything  *)
(* it can read: bytes of either writer, echoes and an end of file.         *)
(***************************************************************************)
ReadyIsSignalled ==
  lock = NoTask =>
    /\ \A i \in 0 .. 1 : buffer[i] # <<>> => event[i]
    /\ eof => event[1]

(***************************************************************************)
(* As long as lines are edited, programs see whole lines only: what can    *)
(* still be erased is never in the secondary buffer.                       *)
(***************************************************************************)
WholeLines == ~raw /\ buffer[1] # <<>> => EndsLine(Last(buffer[1]))

(***************************************************************************)
(* A read that takes the end of file returns no bytes, so file_read        *)
(* reports it; with bytes its DE_EMPTY is forgotten. One kind of line is   *)
(* the exception: VEOL ends a line for n_write_main but not for            *)
(* n_read_secondary, and a read that goes on behind it takes the end of    *)
(* file with it, which the program never sees.                             *)
(***************************************************************************)
EofNotSwallowed ==
  ~raw /\ eof /\ ~eof' => buffer'[1] = buffer[1] \/ Last(buffer[1]) = "VEOL"

(***************************************************************************)
(* No write of the terminal stops at a byte that raises a signal, however  *)
(* full the secondary buffer is. One that stopped before, at a byte that   *)
(* had no room, keeps such a byte behind it until the program reads.       *)
(***************************************************************************)
InterruptTaken ==
  lock = Terminal /\ lock' = NoTask /\ rest' = rest => SignalOf(InputOf(Head(rest))) = {}

(***************************************************************************)
(* Only an erasing character or a signal takes bytes of a line away from   *)
(* the user; leaving canonical mode and a line's end pass all of it on.    *)
(***************************************************************************)
Discards(c) == Erases(c) \/ SignalOf(c) # {}

NothingLost ==
   Len(icanon') < Len(icanon) /\ ~(lock = Terminal /\ Discards(InputOf(Head(rest))))
      => Len(buffer'[1]) >= Len(buffer[1]) + Len(icanon)

(***************************************************************************)
(* Erasing takes whole characters, never a part of a UTF-8 sequence, and a *)
(* word with the blanks after it: what is left is nothing or ends in the   *)
(* blank before the word.                                                  *)
(***************************************************************************)
ErasesCharacters ==
   lock = Terminal /\ Erases(Head(rest)) /\ icanon' # icanon
      => /\ Len(icanon') + 1 \in Starts(icanon)
         /\ Head(rest) = "VWERASE" /\ icanon' # <<>>
              => /\ Last(icanon') \in Blank
                 /\ \E k \in (Len(icanon') + 1) .. Len(icanon) : icanon[k] \notin Blank
=============================================================================
