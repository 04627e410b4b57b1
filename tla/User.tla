------------------------------- MODULE User ---------------------------------
(***************************************************************************)
(* What a user meets: the console's screen (module Console), streams of    *)
(* the C library (Stdio), the shell's parser (DshParse), and, in this      *)
(* module, control sequences (base/console.c), the rest of the shell       *)
(* (dsh): its pipelines, redirections, words, variables and its line       *)
(* editor, the arguments of the programs and tools, vsnprintf, and the     *)
(* linker of the build (dy-link).                                          *)
(***************************************************************************)
EXTENDS Integers, FiniteSets, Sequences, TLC, SequencesExt, FiniteSetsExt

CONSTANTS
  Parts,                \* the parts that move
  Input,                \* characters that are written
  EscLimit,             \* size of esc_buffer
  CountLimit,           \* parameters at most
  ValueLimit,           \* and their value
  MaxChars,             \* bound: characters
  MaxParts,             \* parts of a pipeline
  Amount,               \* pieces of data a process writes
  Output,               \* pieces of data a built-in command writes
  CanFail,              \* pipe() and fcntl() may fail
  LineRoom,             \* bytes of a line (DSH_PROMPT_BUFFER_SIZE - 8)
  LineColumns,          \* columns behind the prompt, at least eight in the code
  EscapeRoom,           \* bytes of a control sequence (7)
  Remembered,           \* entries of the history (32)
  MaxBytes,             \* bound on the bytes of the terminal
  RedirRoom,            \* entries of fd_array (16)
  MaxRedirs,            \* bound on the operators
  Chars,                \* characters of a text
  MaxText,              \* length of a text
  WordRoom,             \* characters of a word (511)
  VarNames, VarValues,  \* names and values
  VarRooms,             \* entries the array has room for (dsh_var_end - 1)
  MaxCommands,          \* bound on the assignments and commands
  MaxWords,             \* bound on the arguments
  PrintLibs,            \* of "kernel", "libc32", "libc64"
  PrintSizes,           \* sizes of the caller's buffer
  PrintValues,          \* arguments of number conversions, without a sign
  PrintWidths,          \* field widths
  PrintPrecs,           \* precisions
  Formats               \* output formats: "default", "uefi", "init", "at", "obj", "lib"

VARIABLES
  part,  \* the part that moves
  esc,                 \* esc_buffer, empty or beginning with ESC
  nchars,
  event,               \* history: what the last character did: nothing, printed, control, or a function
  inputText,           \* history: esc_buffer when the function was found
  pipeParts,           \* the kind of each part
  pipeNoWait,          \* the pipeline ends with &
  pipePc, pipeCur,     \* of the shell: where it is and at which part
  made,                \* pipes that were created
  fds,                 \* ends of pipes that the shell has open
  pgroup,              \* the process group: the first process that was started
  procs,               \* processes: "none", "run", "zombie" or "gone"
  pipeEnds,            \* ends each process has open
  todo,                \* data a process (or the built-in command) will still write
  pipeData,            \* data in each pipe
  pipeCode,            \* dsh_exit_code: "old", "ok", "some" (of the last process) or "error"
  editBuf, editCur,    \* buffer and buffer_state[0]
  escape,              \* bytes of the control sequence
  skip,                \* skip_render
  history, past,       \* history[], without its NULLs, and history_state
  half,                \* c[1] was the first byte of two
  raw,                 \* the terminal is not in its default mode
  editPhase,           \* "away", "read", "draw"
  bytes,               \* bytes so far
  redirGiven,          \* the operators so far, as they are meant
  piped,               \* whether pipe_fd_in and pipe_fd_out are there
  array,               \* fd_array: what is put where
  redirFiles,          \* close_fd of fd_array: files the shell has open
  redirOut, redirErr,  \* fd_out, fd_err
  shell,               \* the descriptor table of the shell
  redirSaved,          \* current_fd_out, current_fd_err: numbers, or -1
  redirGot,            \* the table of the command
  redirPhase,          \* "read"; "program", "builtin", "failed"; put back: "done", "ran", "error"
  tokenText,           \* the input
  param,               \* what "$" stands for: [v, colon, op, word]
  halted,              \* an error that ends a script (dsh_operate_state)
  tokens,              \* tokens so far
  pos,                 \* token->_i
  state,               \* "read", "end", "error"
  room,                \* dsh_var_end - 1
  arr,                 \* dsh_var_array
  varGiven,            \* assignments in front of the command that is read
  env,                 \* what dsh_environ returned last
  commands,            \* assignments and commands so far
  varAt,               \* "prompt", "line", "words" behind an assignment, "ran", "end"
  prog,                \* the program: an entry of Programs
  args,                \* the arguments as they were given
  argsArgv,            \* the array; Null where an option was
  argsI,               \* argv_i
  letters,             \* what is left of an argument with letters (arg)
  found,               \* options that were set
  values,              \* arguments of options
  argsAt,              \* "word", "letters", "compact", "operate", or how it ended
  printMode,           \* whose vsnprintf it is
  printSize,           \* n of the caller
  printN,              \* characters that fit before the terminating zero
  format,              \* the items of the format
  printIn,             \* the next of them
  printS,              \* the characters written in this pass
  printText,           \* the caller's buffer once a second pass runs
  printCount,          \* what %n stored, -1 before
  ret,                 \* the value returned, -1 for an error
  printAt,             \* "start", "run", "end", "again", "done", "killed"
  linkFiles,           \* opt->ofiles: type 0 is linked, 1 is of a library, -1 is empty
  fmt,                 \* opt->arg_f
  linkOut,             \* the object that is made: syms, rels, size of each section
  place,               \* offset of each section of each file (sec[12]), -1 if it is left out
  lib,                 \* the files that were given; making a library: files to come, members so far, its index
  linkAt,              \* the step that comes next, "done", "failed"
  \* of Console
  con, shown, screen, screenBusy, nops, due, did, screenKept,
  \* of Stdio
  held, stdioFd, file, stdioOff, stdioMode, bmode, stdioSize, stdioBuf,
  start, written, pushed, eof, stdioErr, call, view, stdioAt,
  \* of DshParse
  line, cmds, parseOpen, parsePc, p1, p2, prev, exit, operate, ran, error

ScrollOps == {"a", "LF", "RI", "IL", "DL", "SU", "SD", "STBM", "STBM0", "CUP", "SGR", "BS", "HT", "ED", "CUD"}
CursorOps == {"a", "space", "BS", "HT", "CR", "LF", "CUU", "CUD", "CUF", "CUB", "CNL", "CPL", "CHA", "VPA",
              "CHT", "CBT", "ICH", "DCH", "ECH", "ED0", "EL", "EL0", "HTS", "TBC", "TBC0"}
ModeOps == {"a", "STBR", "CUP", "SC", "RC", "SHOW", "HIDE", "ALT", "MAIN", "RIS"}
\* What a part that stands still has.
Rests == /\ part # "pipe" => pipeParts = <<"process">> /\ ~pipeNoWait
         /\ part # "redir" => ~piped.reads /\ ~piped.writes
TokenRests == tokenText = <<>> /\ param = "none" /\ halted = FALSE /\ tokens = <<>> /\ pos = 1 /\ state = "end"
VarRests == room = 0 /\ arr = <<>> /\ varGiven = <<>> /\ env = <<>> /\ commands = 0 /\ varAt = "end"
ArgsRests == prog = <<>> /\ args = <<>> /\ argsArgv = <<>> /\ argsI = 0 /\ letters = <<>> /\ found = {} /\ values = <<>> /\ argsAt = "done"
PrintRests == /\ printMode = "kernel" /\ printSize = 0 /\ printN = 0 /\ format = <<>> /\ printIn = 1 /\ printS = <<>> /\ printText = <<>>
              /\ printCount = -1 /\ ret = -1 /\ printAt = "done"
LinkRests == linkFiles = <<>> /\ fmt = "obj" /\ linkOut = <<>> /\ place = <<>> /\ lib = <<>> /\ linkAt = "done"

Scrolling == INSTANCE Console
  WITH Consoles <- {"c1"}, Columns <- 3, Rows <- 3, Ops <- ScrollOps,
       Params <- {1, 2}, MaxOps <- 4, busy <- screenBusy, kept <- screenKept
Moving == INSTANCE Console
  WITH Consoles <- {"c1"}, Columns <- 4, Rows <- 2, Ops <- CursorOps,
       Params <- {1, 3}, MaxOps <- 3, busy <- screenBusy, kept <- screenKept
Switching == INSTANCE Console
  WITH Consoles <- {"c1", "c2"}, Columns <- 2, Rows <- 2, Ops <- ModeOps,
       Params <- {1, 2}, MaxOps <- 4, busy <- screenBusy, kept <- screenKept
Stream == INSTANCE Stdio
  WITH Bytes <- {"x", "nl"}, NL <- "nl", None <- "none", BufSiz <- 2,
       MaxLen <- 2, fd <- stdioFd, off <- stdioOff, mode <- stdioMode,
       size <- stdioSize, buf <- stdioBuf, err <- stdioErr, at <- stdioAt
Shell == INSTANCE DshParse
  WITH Words <- {"t", "f", "i", "x"},
       Ops <- {"&&", "||", ";", "&", "|", ">"}, MaxTokens <- 5, Limit <- 6,
       open <- parseOpen, pc <- parsePc
-----------------------------------------------------------------------------
(***************************************************************************)
(* How con_write_locked (base/console.c) finds control functions in what   *)
(* is written: the escape buffer, the parameters that con_handle_escape    *)
(* reads from it, and which of them are applied.                           *)
(*                                                                         *)
(* Characters are named; "d2", "d5" and "d8" stand for the digits, "m" and *)
(* "h" for the final characters whose parameters are a list, "x" for one   *)
(* outside of ASCII.                                                       *)
(***************************************************************************)

InputDigit == [d2 |-> 2, d5 |-> 5, d8 |-> 8]
InputDigits == DOMAIN InputDigit
Finals == {"m", "h", "A"}
Alternate == 8  \* stands for 1049
Extended == 8 \* stands for 38 and 48

inputVars == <<esc, nchars, event, inputText>>

Nothing == [kind |-> "none", params |-> <<>>, applied |-> <<>>]
Does(k) == [Nothing EXCEPT !.kind = k]

InputTypeOK ==
  /\ Len(esc) < EscLimit /\ (esc # <<>> => esc[1] = "ESC")
  /\ Len(event.params) <= CountLimit
  /\ \A i \in DOMAIN event.params : event.params[i] \in 0 .. ValueLimit

InputInit == esc = <<>> /\ nchars = 0 /\ event = Nothing /\ inputText = <<>>

-----------------------------------------------------------------------------
(* con_handle_escape.                                                       *)

\* parameter > value_limit.
Cap(v) == IF v > ValueLimit THEN ValueLimit ELSE v

ReadCharKeeps(acc, c) ==
  IF acc.bad \/ c \in InputDigits
  THEN [acc EXCEPT !.value = IF acc.bad THEN @ ELSE Cap(@ * 10 + InputDigit[c]), !.open = TRUE]
  ELSE IF c = ";" /\ Len(acc.params) < CountLimit
       THEN [acc EXCEPT !.params = Append(@, acc.value), !.open = FALSE]
       ELSE [acc EXCEPT !.bad = TRUE]

\* The loop over the characters after "[" and "?": the parameter being read,
\* those read before, and whether the sequence is given up.
ReadChar(acc, c) ==
  IF acc.bad \/ c \in InputDigits
  THEN [acc EXCEPT !.value = IF acc.bad THEN @ ELSE Cap(@ * 10 + InputDigit[c]), !.open = TRUE]
  ELSE IF c = ";" /\ Len(acc.params) < CountLimit
       THEN [acc EXCEPT !.params = Append(@, acc.value), !.value = 0, !.open = FALSE]
       ELSE [acc EXCEPT !.bad = TRUE]

Body(e) ==
  LET from == IF Len(e) > 2 /\ e[3] = "?" THEN 4 ELSE 3 IN SubSeq(e, from, Len(e) - 1)

\* A final character after digits ends a last parameter; there is one more
\* only when there is room.
Parsed(e) ==
  LET r == FoldLeft(ReadChar, [params |-> <<>>, value |-> 0, open |-> FALSE, bad |-> FALSE], Body(e)) IN
  [bad |-> r.bad \/ (r.open /\ Len(r.params) = CountLimit),
   params |-> IF r.open /\ Len(r.params) < CountLimit THEN Append(r.params, r.value) ELSE r.params]

\* Behind the parameters that were read, and behind the array, is anything.
ReadAt(ps, i) == IF i <= Len(ps) THEN {ps[i]} ELSE 0 .. ValueLimit

\* Select Graphic Rendition: no parameter is a zero; an extended colour takes
\* its own parameters with it, four of them after a two, and then the next
\* place is read again, and two after a five.
RECURSIVE Rendition(_, _)
Rendition(ps, i) ==
  IF i > Len(ps) THEN {<<>>}
  ELSE LET ext == ps[i] = Extended /\ i + 1 <= Len(ps)
           j == IF ext /\ ps[i + 1] = 2 THEN i + 4 ELSE i
           ends == IF ext THEN {IF v = 5 THEN j + 2 ELSE j : v \in ReadAt(ps, j + 1)} ELSE {j}
       IN  {<<ps[i]>> \o r : r \in UNION {Rendition(ps, k + 1) : k \in ends}}

Sgr(ps) == Rendition(IF ps = <<>> THEN <<0>> ELSE ps, 1)

\* The loop of "h" and "l" uses its counter for the cells too: nothing after
\* the change of the screen is looked at.
Modes(ps) ==
  LET alts == {i \in DOMAIN ps : ps[i] = Alternate} IN
  IF alts = {} THEN ps ELSE SubSeq(ps, 1, Min(alts))

\* What the sequence may do.
HandleEscape(e) ==
  IF Len(e) < 2 \/ e[2] # "[" THEN {Does("plain")}
  ELSE LET p == Parsed(e) IN
       IF p.bad THEN {Does("ignored")}
       ELSE {[kind |-> Last(e), params |-> p.params, applied |-> a] :
               a \in CASE Last(e) = "m" -> Sgr(p.params)
                      [] Last(e) = "h" /\ e[3] = "?" -> {Modes(p.params)}
                      [] OTHER -> {p.params}}

-----------------------------------------------------------------------------
(* con_write_locked.                                                        *)

Intermediate == InputDigits \cup {";", "?", "["}

RoomAlways == TRUE

RoomLess == Len(esc) + 3 <= EscLimit

\* esc_size + 2 > sizeof(esc_buffer).
Room == Len(esc) + 2 <= EscLimit

\* CAN and SUB forget the sequence.
Cancel(c) == c = "CAN" /\ esc' = <<>> /\ event' = Nothing /\ UNCHANGED inputText

\* Within a sequence characters are kept up to the final one; without room the
\* sequence is forgotten and the character is an ordinary one.
Collect(c) ==
  /\ esc # <<>> /\ Room
  /\ \/ c \in Intermediate /\ ~(Len(esc) = 1 /\ c = "d8")
        /\ esc' = Append(esc, c) /\ event' = Nothing /\ UNCHANGED inputText
     \/ (c \in Finals \/ (Len(esc) = 1 /\ c = "d8"))
        /\ esc' = <<>> /\ inputText' = Append(esc, c) /\ event' \in HandleEscape(Append(esc, c))

Overflow(c) ==
  /\ esc # <<>> /\ ~Room /\ c \notin {"CAN", "ESC", "CSI"}
  /\ esc' = <<>> /\ event' = Does(IF c = "LF" THEN "control" ELSE "printed") /\ UNCHANGED inputText

\* Outside of a sequence, or a character that does not belong to one.
Ordinary(c) ==
  /\ \/ esc = <<>> /\ c # "CAN"
     \/ esc # <<>> /\ Room /\ c \in {"LF", "x", "ESC", "CSI"}
     \/ esc # <<>> /\ ~Room /\ c \in {"ESC", "CSI"}
  /\ esc' = CASE c = "ESC" -> <<"ESC">> [] c = "CSI" -> <<"ESC", "[">> [] OTHER -> esc
  /\ event' = Does(IF c \in {"LF", "ESC", "CSI"} THEN "control" ELSE "printed") /\ UNCHANGED inputText

Char(c) ==
  /\ nchars < MaxChars /\ nchars' = nchars + 1
  /\ Cancel(c) \/ Collect(c) \/ Overflow(c) \/ Ordinary(c)

InputNext == \E c \in Input : Char(c)

-----------------------------------------------------------------------------
(* The parameters of a function are the numbers between its semicolons, an  *)
(* empty one being zero and an empty last one none; a number too large is   *)
(* the limit.  A sequence with anything else in it, or with too many, has   *)
(* no effect (con_handle_escape).                                           *)
FieldValue(f) == FoldLeft(LAMBDA v, d : IF v * 10 + InputDigit[d] > ValueLimit THEN ValueLimit ELSE v * 10 + InputDigit[d], 0, f)
InputFields(b) ==
  LET seps == {i \in DOMAIN b : b[i] = ";"}
      ends == seps \cup (IF b = <<>> \/ Last(b) = ";" THEN {} ELSE {Len(b) + 1})
      field(e) == SubSeq(b, Max({0} \cup {i \in seps : i < e}) + 1, e - 1)
      kth(k) == CHOOSE e \in ends : Cardinality({i \in ends : i <= e}) = k
  IN  [k \in 1 .. Cardinality(ends) |-> FieldValue(field(kth(k)))]

ParametersRead ==
  (event.kind \in Finals \cup {"ignored"}) =>
    LET b == Body(inputText)
        good == \A i \in DOMAIN b : b[i] \in InputDigits \cup {";"}
    IN  IF good /\ Len(InputFields(b)) <= CountLimit THEN event.kind # "ignored" /\ event.params = InputFields(b)
        ELSE event.kind = "ignored"

(* The place that console.c:659 looks at again after the four parameters of *)
(* a colour may lie behind all that was read, and behind the array: what    *)
(* happens to be there does not change what the function does.             *)
RenditionSettled == event.kind = "m" => Cardinality(Sgr(event.params)) = 1

(* What belongs to a control function is not printed, unless it is longer   *)
(* than the buffer: a printed character is outside of a sequence, or is not *)
(* one that a sequence can have.                                            *)
NothingPrinted ==
  (event'.kind = "printed" /\ nchars' # nchars /\ esc # <<>>) => (esc' = esc \/ Len(esc) + 2 > EscLimit)
-----------------------------------------------------------------------------
(***************************************************************************)
(* Running a pipeline in the shell (dsh/parser.c: parse_pipeline and the   *)
(* second half of parse_pipeline_part; dsh/execute.c): creating the pipes, *)
(* starting a process or calling a built-in command for each part, closing *)
(* the shell's ends, and waiting. Pipe k leads from part k to part k + 1.  *)
(* The processes (external) write some data, read until the end of their   *)
(* input, and exit; each pipe has room for one piece of data.              *)
(***************************************************************************)

Kinds == {"process", "builtin", "missing"}

pipeVars == <<pipeParts, pipeNoWait, pipePc, pipeCur, made, fds, pgroup, procs, pipeEnds, todo, pipeData, pipeCode>>
job == <<pipeParts, pipeNoWait>>
kernel == <<procs, pipeEnds, todo, pipeData>>

N == Len(pipeParts)
PartNos == 1..MaxParts
Pipes == 1..(MaxParts - 1)
PipeEnd(k, side) == <<k, side>>

-----------------------------------------------------------------------------
(* parse_pipeline: the pipes *)

MakePipe ==
    /\ pipePc = "make" /\ made < N - 1
    /\ made' = made + 1
    /\ fds' = fds \cup {PipeEnd(made + 1, "r"), PipeEnd(made + 1, "w")}
    /\ UNCHANGED <<job, pipePc, pipeCur, pgroup, kernel, pipeCode>>

\* pipe() failed: what was created is closed again.
MakeFails ==
    /\ pipePc = "make" /\ made < N - 1 /\ CanFail
    /\ fds' = {} /\ pipePc' = "done" /\ pipeCode' = "error"
    /\ UNCHANGED <<job, pipeCur, made, pgroup, kernel>>

MakeDone ==
    /\ pipePc = "make" /\ made = N - 1
    /\ pipePc' = "part" /\ pipeCur' = 1
    /\ UNCHANGED <<job, made, fds, pgroup, kernel, pipeCode>>

-----------------------------------------------------------------------------
(* parse_pipeline_part and dsh_execute *)

\* Mutant: a process inherits the other pipes of the shell.
GivesAll(p) ==
    (IF p > 1 THEN {PipeEnd(p - 1, "r")} ELSE {}) \cup (IF p < N THEN {PipeEnd(p, "w")} ELSE {}) \cup fds
\* The ends that become the input and the output; the others close on exec.
Gives(p) ==
    (IF p > 1 THEN {PipeEnd(p - 1, "r")} ELSE {}) \cup (IF p < N THEN {PipeEnd(p, "w")} ELSE {})

\* Mutant: the shell keeps its ends of the input pipe.
ClosesNone(p) == {}
\* state->pipe_fd: both ends of the pipe that the new process reads from.
Closes(p) == {PipeEnd(p - 1, "r"), PipeEnd(p - 1, "w")}

\* The last part is waited for, unless the pipeline is in the background.
Waits(p) == p = N /\ ~pipeNoWait

Spawn ==
    /\ pipePc = "part" /\ pipeParts[pipeCur] = "process"
    /\ procs' = [procs EXCEPT ![pipeCur] = "run"]
    /\ pipeEnds' = [pipeEnds EXCEPT ![pipeCur] = Gives(pipeCur)]
    /\ todo' = [todo EXCEPT ![pipeCur] = Amount]
    /\ fds' = fds \ Closes(pipeCur)
    /\ IF Waits(pipeCur) THEN pipePc' = "wait" /\ UNCHANGED pipeCode ELSE pipePc' = "next" /\ pipeCode' = "ok"
    /\ UNCHANGED <<job, pipeCur, made, pgroup, pipeData>>

\* No such program, or it cannot be started. The shell goes on.
SpawnFails ==
    /\ pipePc = "part" /\ pipeParts[pipeCur] = "missing"
    /\ pipeCode' = "error" /\ pipePc' = "next"
    /\ UNCHANGED <<job, pipeCur, made, fds, pgroup, kernel>>

\* handle_builtin: standard output is replaced, and restored after the call.
PipeBuiltin ==
    /\ pipePc = "part" /\ pipeParts[pipeCur] = "builtin"
    /\ pipePc' = "builtin" /\ todo' = [todo EXCEPT ![pipeCur] = IF pipeCur < N THEN Output ELSE 0]
    /\ UNCHANGED <<job, pipeCur, made, fds, pgroup, procs, pipeEnds, pipeData, pipeCode>>

BuiltinWrite ==
    /\ pipePc = "builtin" /\ todo[pipeCur] > 0 /\ pipeData[pipeCur] = 0
    /\ pipeData' = [pipeData EXCEPT ![pipeCur] = 1] /\ todo' = [todo EXCEPT ![pipeCur] = @ - 1]
    /\ UNCHANGED <<job, pipePc, pipeCur, made, fds, pgroup, procs, pipeEnds, pipeCode>>

BuiltinEnd ==
    /\ pipePc = "builtin" /\ todo[pipeCur] = 0
    /\ pipePc' = "next" /\ pipeCode' = "ok"
    /\ UNCHANGED <<job, pipeCur, made, fds, pgroup, kernel>>

\* waitpid(-1) until the last process has ended; others that ended are reaped.
WaitOther ==
    /\ pipePc = "wait"
    /\ \E p \in PartNos : p # pipeCur /\ procs[p] = "zombie" /\ procs' = [procs EXCEPT ![p] = "gone"]
    /\ UNCHANGED <<job, pipePc, pipeCur, made, fds, pgroup, pipeEnds, todo, pipeData, pipeCode>>

WaitLast ==
    /\ pipePc = "wait" /\ procs[pipeCur] = "zombie"
    /\ procs' = [procs EXCEPT ![pipeCur] = "gone"]
    /\ pipeCode' = "some" /\ pipePc' = IF pgroup # 0 THEN "group" ELSE "next"
    /\ UNCHANGED <<job, pipeCur, made, fds, pgroup, pipeEnds, todo, pipeData>>

\* waitpid for the group until there is nobody left in it.
WaitGroup ==
    /\ pipePc = "group"
    /\ \/ \E p \in PartNos : procs[p] = "zombie" /\ procs' = [procs EXCEPT ![p] = "gone"]
                               /\ UNCHANGED pipePc
       \/ (\A p \in PartNos : procs[p] \in {"none", "gone"}) /\ pipePc' = "next" /\ UNCHANGED procs
    /\ UNCHANGED <<job, pipeCur, made, fds, pgroup, pipeEnds, todo, pipeData, pipeCode>>

\* Mutant: a process group is not kept.
LeaderNone == 0
\* The first process that was started leads the group.
Leader == IF pgroup = 0 /\ pipeParts[pipeCur] = "process" THEN pipeCur ELSE pgroup

\* Mutant: one part too many.
MoreOff == pipeCur <= N
PipeMore == pipeCur < N

NextPart ==
    /\ pipePc = "next"
    /\ pgroup' = Leader
    /\ IF PipeMore THEN pipeCur' = pipeCur + 1 /\ pipePc' = "part" ELSE pipeCur' = pipeCur /\ pipePc' = "close"
    /\ UNCHANGED <<job, made, fds, kernel, pipeCode>>

\* Mutant: only the read ends are closed at the end.
LeftOverReads == {e \in fds : e[2] = "w"}
LeftOver == {}

CloseAll ==
    /\ pipePc = "close"
    /\ fds' = LeftOver /\ pipePc' = "done"
    /\ UNCHANGED <<job, pipeCur, made, pgroup, kernel, pipeCode>>

-----------------------------------------------------------------------------
(* The processes and the pipes (external) *)

Readers(k) == PipeEnd(k, "r") \in fds \/ (\E p \in PartNos : PipeEnd(k, "r") \in pipeEnds[p])
Writers(k) == PipeEnd(k, "w") \in fds \/ (\E p \in PartNos : PipeEnd(k, "w") \in pipeEnds[p])

ProcWrite(p) ==
    /\ procs[p] = "run" /\ todo[p] > 0 /\ PipeEnd(p, "w") \in pipeEnds[p]
    /\ pipeData[p] = 0 /\ Readers(p)
    /\ pipeData' = [pipeData EXCEPT ![p] = 1] /\ todo' = [todo EXCEPT ![p] = @ - 1]
    /\ UNCHANGED <<job, pipePc, pipeCur, made, fds, pgroup, procs, pipeEnds, pipeCode>>

ProcRead(p) ==
    /\ procs[p] = "run" /\ PipeEnd(p - 1, "r") \in pipeEnds[p] /\ pipeData[p - 1] = 1
    /\ pipeData' = [pipeData EXCEPT ![p - 1] = 0]
    /\ UNCHANGED <<job, pipePc, pipeCur, made, fds, pgroup, procs, pipeEnds, todo, pipeCode>>

\* At the end of its input and its output, when nobody reads its output, or
\* early.
MayExit(p) ==
    \/ /\ PipeEnd(p - 1, "r") \in pipeEnds[p] => pipeData[p - 1] = 0 /\ ~Writers(p - 1)
       /\ PipeEnd(p, "w") \in pipeEnds[p] => todo[p] = 0
    \/ PipeEnd(p, "w") \in pipeEnds[p] /\ ~Readers(p)

ProcExit(p, early) ==
    /\ procs[p] = "run" /\ (early \/ MayExit(p))
    /\ procs' = [procs EXCEPT ![p] = "zombie"]
    /\ pipeEnds' = [pipeEnds EXCEPT ![p] = {}]
    /\ UNCHANGED <<job, pipePc, pipeCur, made, fds, pgroup, todo, pipeData, pipeCode>>

PipeInit ==
    /\ \E n \in 1..MaxParts : pipeParts \in [1..n -> Kinds]
    /\ pipeNoWait \in BOOLEAN
    /\ pipePc = "make" /\ pipeCur = 0 /\ made = 0 /\ fds = {} /\ pgroup = 0
    /\ procs = [p \in PartNos |-> "none"] /\ pipeEnds = [p \in PartNos |-> {}]
    /\ todo = [p \in PartNos |-> 0] /\ pipeData = [k \in Pipes |-> 0]
    /\ pipeCode = "old"

PipeShell == MakePipe \/ MakeDone \/ Spawn \/ SpawnFails \/ PipeBuiltin \/ BuiltinWrite \/ BuiltinEnd
         \/ WaitOther \/ WaitLast \/ WaitGroup \/ NextPart \/ CloseAll

PipeNext ==
    \/ PipeShell \/ MakeFails
    \/ \E p \in PartNos : ProcWrite(p) \/ ProcRead(p) \/ (\E early \in BOOLEAN : ProcExit(p, early))

-----------------------------------------------------------------------------
(* Properties *)

PipeTypeOK ==
    /\ fds \subseteq {PipeEnd(k, s) : k \in Pipes, s \in {"r", "w"}}
    /\ pipeCur \in 0..N /\ pgroup \in 0..N
    /\ \A k \in Pipes : pipeData[k] \in {0, 1}

\* When the shell waits for the last process, it has no end of that process's
\* input open: the process can see the end of it.
EndSeen == pipePc = "wait" => \A e \in fds : e[1] # pipeCur - 1

\* A pipeline leaves no end of a pipe open in the shell, whichever parts could
\* be started and wherever an error came up.
NoLeak == pipePc = "done" => fds = {}

\* A process has only the ends that are its own input and output.
OwnEnds == \A p \in PartNos : pipeEnds[p] \subseteq {PipeEnd(p - 1, "r"), PipeEnd(p, "w")}

\* In the foreground no process of a pipeline is left to be waited for when its
\* last part was a process.
GroupReaped ==
    pipePc = "done" /\ ~pipeNoWait /\ pipeCode = "some" => \A p \in PartNos : procs[p] \in {"none", "gone"}

\* A built-in command or a program that is missing in a later part keeps the
\* shell's ends of its input open until the whole pipeline has ended; and a
\* built-in command that writes more than its pipe holds has no reader yet.
\* Both can stop a pipeline for good.
Clean == \A p \in 1..N : pipeParts[p] = "process" \/ (p = 1 /\ (pipeParts[p] = "missing" \/ Output <= 1))

\* Any other pipeline goes on until the shell has waited for it: shell and
\* processes never all wait for an end of a pipe that one of them holds.
GoesOn == Clean /\ pipePc # "done" => ENABLED PipeNext
-----------------------------------------------------------------------------
(***************************************************************************)
(* The line editor of the shell (dsh/prompt.c) and the completion of words *)
(* (dsh/tab.c). Bytes come one at a time: plain characters, the first byte *)
(* "U" and the second byte "u" of a character of two, and control          *)
(* sequences. The line is drawn after each complete character, trimmed on  *)
(* both sides to the columns of the screen.                                *)
(***************************************************************************)

editVars == <<editBuf, editCur, escape, skip, history, past, half, raw, editPhase, bytes>>

IsSecond(b) == b = "u"
IsFirst(b) == b = "U"
IsHigh(b) == b \in {"U", "u"}
Control == {"esc", "tab", "del", "cr", "nl", "eot"}
Parameter == {"3"}
\* Bytes of a text, "q" a quote and "c" the command cd, and of control sequences.
EditPlain == {"a", "c", "q", " ", "U"} \cup Control
Sequel == {"[", "3", "~", "A", "B", "C", "D", "F", "H", "U", "nl", "cr"}

-----------------------------------------------------------------------------
(* The buffer *)

\* add_char at the cursor, for each byte of s; an escape is shown as a dot.
EditInsert(s) ==
    FoldLeft(LAMBDA r, b : IF Len(r.editBuf) >= LineRoom THEN r
                           ELSE [editBuf |-> SubSeq(r.editBuf, 1, r.editCur) \o <<b>> \o SubSeq(r.editBuf, r.editCur + 1, Len(r.editBuf)),
                                 editCur |-> r.editCur + 1],
             [editBuf |-> editBuf, editCur |-> editCur],
             FlattenSeq([k \in 1 .. Len(s) |-> IF s[k] = "esc" THEN <<"U", "u">>
                                               ELSE IF s[k] \in Control THEN <<>> ELSE <<s[k]>>]))

\* The end of the character that starts behind k.
Beyond(k) == IF k >= Len(editBuf) THEN Len(editBuf)
             ELSE CHOOSE n \in k + 1 .. Len(editBuf) :
                    /\ n = Len(editBuf) \/ ~IsSecond(editBuf[n + 1])
                    /\ \A l \in k + 2 .. n : IsSecond(editBuf[l])
\* The start of the character in front of k.
EditBefore(k) == CHOOSE n \in 0 .. k - 1 :
                    /\ n = 0 \/ ~IsSecond(editBuf[n + 1])
                    /\ \A l \in n + 2 .. k : IsSecond(editBuf[l])

\* del_char at k
Deleted(k) == [editBuf |-> SubSeq(editBuf, 1, k) \o SubSeq(editBuf, Beyond(k) + 1, Len(editBuf)), editCur |-> k]

\* move_cursor
Left == IF editCur = 0 THEN 0 ELSE EditBefore(editCur)
Right == Beyond(editCur)

EditSet(r) == editBuf' = r.editBuf /\ editCur' = r.editCur
EditStay == UNCHANGED <<editBuf, editCur>>

-----------------------------------------------------------------------------
(* Drawing *)

\* count_columns: a character counts when its last byte is there. Characters
\* have one or two bytes here (a bound); after the first byte of one with four
\* the code waits for eight more (prompt.c:133).
Columns(s) ==
    FoldLeft(LAMBDA r, b : IF ~IsHigh(b) THEN [n |-> r.n + 1, more |-> 0]
                           ELSE IF r.more > 0 THEN [n |-> r.n + 1, more |-> 0]
                           ELSE [n |-> r.n, more |-> IF IsFirst(b) THEN 1 ELSE 0],
             [n |-> 0, more |-> 0], s).n

\* The columns in front of and behind the cursor that are drawn.
Window ==
    LET right == Columns(SubSeq(editBuf, editCur + 1, Len(editBuf)))
        left == Columns(editBuf) - right
        over == left + right - LineColumns
        cut == IF over <= 0 THEN 0 ELSE IF left - over > LineColumns \div 2 THEN over
               ELSE IF left > LineColumns \div 2 THEN left - LineColumns \div 2 ELSE 0
    IN  [cut |-> cut, left |-> left - cut, right |-> IF over > cut THEN right - (over - cut) ELSE right]

\* Where drawing starts when cut columns are left out on the left: behind as
\* many starts of characters, the end of the line being one.
DrawFrom(cut) ==
    LET starts == {k \in 1 .. Len(editBuf) : k = Len(editBuf) \/ ~IsSecond(editBuf[k + 1])}
    IN  IF cut = 0 THEN 0
        ELSE IF Cardinality(starts) < cut THEN Len(editBuf) + 1
        ELSE CHOOSE k \in starts : Cardinality({l \in starts : l <= k}) = cut

-----------------------------------------------------------------------------
(* Completion *)

\* Commands that can be completed, and entries of the directory; a directory has
\* "/" at its end.
CommandNames == {<<"a">>, <<"c">>, <<"a", "a", "c">>}
PathNames == {<<"a", "c">>, <<"a", "/">>, <<"c", "a">>}

\* The word in front of the cursor, from the last blank on, and the names that
\* begin with it: commands in the first place, else entries of the directory,
\* behind cd only directories.
EditStart == CHOOSE k \in 0 .. editCur : (k = editCur \/ editBuf[k + 1] # " ") /\ \A l \in 1 .. k : editBuf[l] = " "
WordStart == LET b == {k \in EditStart + 1 .. editCur : editBuf[k] = " "}
             IN  IF b = {} THEN EditStart ELSE CHOOSE k \in b : \A l \in b : l <= k
EditWord == SubSeq(editBuf, WordStart + 1, editCur)
IsDirectory(n) == n[Len(n)] = "/"
AtCommand == WordStart = EditStart
OnlyDirs == ~AtCommand /\ editBuf[EditStart + 1] = "c" /\ editBuf[EditStart + 2] = " "
Names == IF AtCommand THEN CommandNames ELSE {n \in PathNames : OnlyDirs => IsDirectory(n)}
Matches == {n \in Names : IsPrefix(EditWord, n)}
OpenQuote == Cardinality({k \in 1 .. editCur : editBuf[k] = "q"}) % 2 = 1

\* What all the names have in common behind the word.
EditCommon ==
    LET n == CHOOSE x \in Matches : TRUE
        agree(k) == \A m \in Matches : Len(m) >= k /\ SubSeq(m, 1, k) = SubSeq(n, 1, k)
        longest == CHOOSE k \in 0 .. Len(n) : agree(k) /\ \A l \in k + 1 .. Len(n) : ~agree(l)
    IN  SubSeq(n, Len(EditWord) + 1, longest)

\* The rest of the only name, and a blank unless it is a directory.
Rest == LET n == CHOOSE x \in Matches : TRUE
        IN  SubSeq(n, Len(EditWord) + 1, Len(n)) \o (IF IsDirectory(n) THEN <<>> ELSE <<" ">>)

\* tab: at the end of a word that is not quoted. What several names have in
\* common is added; a second tab in a row lists them, which changes nothing.
Tab ==
    IF (editCur < Len(editBuf) /\ editBuf[editCur + 1] # " ") \/ OpenQuote \/ Matches = {} THEN EditStay
    ELSE IF Cardinality(Matches) = 1 THEN EditSet(EditInsert(Rest))
    ELSE EditSet(EditInsert(EditCommon))

-----------------------------------------------------------------------------
(* History *)

\* Arrow keys: what is in the buffer replaces the entry that was shown, and the
\* neighbour is shown. Entry 0 is the line that is being written.
Recall(k) ==
    \/ /\ k \in 0 .. Len(history) - 1
       /\ history' = [history EXCEPT ![past + 1] = editBuf]
       /\ past' = k /\ editBuf' = history[k + 1] /\ editCur' = Len(history[k + 1])
    \/ UNCHANGED <<editBuf, editCur, history, past>>  \* no such entry, or no memory

\* The line is put in front of the others, unless it is blank or the same as
\* the last one.
EditBlank(s) == \A k \in 1 .. Len(s) : s[k] = " "
Kept(s) ==
    LET old == Tail(history)
    IN  IF EditBlank(s) \/ (old # <<>> /\ old[1] = s) THEN {<<>> \o old}
        ELSE {old, SubSeq(<<s>> \o old, 1, IF Len(old) + 1 < Remembered THEN Len(old) + 1 ELSE Remembered - 1)}

-----------------------------------------------------------------------------
\* dsh_prompt_read: save_termios sets up the terminal.
ReadStart ==
    /\ editPhase = "away" /\ bytes < MaxBytes
    /\ raw' = TRUE /\ editPhase' = "read" /\ editBuf' = <<>> /\ editCur' = 0 /\ escape' = <<>> /\ skip' = 0
    /\ history' = <<<<>>>> \o Tail(history) /\ past' = 0 /\ UNCHANGED <<half, bytes>>

\* The line is complete, or the input has ended without one; the terminal gets
\* its mode back.
ReadEnd(h) ==
    /\ history' = <<<<>>>> \o h /\ editPhase' = "away" /\ raw' = FALSE
    /\ editBuf' = <<>> /\ editCur' = 0 /\ escape' = <<>> /\ past' = 0

\* A control sequence ends with its last byte. One that ends in a high byte is
\* none: its bytes are put into the line.
Sequence(e) ==
    CASE e = <<"esc", "[", "3", "~">> -> EditSet(Deleted(editCur)) /\ UNCHANGED <<history, past>>
      [] e = <<"esc", "[", "A">> -> Recall(past + 1)
      [] e = <<"esc", "[", "B">> -> Recall(past - 1)
      [] e = <<"esc", "[", "C">> -> editCur' = Right /\ UNCHANGED <<editBuf, history, past>>
      [] e = <<"esc", "[", "D">> -> editCur' = Left /\ UNCHANGED <<editBuf, history, past>>
      [] e = <<"esc", "[", "F">> -> editCur' = Len(editBuf) /\ UNCHANGED <<editBuf, history, past>>
      [] e = <<"esc", "[", "H">> -> editCur' = 0 /\ UNCHANGED <<editBuf, history, past>>
      [] OTHER -> UNCHANGED <<editBuf, editCur, history, past>>

Escaped(c) ==
    LET e == IF Len(escape) < EscapeRoom THEN Append(escape, c) ELSE escape
    IN  IF c \in Parameter \cup {" "} \/ e \in {<<"esc", "[">>, <<"esc", "[", "[">>}
          THEN escape' = e /\ UNCHANGED <<editBuf, editCur, history, past>>
        ELSE IF IsHigh(c) THEN EditSet(EditInsert(e)) /\ escape' = <<>> /\ UNCHANGED <<history, past>>
        ELSE escape' = <<>> /\ Sequence(e)

\* One byte of the terminal.
EditKey(c) ==
    /\ editPhase = "read" /\ bytes < MaxBytes /\ bytes' = bytes + 1 /\ half' = IsFirst(c)
    /\ skip' = IF IsFirst(c) THEN 1 ELSE IF IsHigh(c) THEN skip ELSE 0
    /\ \/ c = "eot" /\ editBuf = <<>> /\ ReadEnd(Tail(history))
       \/ c = "nl" /\ \E h \in Kept(editBuf) : ReadEnd(h)
       \/ /\ c # "nl" /\ ~(c = "eot" /\ editBuf = <<>>) /\ editPhase' = "draw" /\ UNCHANGED raw
          /\ \/ c = "cr" /\ escape' = <<>> /\ EditStay /\ UNCHANGED <<history, past>>
             \/ c # "cr" /\ escape # <<>> /\ Escaped(c)
             \/ /\ c # "cr" /\ escape = <<>> /\ UNCHANGED <<history, past>>
                /\ escape' = IF c = "esc" THEN <<c>> ELSE <<>>
                /\ \/ c = "tab" /\ Tab
                   \/ c = "esc" /\ EditStay
                   \/ c = "del" /\ IF editCur = 0 THEN EditStay ELSE EditSet(Deleted(Left))
                   \/ c \notin {"tab", "esc", "del"} /\ EditSet(EditInsert(<<c>>))

\* render, which waits until a character is complete
Draw ==
    /\ editPhase = "draw" /\ editPhase' = "read" /\ skip' = IF skip > 0 THEN skip - 1 ELSE 0
    /\ UNCHANGED <<editBuf, editCur, escape, history, past, half, raw, bytes>>

\* It fails if the screen is too narrow or does not take the line.
DrawFails ==
    /\ editPhase = "draw" /\ ReadEnd(Tail(history)) /\ skip' = 0 /\ UNCHANGED <<half, bytes>>

EditInit ==
    /\ editBuf = <<>> /\ editCur = 0 /\ escape = <<>> /\ skip = 0 /\ history = <<<<>>>> /\ past = 0
    /\ half = FALSE /\ raw = FALSE /\ editPhase = "away" /\ bytes = 0

\* A terminal sends the bytes of a character one after the other.
EditBytes == IF half THEN {"u"} ELSE IF escape = <<>> THEN EditPlain ELSE Sequel
EditNext == ReadStart \/ Draw \/ DrawFails \/ \E c \in EditBytes : EditKey(c)

-----------------------------------------------------------------------------
\* The cursor is never inside a character that has been drawn, the buffer keeps
\* its room, and the terminal is in its own mode when nothing is read.
CursorRight ==
    /\ editCur \in 0 .. Len(editBuf) /\ Len(editBuf) <= LineRoom /\ past \in 0 .. Len(history) - 1
    /\ Len(history) <= Remembered
    /\ (editPhase = "read" /\ ~half /\ editCur < Len(editBuf)) => ~IsSecond(editBuf[editCur + 1]) \/ ~IsFirst(editBuf[IF editCur = 0 THEN 1 ELSE editCur])
    /\ raw = (editPhase # "away")

\* What is drawn is within the buffer and the screen, and has the cursor in it.
WindowRight ==
    editPhase = "draw" /\ skip = 0 =>
      /\ Window.left >= 0 /\ Window.right >= 0 /\ Window.left + Window.right <= LineColumns
      /\ DrawFrom(Window.cut) <= editCur
-----------------------------------------------------------------------------
(***************************************************************************)
(* Redirections of one program of a pipeline (parse_pipeline_part and      *)
(* handle_builtin of dsh/parser.c). The table of the shell has an entry,   *)
(* or NoFile, for each number; besides 0, 1 and 2 it holds the ends of the   *)
(* pipes, the files of operators and copies, each at the lowest number     *)
(* that was free. Operators are for 0, 1 and 2 (a bound).                  *)
(***************************************************************************)

redirVars == <<redirGiven, piped, array, redirFiles, redirOut, redirErr, shell, redirSaved, redirGot, redirPhase>>

NoFile == <<>>
Closed == 99   \* INT_MAX
Std == 0 .. 2
LastFd == 6 + MaxRedirs
Fds == 0 .. LastFd

\* What the shell starts with; p says which ends of pipes there are.
RedirOwn(p) ==
    LET in == IF p.reads THEN << <<"pipe in">> >> ELSE <<>>
        out == IF p.writes THEN << <<"pipe out">> >> ELSE <<>>
        all == << <<"in">>, <<"out">>, <<"err">> >> \o in \o out
    IN  [d \in Fds |-> IF d < Len(all) THEN all[d + 1] ELSE NoFile]
PipeIn == 3
PipeOut == IF piped.reads THEN 4 ELSE 3

\* open and dup: the lowest number that is free.
Lowest(t) == Min({d \in Fds : t[d] = NoFile})
\* dup2(from, to), which fails and changes nothing when from is not open, or
\* close(to).
RedirPut(t, to, from) ==
    IF from = Closed THEN [t EXCEPT ![to] = NoFile]
    ELSE IF t[from] = NoFile THEN t
    ELSE [t EXCEPT ![to] = t[from]]
Works(t, from) == IF from = Closed THEN TRUE ELSE t[from] # NoFile

-----------------------------------------------------------------------------
\* The files that were opened are closed, whatever happened.
Leave(t, p) ==
    /\ shell' = [d \in Fds |-> IF d \in redirFiles THEN NoFile ELSE t[d]]
    /\ redirFiles' = {} /\ redirPhase' = p

Reading == redirPhase = "read" /\ Len(redirGiven) < MaxRedirs
Given == <<redirGiven, piped, array, redirOut, redirErr>>

\* A word is missing, is several or cannot be opened, a number is not open that
\* way, or there are too many operators.
Fails ==
    /\ Reading \/ (redirPhase = "read" /\ Len(array) + 1 >= RedirRoom)
    /\ Leave(shell, "error") /\ UNCHANGED <<Given, redirSaved, redirGot>>

\* One more operator for the descriptors of to.
Added(to, from) ==
    /\ array' = array \o [k \in 1 .. Len(to) |-> [to |-> to[k], from |-> from]]
    /\ redirOut' = IF \E k \in 1 .. Len(to) : to[k] = 1 THEN from ELSE redirOut
    /\ redirErr' = IF \E k \in 1 .. Len(to) : to[k] = 2 THEN from ELSE redirErr
    /\ UNCHANGED <<piped, redirSaved, redirGot, redirPhase>>

\* < <> > >> to one descriptor, &> and &>> to two: the word behind the operator
\* is opened.
RedirFile(to) ==
    /\ Reading /\ Len(array) + Len(to) <= RedirRoom
    /\ LET fd == Lowest(shell)
           opened == <<"file", Len(redirGiven) + 1>>
       IN  /\ Added(to, fd) /\ redirFiles' = redirFiles \cup {fd}
           /\ shell' = [shell EXCEPT ![fd] = opened]
           /\ redirGiven' = Append(redirGiven, [to |-> {to[k] : k \in 1 .. Len(to)}, from |-> fd, what |-> opened])

\* <&n, >&n and >&-: the number is open in the shell.
RedirCopy(to, n) ==
    /\ Reading /\ Len(array) < RedirRoom /\ Works(shell, n)
    /\ Added(<<to>>, n) /\ UNCHANGED <<redirFiles, shell>>
    /\ redirGiven' = Append(redirGiven, [to |-> {to}, from |-> n, what |-> IF n = Closed THEN NoFile ELSE shell[n]])

-----------------------------------------------------------------------------
\* What one of descriptors 1 and 2 is while a command runs: it is copied, when
\* it can be, and replaced. at is the number of the copy, or -1.
Replaced(r, d, from, copied) ==
    IF ~r.works \/ from = -1 THEN r
    ELSE IF ~copied THEN [r EXCEPT !.works = FALSE]
    ELSE LET at == Lowest(r.t)
             t == [r.t EXCEPT ![at] = r.t[d]]
         IN  [t |-> RedirPut(t, d, from), works |-> Works(t, from), at |-> [r.at EXCEPT ![d] = at]]

NotReplaced == [t |-> shell, works |-> TRUE, at |-> [d \in {1, 2} |-> -1]]

Run(r, got, p) ==
    /\ shell' = r.t /\ redirSaved' = r.at /\ redirGot' = got /\ redirPhase' = p
    /\ UNCHANGED <<Given, redirFiles>>

\* handle_builtin: the command writes to what 1 and 2 of the shell are then.
RedirBuiltin(copied) ==
    /\ redirPhase = "read"
    /\ LET out == IF redirOut = -1 /\ piped.writes THEN PipeOut ELSE redirOut
           r == Replaced(Replaced(NotReplaced, 1, out, 1 \in copied), 2, redirErr, 2 \in copied)
       IN  IF r.works THEN Run(r, r.t, "builtin") ELSE Run(r, redirGot, "failed")

\* A program gets the pipes, and then the entries of the array in order;
\* nothing from 3 on stays open in it (O_CLOEXEC).
Started(t) ==
    LET u == IF piped.reads THEN RedirPut(t, 0, PipeIn) ELSE t
    IN  IF piped.writes THEN RedirPut(u, 1, PipeOut) ELSE u
Actions == SelectSeq(array, LAMBDA e : e.to # e.from)
Applied(t, k) == FoldLeft(LAMBDA u, e : RedirPut(u, e.to, e.from), t, SubSeq(Actions, 1, k))

\* posix_spawn fails when what is copied is not open.
Copies(t) == \A k \in DOMAIN Actions : Works(Applied(t, k - 1), Actions[k].from)

\* A program: while it is started, errors of the shell go where fd_err says.
RedirProgram(copied) ==
    /\ redirPhase = "read"
    /\ LET r == Replaced(NotReplaced, 2, redirErr, 2 \in copied)
           t == Started(r.t)
       IN  IF r.works /\ Copies(t) THEN Run(r, Applied(t, Len(Actions)), "program")
           ELSE Run(r, redirGot, "failed")

\* The copies are put back, and closed.
PutBack(t, d) ==
    IF redirSaved[d] = -1 THEN t
    ELSE [RedirPut(t, d, redirSaved[d]) EXCEPT ![redirSaved[d]] = NoFile]

Restore ==
    /\ redirPhase \in {"program", "builtin", "failed"}
    /\ Leave(PutBack(PutBack(shell, 1), 2),
             CASE redirPhase = "program" -> "done" [] redirPhase = "builtin" -> "ran" [] OTHER -> "error")
    /\ redirSaved' = [d \in {1, 2} |-> -1]
    /\ UNCHANGED <<Given, redirGot>>

RedirInit ==
    /\ piped \in [reads : BOOLEAN, writes : BOOLEAN]
    /\ redirGiven = <<>> /\ array = <<>> /\ redirFiles = {} /\ redirOut = -1 /\ redirErr = -1
    /\ shell = RedirOwn(piped) /\ redirSaved = [d \in {1, 2} |-> -1] /\ redirGot = RedirOwn(piped)
    /\ redirPhase = "read"

RedirNext ==
    \/ Fails \/ Restore
    \/ \E copied \in SUBSET {1, 2} : RedirProgram(copied) \/ RedirBuiltin(copied)
    \/ \E d \in Std : RedirFile(<<d>>)
    \/ RedirFile(<<1, 2>>)
    \/ \E d \in Std, n \in Fds \cup {Closed} : RedirCopy(d, n)

-----------------------------------------------------------------------------
\* What a descriptor means after the first k operators, read from the left.
RECURSIVE Means(_, _)
Means(k, d) ==
    IF k = 0 THEN Started(RedirOwn(piped))[d]
    ELSE IF d \notin redirGiven[k].to THEN Means(k - 1, d)
    ELSE IF redirGiven[k].from \in Std THEN Means(k - 1, redirGiven[k].from) ELSE redirGiven[k].what

\* A built-in command whose output is closed and whose errors are redirected:
\* the copy of 2 is put at 1, which is free (parser.c:131), stands for the
\* output while the command runs, is written over when 1 is put back, and is
\* closed as if it were a copy (parser.c:153-163).
CopyAtOne == redirOut = Closed /\ redirErr # -1

\* A program that starts has the descriptors its operators say, if none of them
\* copies descriptor 2; a built-in command writes where they say, if none of
\* them copies one of the three and its copies are apart.
RedirectsMeant ==
    /\ redirPhase = "done" /\ (\A k \in DOMAIN redirGiven : redirGiven[k].from # 2) =>
         \A d \in Std : redirGot[d] = Means(Len(redirGiven), d)
    /\ redirPhase = "ran" /\ ~CopyAtOne /\ (\A k \in DOMAIN redirGiven : redirGiven[k].from \notin Std) =>
         \A d \in {1, 2} : redirGot[d] = Means(Len(redirGiven), d)

\* The shell gets its own descriptors back and keeps no other open, whatever
\* failed, but for a built-in command with CopyAtOne: it leaves the shell
\* without an output, and with its errors where the output was.
ShellKeeps ==
    redirPhase \in {"done", "ran", "error"} =>
      /\ redirFiles = {}
      /\ \/ shell = RedirOwn(piped)
         \/ CopyAtOne /\ redirPhase # "done" /\ shell = [RedirOwn(piped) EXCEPT ![1] = NoFile, ![2] = <<"out">>]
-----------------------------------------------------------------------------
(***************************************************************************)
(* The words of a line (dsh/token.c): dsh_token_read returns the next      *)
(* token of the input, with quotes taken away and parameters replaced. A   *)
(* "$" of the text stands for one parameter with its braces and its word;  *)
(* a word with a pattern is read a second time, with the quoted characters *)
(* of the pattern escaped.                                                 *)
(***************************************************************************)

tokenVars == <<tokenText, param, halted, tokens, pos, state>>

TokenUnset == <<"unset">>
Patterns == {"*", "["}
Operator == {"&", ";", "<", ">", "|"}

Has(p) == p.v # TokenUnset /\ (p.colon => p.v # <<>>)

\* expand_substitute: the value of ${name}, ${name:-word} and the like. An
\* unset parameter with "=" gets the word, one with "?" is an error.
TokenSubstitute(p) ==
    CASE p.op = "" -> IF p.v # TokenUnset THEN p.v ELSE <<>>
      [] p.op \in {"-", "="} -> IF Has(p) THEN p.v ELSE p.word
      [] p.op = "?" -> IF Has(p) THEN p.v ELSE <<>>
      [] p.op = "+" -> IF Has(p) THEN p.word ELSE <<>>
Assigned(p) == IF p.op = "=" /\ ~Has(p) THEN [p EXCEPT !.v = p.word] ELSE p

\* expand: the value is put into the word if there is room for it.
Expand(r) ==
    LET v == TokenSubstitute(r.p)
    IN  IF Len(r.b) + Len(v) > WordRoom THEN [r EXCEPT !.err = TRUE, !.p = Assigned(@)]
        ELSE [r EXCEPT !.b = @ \o v, !.void = @ \/ (v = <<>> /\ r.quote = ""), !.p = Assigned(@),
                       !.halt = @ \/ (r.p.op = "?" /\ ~Has(r.p))]

At(t, i) == IF i <= Len(t) THEN t[i] ELSE ""
TokenPut(r, c) == [r EXCEPT !.b = IF r.glob = 1 /\ c \in Patterns THEN @ \o <<"E", c>> ELSE Append(@, c)]
TokenPlain(r, c) == [r EXCEPT !.b = Append(@, c)]
Skip(r, n) == [r EXCEPT !.i = @ + n]

\* Inside quotes, c being the character in front of r.i.
Quoted(r, t, c) ==
    IF c = r.quote THEN [r EXCEPT !.quote = ""]
    ELSE IF r.quote = "D" /\ c = "$" THEN Expand(r)
    ELSE IF r.quote = "D" /\ c = "E"
      THEN IF At(t, r.i) = "n" THEN Skip(r, 1)
           ELSE IF At(t, r.i) \in {"D", "$", "E"} THEN TokenPut(Skip(r, 1), At(t, r.i))
           ELSE TokenPut(r, c)
    ELSE TokenPut(r, c)

\* The digits in front of < or >, or -1; "1" is the only digit.
TokenDigits(t, from, i) ==
    IF i > from + 1 /\ \A k \in from .. i - 2 : t[k] = "1" THEN i - 1 - from ELSE -1

\* An operator: && &> &>> ; < << <& <> > >> >& | ||
OpLength(t, i, c) ==
    CASE c = "&" -> IF At(t, i) = "&" THEN 2
                    ELSE IF At(t, i) = ">" THEN (IF At(t, i + 1) = ">" THEN 3 ELSE 2) ELSE 1
      [] c = "<" -> IF At(t, i) \in {"<", "&", ">"} THEN 2 ELSE 1
      [] c = ">" -> IF At(t, i) \in {">", "&"} THEN 2 ELSE 1
      [] c = "|" -> IF At(t, i) = "|" THEN 2 ELSE 1
      [] OTHER -> 1

AtOperator(r, t, from, c) ==
    LET value == IF c \in {"<", ">"} THEN TokenDigits(t, from, r.i) ELSE -1
        n == OpLength(t, r.i, c)
    IN  IF r.b # <<>> /\ value < 0 THEN [r EXCEPT !.i = @ - 1, !.stop = TRUE]
        ELSE [r EXCEPT !.op = SubSeq(t, r.i - 1, r.i + n - 2), !.i = @ + n - 1, !.stop = TRUE,
                       !.value = IF c \in {"<", ">"} THEN value ELSE 0]

\* Outside quotes.
Bare(r, t, from, c) ==
    IF c = "$" THEN Expand(r)
    ELSE IF c = "E"
      THEN IF At(t, r.i) = "" THEN [r EXCEPT !.stop = TRUE]
           ELSE IF At(t, r.i) = "n" THEN Skip(r, 1) ELSE TokenPut(Skip(r, 1), At(t, r.i))
    ELSE IF c \in {"D", "Q"} THEN [r EXCEPT !.quote = c, !.empty = TRUE]
    ELSE IF r.glob = 0 /\ c \in Patterns THEN [r EXCEPT !.glob = 1, !.empty = FALSE, !.i = from, !.b = <<>>]
    ELSE IF r.glob = 1 /\ c = "["
      THEN IF At(t, r.i) = "]" THEN [Skip(r, 1) EXCEPT !.b = @ \o <<"[", "]">>, !.glob = 2]
           ELSE [TokenPlain(r, c) EXCEPT !.glob = 2]
    ELSE IF r.glob = 2 /\ c = "]" THEN [TokenPlain(r, c) EXCEPT !.glob = 1]
    ELSE IF c \in {" ", "n"} THEN [r EXCEPT !.stop = TRUE]
    ELSE IF c \in Operator THEN AtOperator(r, t, from, c)
    ELSE TokenPlain(r, c)

\* The loop of dsh_token_read; r.i is new_i.
RECURSIVE Scan(_, _, _)
Scan(r, t, from) ==
    IF r.stop \/ r.err \/ r.i > Len(t) THEN r
    ELSE IF Len(r.b) >= WordRoom \/ (r.glob # 0 /\ Len(r.b) + 1 >= WordRoom) THEN [r EXCEPT !.err = TRUE]
    ELSE LET c == t[r.i] s == Skip(r, 1)
         IN  Scan(IF r.quote # "" THEN Quoted(s, t, c) ELSE Bare(s, t, from, c), t, from)

IsVar(r, t, from) == At(t, from) \notin {"D", "Q"} /\ r.b # <<>> /\ r.b[1] = "a" /\ Contains(r.b, "=")

\* The token at i, and where it ends.
Token(t, p, i) ==
    LET from == CHOOSE k \in i .. Len(t) + 1 : At(t, k) # " " /\ \A l \in i .. k - 1 : t[l] = " "
        r == Scan([i |-> from, p |-> p, halt |-> FALSE, b |-> <<>>, quote |-> "", glob |-> 0, empty |-> FALSE, void |-> FALSE,
                   op |-> <<>>, value |-> 0, stop |-> FALSE, err |-> FALSE], t, from)
        type == CASE r.err \/ r.quote # "" -> "error"
                  [] r.op # <<>> -> "op"
                  [] r.b = <<>> /\ ~r.empty -> IF r.void THEN "max" ELSE "null"
                  [] IsVar(r, t, from) -> "var"
                  [] r.glob # 0 -> "glob"
                  [] OTHER -> "arg"
    IN  [type |-> type, data |-> IF type = "op" THEN r.op ELSE r.b, i |-> r.i, value |-> r.value, p |-> r.p,
         halt |-> r.halt \/ type = "error"]

-----------------------------------------------------------------------------
\* parse_input reads until there is no token; one without text is passed over.
ReadNext ==
    /\ state = "read"
    /\ LET k == Token(tokenText, param, pos)
       IN  /\ pos' = k.i
           /\ param' = k.p /\ halted' = (halted \/ k.halt)
           /\ state' = CASE k.type = "error" -> "error" [] k.type = "null" -> "end" [] OTHER -> "read"
           /\ tokens' = IF k.type \in {"error", "null", "max"} THEN tokens
                        ELSE Append(tokens, <<k.type, k.data, k.value>>)
    /\ UNCHANGED tokenText

Params == [v : {TokenUnset, <<>>, <<"a">>}, colon : BOOLEAN, op : {"", "-", "=", "?", "+"}, word : {<<>>, <<"b">>}]

\* dsh_token_init
TokenInit ==
    /\ \/ tokenText \in BoundedSeq(Chars, 2) /\ param \in Params
       \/ tokenText \in BoundedSeq(Chars, MaxText)
          /\ param \in [v : {<<"a">>}, colon : {FALSE}, op : {""}, word : {<<>>}]
    /\ halted = FALSE /\ tokens = <<>> /\ pos = 1 /\ state = "read"

TokenNext == ReadNext

-----------------------------------------------------------------------------
\* Reading never stands still before the end of the text, and no word is longer
\* than its buffer, the escaped characters of a pattern included.
ReadsOn ==
    /\ pos \in 1 .. Len(tokenText) + 1
    /\ state = "read" => LET k == Token(tokenText, param, pos) IN k.type \notin {"null", "error"} => k.i > pos
    /\ \A k \in 1 .. Len(tokens) : Len(tokens[k][2]) <= WordRoom

\* Quotes and backslashes take the meaning from every character: what is between
\* two single quotes is one word as it stands, and no parameter is replaced
\* behind a backslash. An escaped "=" is set apart: a word with one is taken
\* for an assignment all the same (token.c:592).
QuotedStays ==
    /\ state = "end" /\ Len(tokenText) >= 2 /\ tokenText[1] = "Q" /\ tokenText[Len(tokenText)] = "Q"
         /\ (\A k \in 2 .. Len(tokenText) - 1 : tokenText[k] # "Q") =>
              tokens = << <<"arg", SubSeq(tokenText, 2, Len(tokenText) - 1), 0>> >>
    /\ state = "end" /\ Len(tokenText) >= 2 /\ Len(tokenText) % 2 = 0 /\ (\A k \in 1 .. Len(tokenText) : k % 2 = 1 => tokenText[k] = "E")
         /\ (\A k \in 1 .. Len(tokenText) : k % 2 = 0 => tokenText[k] \notin {"n", "="}) =>
              tokens = << <<"arg", [k \in 1 .. Len(tokenText) \div 2 |-> tokenText[2 * k]], 0>> >>
-----------------------------------------------------------------------------
(***************************************************************************)
(* Variables of the shell (dsh/var.c), the loop that reads lines           *)
(* (dsh/operate.c), the assignments in front of a command, the environment *)
(* a command gets and the built-in commands export and unset. A slot of    *)
(* the array has a value of its own (data[0]) and may have one for the     *)
(* command that runs (data[1]); the entries end at the first slot without  *)
(* data[0], whose other fields may be left over from an entry that moved.  *)
(***************************************************************************)

varVars == <<room, arr, varGiven, env, commands, varAt>>

None == "none"
\* What is behind the array: nothing, or something else.
Alien == "alien"
VarBlank == [name |-> None, own |-> None, now |-> None, exported |-> FALSE, tmp |-> FALSE, used |-> FALSE]
Slot(a, i) == IF i \in DOMAIN a THEN a[i] ELSE VarBlank
Lost == [i \in 1 .. room + 1 |-> [VarBlank EXCEPT !.own = Alien]]
NoneGiven == [n \in VarNames |-> None]

\* The entries behind i, which end where data[0] is NULL.
Following(a, i) ==
    CHOOSE n \in 0 .. room : Slot(a, i + n + 1).own = None /\ \A k \in 1 .. n : Slot(a, i + k).own # None
VarEntries(a) == Following(a, 0)

\* memmove(v, v + 1, size) for n slots
Moved(a, i, n) == [k \in DOMAIN a |-> IF k \in i .. i + n - 1 THEN Slot(a, k + 1) ELSE a[k]]
\* and for n slots and four bytes more: data[0], as addresses from malloc are
\* below 4 GB (alloc.c:68).
MovedShort(a, i, n) ==
    [k \in DOMAIN a |-> IF k = i + n THEN [a[k] EXCEPT !.own = Slot(a, k + 1).own] ELSE Moved(a, i, n)[k]]

\* The entry of a name, or the first free one; 0 if the array is full.
Find(n) ==
    LET same == {i \in 1 .. VarEntries(arr) : arr[i].name = n}
    IN  IF same # {} THEN CHOOSE i \in same : TRUE
        ELSE IF VarEntries(arr) < room THEN VarEntries(arr) + 1 ELSE 0

Value(e) == IF e.now # None THEN e.now ELSE e.own

\* dsh_var_read
VarRead(n) == IF Find(n) \in 1 .. VarEntries(arr) THEN Value(arr[Find(n)]) ELSE None

\* dsh_var_write with a value; flags is what the caller asks for. A value in
\* front of a command leaves the entry its own one.
Written(n, v, flags) ==
    LET i == Find(n)
        e == [arr[i] EXCEPT !.name = n, !.exported = @ \/ "export" \in flags]
        w == IF "command" \notin flags THEN [e EXCEPT !.own = v, !.now = None, !.tmp = FALSE]
             ELSE IF (e.tmp /\ e.now = None) \/ e.own = None THEN [e EXCEPT !.own = v, !.now = None, !.tmp = TRUE]
             ELSE [e EXCEPT !.now = v, !.tmp = TRUE]
    IN  [arr EXCEPT ![i] = w]

\* dsh_var_write without a name, from entry i on; size is what earlier rounds
\* left (var.c:149). A value for a command that did not run becomes the entry's
\* own; an entry that was made for a command that ran is removed, and the one
\* that moves to its place is not looked at. When the size of all rounds goes
\* behind the array (free says whether nothing is there) the array may be lost.
RECURSIVE Reset(_, _, _, _)
Reset(a, i, size, free) ==
    IF i > room \/ a[i].own = None THEN a
    ELSE LET e == [a[i] EXCEPT !.tmp = FALSE, !.used = FALSE]
             n == size + Following(a, i)
         IN  IF ~a[i].tmp \/ ~a[i].used
               THEN Reset([a EXCEPT ![i] = [e EXCEPT !.own = Value(e), !.now = None]], i + 1, size, free)
             ELSE IF e.now # None THEN Reset([a EXCEPT ![i] = [e EXCEPT !.now = None]], i + 1, size, free)
             ELSE IF i + n > room /\ ~free THEN Lost
             ELSE Reset(MovedShort(a, i, n), i + 1, n, free)

\* dsh_var_write without a value: unset removes the entry.
Removed(n) ==
    LET i == Find(n)
    IN  IF i \in 1 .. VarEntries(arr) THEN Moved([arr EXCEPT ![i] = VarBlank], i, Following(arr, i) + 1) ELSE arr
Marked(n) ==
    LET i == Find(n) IN IF i \in 1 .. VarEntries(arr) THEN [arr EXCEPT ![i].exported = TRUE] ELSE arr

-----------------------------------------------------------------------------
Counts == commands < MaxCommands /\ commands' = commands + 1

\* operate: a line is read, and the size of the screen is written.
ReadLine(n, v) ==
    /\ varAt = "prompt" /\ Counts /\ varAt' = "line"
    /\ arr' = IF Find(n) # 0 THEN Written(n, v, {}) ELSE arr
    /\ UNCHANGED <<room, varGiven, env>>

\* The input has ended or exit was run: dsh_var_free.
VarFinish ==
    /\ varAt = "prompt" /\ varAt' = "end"
    /\ arr' = [i \in DOMAIN arr |-> VarBlank] /\ env' = <<>> /\ UNCHANGED <<room, varGiven, commands>>

\* parse_list, parse_input: before each element of a list, and after the line.
NewElement(next) ==
    /\ varAt \in {"ran", "words"} \/ (varAt = "line" /\ next = "prompt")
    /\ \E free \in BOOLEAN :
         LET a == Reset(arr, 1, 0, free)
         IN  IF a = Lost THEN varAt' = "lost" /\ UNCHANGED <<arr, varGiven>>
             ELSE arr' = a /\ varAt' = next /\ varGiven' = NoneGiven
    /\ UNCHANGED <<room, env, commands>>

\* parse_pipeline_part: name=value in front of the words; without room for the
\* name the line ends.
Assign(n, v) ==
    /\ varAt \in {"line", "words"} /\ Counts
    /\ IF Find(n) # 0
         THEN arr' = Written(n, v, {"command"}) /\ varGiven' = [varGiven EXCEPT ![n] = v] /\ varAt' = "words"
         ELSE varAt' = "ran" /\ UNCHANGED <<arr, varGiven>>
    /\ UNCHANGED <<room, env>>

\* expand_substitute: ${name=word} is written when the line is read.
VarSubstitute(n, v) ==
    /\ varAt = "line" /\ Counts /\ VarRead(n) = None /\ Find(n) # 0
    /\ arr' = Written(n, v, {}) /\ UNCHANGED <<room, varGiven, env, varAt>>

\* dsh_environ: the values for this command, and what is exported.
InEnv(e) == e.own # None /\ (e.tmp \/ e.exported)
Environ(a) ==
    LET some == SelectSeq(SubSeq(a, 1, VarEntries(a)), InEnv)
    IN  [k \in 1 .. Len(some) |-> <<some[k].name, IF some[k].tmp THEN Value(some[k]) ELSE some[k].own>>]
Taken(a) == [i \in DOMAIN a |-> IF i <= VarEntries(a) /\ a[i].tmp THEN [a[i] EXCEPT !.used = TRUE] ELSE a[i]]

\* A program is started with the environment, or export prints it.
Execute ==
    /\ varAt \in {"line", "words"} /\ Counts
    /\ env' = Environ(arr) /\ arr' = Taken(arr) /\ varAt' = "ran" /\ UNCHANGED <<room, varGiven>>

\* export NAME=VALUE, export NAME
CmdExport(n, v) ==
    /\ varAt \in {"line", "words"} /\ Counts /\ varAt' = "ran"
    /\ arr' = IF v = None THEN Marked(n) ELSE IF Find(n) # 0 THEN Written(n, v, {"export"}) ELSE arr
    /\ varGiven' = IF v = None THEN varGiven ELSE [varGiven EXCEPT ![n] = None]
    /\ UNCHANGED <<room, env>>

\* unset NAME
CmdUnset(n) ==
    /\ varAt \in {"line", "words"} /\ Counts /\ varAt' = "ran"
    /\ arr' = Removed(n) /\ varGiven' = [varGiven EXCEPT ![n] = None] /\ UNCHANGED <<room, env>>

\* dsh_var_init: the environment of the shell is exported.
VarInit ==
    /\ room \in VarRooms
    /\ \E some \in SUBSET VarNames, v \in VarValues :
         LET s == SetToSeq(some)
         IN  /\ Len(s) < room
             /\ arr = [i \in 1 .. room + 1 |-> IF i <= Len(s) THEN [VarBlank EXCEPT !.name = s[i], !.own = v, !.exported = TRUE]
                                               ELSE VarBlank]
    /\ varGiven = NoneGiven /\ env = <<>> /\ commands = 0 /\ varAt = "prompt"

VarNext ==
    \/ VarFinish \/ Execute \/ NewElement("line") \/ NewElement("prompt")
    \/ \E n \in VarNames : CmdUnset(n) \/ CmdExport(n, None)
    \/ \E n \in VarNames, v \in VarValues :
         Assign(n, v) \/ CmdExport(n, v) \/ (n = "COLUMNS" /\ ReadLine(n, v)) \/ VarSubstitute(n, v)

-----------------------------------------------------------------------------
\* A name has one entry, and the last slot of the array stays free. The array
\* is lost (var.c:149 and 180) only when two entries at least are removed for
\* one command and at least half of the 1024 spare slots, or more, are taken.
NamesOnce ==
    /\ arr[room + 1].own = None
    /\ \A i, j \in 1 .. VarEntries(arr) : arr[i].name = arr[j].name => i = j
    /\ varAt = "lost" =>
         /\ \E i, j \in 1 .. VarEntries(arr) :
              i < j /\ \A k \in {i, j} : arr[k].tmp /\ arr[k].used /\ arr[k].now = None
         /\ 2 * VarEntries(arr) > room

\* A program gets each variable once, and those that were assigned in front of
\* it with the value they were assigned. It may get more: after "A=1 B=2 cmd"
\* the entry of B moves to the place of A and is not looked at, so that the
\* next command sees it as well.
EnvAsGiven ==
    /\ \A i, j \in 1 .. Len(env) : env[i][1] = env[j][1] => i = j
    /\ varAt = "words" => \A n \in VarNames : varGiven[n] # None =>
          \E k \in 1 .. Len(Environ(arr)) : Environ(arr)[k] = <<n, varGiven[n]>>
-----------------------------------------------------------------------------
(***************************************************************************)
(* The arguments of the programs: main reads argv in place, turns options  *)
(* and their arguments into NULL, and moves the operands together. Every   *)
(* program of arctic/programs and of tools has this loop with its own      *)
(* options; three of them stop at the first operand.                       *)
(***************************************************************************)

argsVars == <<prog, args, argsArgv, argsI, letters, found, values, argsAt>>

\* An argument: its dashes, and its letters, or its name as a whole.
ArgsWord(dashes, rest) == [dashes |-> dashes, rest |-> rest]
Null == ArgsWord(9, <<>>)
Operand == ArgsWord(0, <<"x">>)
Dash == ArgsWord(1, <<>>)
DashDash == ArgsWord(2, <<>>)

\* A program: options without and with an argument, long options, special
\* arguments, and whether its first operand ends the options.
ArgsProgram(flags, with, long) == [flags |-> flags, with |-> with, long |-> long, special |-> {}, stops |-> FALSE, dash |-> TRUE]
Stopping(p) == [p EXCEPT !.stops = TRUE]
Dropping(p) == [p EXCEPT !.stops = TRUE, !.dash = FALSE]   \* a lone dash is no operand

Cat == ArgsProgram({"u"}, {}, {})
Cp == ArgsProgram({"r", "R", "v"}, {}, {"verbose"})
Date == ArgsProgram({"u"}, {}, {})
Dsh == Dropping(ArgsProgram({}, {"c"}, {}))
EnvProgram == Stopping(ArgsProgram({"i"}, {}, {}))
Hexdump == ArgsProgram({"C", "v"}, {}, {"canonical", "verbose"})
InitProgram == ArgsProgram({"v"}, {}, {"verbose", "dancy"})
LdDancy == Dropping(ArgsProgram({}, {}, {"debug"}))
Ls == ArgsProgram({"a", "l", "r", "R"}, {}, {})
Lsusb == ArgsProgram({"v"}, {}, {"verbose"})
Mkdir == ArgsProgram({"p"}, {"m"}, {})
ArgsMore == ArgsProgram({}, {}, {})
Nproc == ArgsProgram({}, {}, {"all", "ignore="})
Poweroff == ArgsProgram({}, {}, {"poweroff", "reboot"})
Ps == ArgsProgram({"A", "e"}, {}, {})
Pwd == ArgsProgram({}, {}, {})
Reboot == ArgsProgram({}, {}, {"poweroff", "reboot"})
Rm == ArgsProgram({"f", "r", "R", "v"}, {}, {"verbose"})
Rmdir == ArgsProgram({"p"}, {}, {})
SleepProgram == ArgsProgram({}, {}, {})
Tee == ArgsProgram({"a", "i"}, {}, {})
Terminal == Dropping(ArgsProgram({"v"}, {}, {"verbose", "1", "2", "3", "4", "5", "6"}))
Which == ArgsProgram({"a", "s"}, {}, {})
DyLink == ArgsProgram({"v"}, {"f", "o"}, {"verbose", "dump", "dump-ext"})
DyMcopy == ArgsProgram({"v"}, {"i", "t"}, {"verbose", "db", "read-only"})
DyPatch == [ArgsProgram({"v"}, {"i"}, {"verbose", "silent", "quiet"}) EXCEPT !.special = {<<"p", "0">>, <<"p", "1">>}]
DyPng == ArgsProgram({"v"}, {"o", "p"}, {"verbose", "bmp"})
DyTtf == ArgsProgram({"v"}, {"o"}, {"verbose", "created", "render"})
DyZip == ArgsProgram({"v"}, {"o", "t"}, {"verbose", "single-dir"})
Programs == {Cat, Cp, Date, Dsh, EnvProgram, Hexdump, InitProgram, LdDancy, Ls, Lsusb, Mkdir, ArgsMore, Nproc, Poweroff, Ps, Pwd, Reboot,
             Rm, Rmdir, SleepProgram, Tee, Terminal, Which, DyLink, DyMcopy, DyPatch, DyPng, DyTtf, DyZip}

-----------------------------------------------------------------------------
Keep == UNCHANGED <<prog, args>>
ArgsSet(o) == found' = found \cup {o}

IsOperand(w) == w.dashes = 0 \/ (w = Dash /\ prog.dash)
Ended == prog = Dsh /\ "c" \in DOMAIN values

\* The next argument, or the end of them.
NextWord == argsI < Len(argsArgv)
AtWord(w) == argsAt = "word" /\ NextWord /\ argsArgv[argsI + 1] = w

ArgsFinish ==
    /\ argsAt = "word" /\ ~NextWord /\ argsAt' = "compact" /\ Keep /\ UNCHANGED <<argsArgv, argsI, letters, found, values>>

TakeOperand ==
    /\ argsAt = "word" /\ NextWord /\ (IsOperand(argsArgv[argsI + 1]) \/ Ended)
    /\ argsI' = argsI + 1 /\ argsAt' = IF prog.stops THEN "compact" ELSE argsAt
    /\ Keep /\ UNCHANGED <<argsArgv, letters, found, values>>

Consume(w) == /\ AtWord(w) /\ ~IsOperand(w) /\ ~Ended
              /\ argsI' = argsI + 1 /\ argsArgv' = [argsArgv EXCEPT ![argsI + 1] = Null] /\ Keep

EndOfOptions == Consume(DashDash) /\ argsAt' = "compact" /\ UNCHANGED <<letters, found, values>>

LongOption(o) ==
    /\ Consume(ArgsWord(2, <<o>>))
    /\ argsAt' = CASE o \in prog.long -> "word" [] o = "help" -> "helped" [] o = "version" -> "told" [] OTHER -> "usage"
    /\ IF o \in prog.long THEN ArgsSet(<<o>>) ELSE UNCHANGED found
    /\ UNCHANGED <<letters, values>>

Special(s) == s \in prog.special /\ Consume(ArgsWord(1, s)) /\ ArgsSet(s) /\ UNCHANGED <<letters, values, argsAt>>

Letters(s) == s \notin prog.special /\ Consume(ArgsWord(1, s)) /\ letters' = s /\ argsAt' = "letters" /\ UNCHANGED <<found, values>>

\* The loop over the letters of one argument.
LettersEnd == argsAt = "letters" /\ letters = <<>> /\ argsAt' = "word" /\ Keep /\ UNCHANGED <<argsArgv, argsI, letters, found, values>>

Flag ==
    /\ argsAt = "letters" /\ letters # <<>> /\ Head(letters) \notin prog.with
    /\ letters' = Tail(letters)
    /\ argsAt' = CASE Head(letters) \in prog.flags -> "letters" [] Head(letters) = "h" -> "helped" [] Head(letters) = "V" -> "told"
               [] OTHER -> "usage"
    /\ IF Head(letters) \in prog.flags THEN ArgsSet(<<Head(letters)>>) ELSE UNCHANGED found
    /\ Keep /\ UNCHANGED <<argsArgv, argsI, values>>

\* The rest of the argument, or the next one whatever it looks like.
WithArgument ==
    /\ argsAt = "letters" /\ letters # <<>> /\ Head(letters) \in prog.with
    /\ LET set(v) == [o \in DOMAIN values \cup {Head(letters)} |-> IF o = Head(letters) THEN v ELSE values[o]]
       IN  \/ /\ Tail(letters) # <<>> /\ values' = set(ArgsWord(0, Tail(letters))) /\ argsAt' = "word" /\ UNCHANGED <<argsArgv, argsI>>
           \/ /\ Tail(letters) = <<>> /\ NextWord /\ values' = set(argsArgv[argsI + 1])
              /\ argsI' = argsI + 1 /\ argsArgv' = [argsArgv EXCEPT ![argsI + 1] = Null] /\ argsAt' = "word"
           \/ Tail(letters) = <<>> /\ ~NextWord /\ argsAt' = "usage" /\ UNCHANGED <<values, argsArgv, argsI>>
    /\ letters' = <<>> /\ Keep /\ UNCHANGED found

ArgsCompact ==
    /\ argsAt = "compact" /\ argsAt' = "operate"
    /\ argsArgv' = SelectSeq(argsArgv, LAMBDA w : w # Null)
    /\ Keep /\ UNCHANGED <<argsI, letters, found, values>>

\* operate: a mistake in the operands ends with the usage, another failure does not.
Operate(result) == argsAt = "operate" /\ argsAt' = result /\ Keep /\ UNCHANGED <<argsArgv, argsI, letters, found, values>>

ArgsStay == argsAt \in {"usage", "helped", "told", "done", "failed"} /\ UNCHANGED argsVars

WordsOf(p) ==
    LET some == {CHOOSE f \in s : TRUE : s \in {p.flags, p.with} \ {{}}} \cup p.with
    IN  {Operand, Dash, DashDash} \cup {ArgsWord(2, <<o>>) : o \in p.long \cup {"help", "other"}}
        \cup {ArgsWord(1, <<f>>) : f \in p.flags \cup p.with \cup {"V", "?"}}
        \cup {ArgsWord(1, <<f, g>>) : f \in some, g \in some \cup {"h"}} \cup {ArgsWord(1, s) : s \in p.special}

ArgsInit ==
    /\ prog \in Programs
    /\ args \in UNION {[1 .. n -> WordsOf(prog)] : n \in 0 .. (IF prog.stops \/ prog = Mkdir THEN MaxWords ELSE 2)}
    /\ argsArgv = args /\ argsI = 0 /\ letters = <<>> /\ found = {} /\ values = [o \in {} |-> Null]
    /\ argsAt = "word"

ArgsNext ==
    \/ ArgsFinish \/ TakeOperand \/ EndOfOptions \/ LettersEnd \/ Flag \/ WithArgument \/ ArgsCompact
    \/ \E r \in {"usage", "done", "failed"} : Operate(r)
    \/ argsAt = "word" /\ NextWord /\ \E w \in {argsArgv[argsI + 1]} :
         \/ w.dashes = 2 /\ w.rest # <<>> /\ LongOption(w.rest[1])
         \/ w.dashes = 1 /\ (Special(w.rest) \/ Letters(w.rest))
    \/ ArgsStay

-----------------------------------------------------------------------------
\* What the arguments say, read from the left: the first operand or -- ends
\* the options where it does, and an option takes what follows it.
TakesNext(w) ==
    /\ w.dashes = 1 /\ w.rest # <<>> /\ w.rest \notin prog.special
    /\ w.rest[Len(w.rest)] \in prog.with /\ \A k \in 1 .. Len(w.rest) - 1 : w.rest[k] \notin prog.with
RECURSIVE OperandsOf(_, _)
OperandsOf(ws, over) ==
    IF ws = <<>> THEN <<>>
    ELSE IF over THEN ws
    ELSE IF IsOperand(Head(ws)) THEN <<Head(ws)>> \o OperandsOf(Tail(ws), prog.stops)
    ELSE IF Head(ws) = DashDash THEN Tail(ws)
    ELSE IF TakesNext(Head(ws)) THEN OperandsOf(SubSeq(ws, 3, Len(ws)), prog = Dsh)
    ELSE OperandsOf(Tail(ws), prog = Dsh /\ \E k \in DOMAIN Head(ws).rest : Head(ws).dashes = 1 /\ Head(ws).rest[k] = "c")

\* The program gets the operands, all of them and in their order, and nothing
\* else; what an option took is not also an operand.
OperandsKept == argsAt = "operate" => argsArgv = OperandsOf(args, FALSE)

\* Options are only what the program has, and everything before the operands
\* was looked at.
OptionsKnown ==
    /\ found \subseteq {<<o>> : o \in prog.flags \cup prog.long} \cup prog.special /\ DOMAIN values \subseteq prog.with
    /\ argsAt = "compact" => \A k \in 1 .. argsI : argsArgv[k] = Null \/ IsOperand(args[k]) \/ Ended
-----------------------------------------------------------------------------
(***************************************************************************)
(* vsnprintf of the kernel's library and of the C library. A format is a   *)
(* sequence of characters and directives; the text of a directive is put   *)
(* into the buffer piece by piece, and every piece stops where the buffer  *)
(* ends. The C library asks again with a larger buffer when the text did   *)
(* not fit; where va_list is an array (64-bit) the arguments are then used *)
(* up, and the length it returns may be any.                               *)
(***************************************************************************)

printVars == <<printMode, printSize, printN, format, printIn, printS, printText, printCount, ret, printAt>>

PrintUnset == -100
Temporary == 4096   \* temp_s of the second pass
Pointer == 8        \* digits of a pointer

Pads(c, k) == [j \in 1 .. (IF k > 0 THEN k ELSE 0) |-> c]
PrintPut(t, piece) == IF Len(t) + Len(piece) <= printN THEN t \o piece ELSE SubSeq(t \o piece, 1, printN)
Longer(a, b) == IF a > b THEN a ELSE b
PrintAbsolute(v) == IF v < 0 THEN -v ELSE v

PrintDigit == <<"0", "1", "2", "3", "4", "5", "6", "7", "8", "9", "a", "b", "c", "d", "e", "f">>
RECURSIVE PrintDigits(_, _)
PrintDigits(v, b) == IF v < b THEN <<PrintDigit[v + 1]>> ELSE Append(PrintDigits(v \div b, b), PrintDigit[(v % b) + 1])
Base(conv) == CASE conv \in {"x", "p"} -> 16 [] conv = "o" -> 8 [] OTHER -> 10

\* '*' takes a width or a precision from the arguments; a negative width is a
\* minus flag, a negative precision is none.
Width(d) == PrintAbsolute(d.width)
Minus(d) == d.minus \/ d.width < 0
HasPrecision(d) == d.conv = "p" \/ d.prec >= 0
Precision(d) == CASE d.conv = "p" -> Pointer [] d.prec >= 0 -> d.prec [] OTHER -> 0
NoChars(d) == HasPrecision(d) /\ d.val = 0 /\ Precision(d) = 0
ZeroPad(d) == d.zero /\ ~HasPrecision(d) /\ ~Minus(d)

\* The blanks that fill up a field, whatever was written of it.
FillUp(t, base, d) == PrintPut(t, Pads(" ", Width(d) - (Len(t) - base)))

\* %d and %i
Signed(t, d) ==
    LET signed == d.val < 0 \/ d.plus \/ d.space
        sign == <<IF d.val < 0 THEN "-" ELSE IF d.space /\ ~d.plus THEN " " ELSE "+">>
        buf == PrintDigits(PrintAbsolute(d.val), 10)
        max == Longer(Len(buf), Precision(d))
        left == ~Minus(d) /\ max < Width(d)
        pads == Width(d) - max - (IF signed THEN 1 ELSE 0) + (IF NoChars(d) THEN 1 ELSE 0)
        early == left /\ signed /\ ZeroPad(d)
        t1 == IF early THEN PrintPut(t, sign) ELSE t
        t2 == IF left THEN PrintPut(t1, Pads(IF ZeroPad(d) THEN "0" ELSE " ", pads)) ELSE t1
        t3 == IF signed /\ ~early THEN PrintPut(t2, sign) ELSE t2
        t4 == PrintPut(t3, Pads("0", max - Len(buf)))
        t5 == IF NoChars(d) THEN t4 ELSE PrintPut(t4, buf)
    IN  FillUp(t5, Len(t), d)

\* %u, %x, %p and %o; the prefix of # is among the digits.
Unsigned(t, d) ==
    LET plain == PrintDigits(d.val, Base(d.conv))
        buf == CASE d.alt /\ d.conv \in {"x", "p"} -> <<"0", "x">> \o plain
                 [] d.alt /\ d.conv = "o" /\ plain[1] # "0" -> <<"0">> \o plain
                 [] OTHER -> plain
        max == Longer(Len(buf), Precision(d))
        pads == Width(d) - max + (IF NoChars(d) THEN 1 ELSE 0)
        t1 == IF ~Minus(d) /\ max < Width(d) THEN PrintPut(t, Pads(IF ZeroPad(d) THEN "0" ELSE " ", pads)) ELSE t
        t2 == PrintPut(t1, Pads("0", max - Len(buf)))
        t3 == IF NoChars(d) THEN t2 ELSE PrintPut(t2, buf)
    IN  FillUp(t3, Len(t), d)

\* %c and %s
PrintText(t, d) ==
    LET max == IF d.conv = "s" /\ d.prec >= 0 /\ d.prec < Len(d.val) THEN d.prec ELSE Len(d.val)
        t1 == IF ~Minus(d) THEN PrintPut(t, Pads(" ", Width(d) - max)) ELSE t
    IN  FillUp(PrintPut(t1, SubSeq(d.val, 1, max)), Len(t), d)

-----------------------------------------------------------------------------
\* A format: a character, a directive, and what ends it.
PrintPlain(c) == [conv |-> c]
PrintFields == PrintWidths \cup {-w : w \in PrintWidths}
Numbers ==
    [conv : {"d"}, minus : BOOLEAN, plus : BOOLEAN, space : BOOLEAN, zero : BOOLEAN, alt : {FALSE},
     width : PrintFields, prec : PrintPrecs \cup {PrintUnset}, val : PrintValues \cup {-v : v \in PrintValues}]
    \cup [conv : {"u", "x", "o", "p"}, minus : BOOLEAN, plus : {FALSE}, space : {FALSE}, zero : BOOLEAN, alt : BOOLEAN,
          width : PrintFields, prec : PrintPrecs \cup {PrintUnset}, val : PrintValues]
Texts == [conv : {"c"}, minus : BOOLEAN, width : PrintFields, prec : {PrintUnset}, val : {<<"k">>}]
         \cup [conv : {"s"}, minus : BOOLEAN, width : PrintFields, prec : PrintPrecs \cup {PrintUnset}, val : {<<>>, <<"s", "t">>}]

PrintInit ==
    /\ printMode \in PrintLibs /\ printSize \in PrintSizes /\ printN = 0
    /\ format \in {<<PrintPlain("char"), d, PrintPlain("n")>> : d \in Numbers \cup Texts}
                  \cup {<<PrintPlain("char"), PrintPlain(c), PrintPlain("char")>> : c \in {"percent", "cut", "other"}}
    /\ printIn = 1 /\ printS = <<>> /\ printText = <<>> /\ printCount = -1 /\ ret = -1 /\ printAt = "start"

Going == printAt = "run" /\ Len(printS) < printN /\ printIn <= Len(format)
Item == format[printIn]
Next1(t) == printS' = t /\ printIn' = printIn + 1 /\ UNCHANGED <<printMode, printSize, printN, format, printText, ret, printAt>>
Failed == ret' = -1 /\ UNCHANGED <<printMode, printSize, printN, format, printIn, printS, printText, printCount>>

\* n-- < 1: no room at all, not even for the terminating zero.
NoBuffer == printAt = "start" /\ printSize = 0 /\ Failed /\ printAt' = IF printMode = "kernel" THEN "done" ELSE "again"
Begin == printAt = "start" /\ printSize > 0 /\ printN' = printSize - 1 /\ printAt' = "run" /\ UNCHANGED <<printMode, printSize, format, printIn, printS, printText, printCount, ret>>

Character == Going /\ Item.conv \in {"char", "percent"} /\ Next1(Append(printS, IF Item.conv = "char" THEN "t" ELSE "%")) /\ UNCHANGED printCount
SignedNumber == Going /\ Item.conv = "d" /\ Next1(Signed(printS, Item)) /\ UNCHANGED printCount
UnsignedNumber == Going /\ Item.conv \in {"u", "x", "o", "p"} /\ Next1(Unsigned(printS, Item)) /\ UNCHANGED printCount
String == Going /\ Item.conv \in {"c", "s"} /\ Next1(PrintText(printS, Item)) /\ UNCHANGED printCount
Count == Going /\ Item.conv = "n" /\ Next1(printS) /\ printCount' = Len(printS)

\* The format ends within a directive, or the conversion is not known. Only
\* the C library raises SIGKILL for the latter.
Broken ==
    /\ Going /\ Item.conv \in {"cut", "other"} /\ Failed
    /\ printAt' = CASE printMode = "kernel" -> "done" [] Item.conv = "other" -> "killed" [] printN = Temporary - 1 -> "done" [] OTHER -> "again"

\* The end of the format or of the buffer; the C library's my_vsnprintf
\* gives -1 for a full buffer.
PrintFinish ==
    /\ printAt = "run" /\ ~Going
    /\ IF printMode = "kernel" \/ Len(printS) < printN
       THEN ret' = Len(printS) /\ printAt' = "done" ELSE ret' = -1 /\ printAt' = IF printN = Temporary - 1 THEN "done" ELSE "again"
    /\ UNCHANGED <<printMode, printSize, printN, format, printIn, printS, printText, printCount>>

\* vsnprintf of the C library, the second time, into temp_s. With the
\* arguments used up the rest of the pass is any.
Again ==
    /\ printAt = "again" /\ printMode = "libc32"
    /\ printN' = Temporary - 1 /\ printIn' = 1 /\ printS' = <<>> /\ printText' = printS /\ printAt' = "run" /\ UNCHANGED <<printMode, printSize, format, printCount, ret>>
AgainUsedUp ==
    /\ printAt = "again" /\ printMode = "libc64" /\ printAt' = "done" /\ printN' = Temporary - 1 /\ printText' = printS
    /\ ret' \in -1 .. 3 /\ UNCHANGED <<printMode, printSize, format, printIn, printS, printCount>>
PrintStay == printAt \in {"done", "killed"} /\ UNCHANGED printVars

PrintNext == NoBuffer \/ Begin \/ Character \/ SignedNumber \/ UnsignedNumber \/ String \/ Count \/ Broken \/ PrintFinish
        \/ Again \/ AgainUsedUp \/ PrintStay
PrintTypeOK == printN \in 0 .. Temporary /\ printIn \in 1 .. 4 /\ printAt \in {"start", "run", "again", "done", "killed"}

-----------------------------------------------------------------------------
\* What the C standard says of a directive. Left out, because the code differs:
\* %#x of zero (it gets a prefix), and %#x with a precision or zero padding
\* (the zeros come before the prefix); %#.0o of zero (nothing is written).
Standard(d) ==
    CASE d.conv = "char" -> <<"t">> [] d.conv = "percent" -> <<"%">> [] d.conv = "n" -> <<>>
      [] OTHER ->
         LET number == d.conv \notin {"c", "s"}
             digits == IF d.val = 0 /\ HasPrecision(d) /\ Precision(d) = 0 THEN <<>> ELSE PrintDigits(PrintAbsolute(d.val), Base(d.conv))
             long == Pads("0", Precision(d) - Len(digits)) \o digits
             body == CASE ~number -> SubSeq(d.val, 1, IF d.prec >= 0 /\ d.prec < Len(d.val) THEN d.prec ELSE Len(d.val))
                       [] d.conv = "o" /\ d.alt /\ long[1] # "0" -> <<"0">> \o long
                       [] OTHER -> long
             lead == CASE ~number -> <<>>
                       [] d.val < 0 -> <<"-">> [] d.plus -> <<"+">> [] d.space -> <<" ">>
                       [] d.alt /\ d.conv \in {"x", "p"} -> <<"0", "x">> [] OTHER -> <<>>
             fill == Width(d) - Len(lead) - Len(body)
         IN  CASE Minus(d) -> lead \o body \o Pads(" ", fill)
               [] number /\ d.zero /\ ~HasPrecision(d) -> lead \o Pads("0", fill) \o body
               [] OTHER -> Pads(" ", fill) \o lead \o body
Differs(d) == d.conv \in {"x", "o", "p"} /\ d.alt /\ (d.val = 0 \/ (d.conv # "o" /\ (d.zero \/ HasPrecision(d))))
Regular == \A j \in 1 .. Len(format) : PrintPlain(format[j].conv).conv \notin {"cut", "other"} /\ ~Differs(format[j])
Standards(k) == FlattenSeq([j \in 1 .. k |-> Standard(format[j])])
Fits(t, k) == IF k < Len(t) THEN SubSeq(t, 1, k) ELSE t

\* Whatever the size of the buffer, it holds as much as fits of the text that
\* the C standard prescribes, in the first pass as in the second.
PrintedRight ==
    Regular /\ printAt # "start" /\ printSize > 0 =>
        /\ printMode # "libc64" => printS = Fits(Standards(printIn - 1), printN)
        /\ printText # <<>> => printText = Fits(Standards(3), printSize - 1)

\* The value returned: the kernel's library counts what was written, the C
\* library what would have been, if va_list is passed by value; %n stores
\* the count at its place, unless the text was cut before it.
CountedRight ==
    printAt = "done" =>
        /\ printMode = "kernel" => ret = IF printSize = 0 \/ (format[2].conv \in {"cut", "other"} /\ printSize > 2) THEN -1 ELSE Len(printS)
        /\ printMode = "libc32" /\ Regular => ret = Len(Standards(3))
        /\ printMode = "libc64" /\ Regular /\ printSize > Len(Standards(3)) + 1 => ret = Len(Standards(3))
        /\ Regular /\ printCount >= 0 => printCount = Len(Standards(2))
-----------------------------------------------------------------------------
(***************************************************************************)
(* The linker of the build, dy-link. Object files and members of libraries *)
(* are read and checked, the members that are needed are chosen, sections  *)
(* of one name are put behind each other, and the symbol table is reduced  *)
(* step by step while every relocation goes on naming the symbol it named. *)
(* A symbol is a record of the table, extra records included; indices      *)
(* start at 1. A relocation keeps the object and the symbol it comes from. *)
(***************************************************************************)

linkVars == <<linkFiles, fmt, linkOut, place, lib, linkAt>>

External == 2
Static == 3
Label == 6
FileName == 103       \* 0x67
Weak == 105
Discarded == 208      \* 0xD0: external, but the name will be discarded
ExtraRecord == -1
LinkAbsolute == 65535
Linked == <<".text", ".rdata", ".data", ".bss">>
Page == 4096
NameBytes == 3        \* a name in the index of a library

LinkStart == "__start"
Mangled == {"m@1"}
ExportOf(n) == IF n = "export_f" THEN "f" ELSE ""
NameOrder == <<".bss", ".data", ".rdata", ".text", "", "__start", "export_f", "f", "g", "h", "m@1", "s", "x">>
NameRank(n) == CHOOSE i \in DOMAIN NameOrder : NameOrder[i] = n

Empty == [secs |-> <<>>, syms |-> <<>>, rels |-> <<>>]
LinkFile(name, type, o) == [name |-> name, type |-> type, obj |-> o, members |-> <<>>]
EmptyFile == LinkFile("empty", -1, Empty)

-----------------------------------------------------------------------------
\* validate_obj
SymbolOk(o, k) ==
    LET s == o.syms[k]
    IN  \/ s.class = ExtraRecord
        \/ /\ s.class # Discarded
           /\ s.sec < 65534 => s.sec <= Len(o.secs)
           /\ s.sec = 0 /\ s.val = 0 => s.class \in {External, Weak}
           /\ (k + 2 <= Len(o.syms) /\ o.syms[k + 1].class = ExtraRecord /\ o.syms[k + 2].class = ExtraRecord)
              => s.class = FileName
LinkBytes == 4
RelocOk(o, r) == r.off + LinkBytes <= o.secs[r.sec].size /\ r.sym \in 1 .. Len(o.syms)
Valid(o) ==
    /\ \A k \in DOMAIN o.syms : SymbolOk(o, k)
    /\ \A i \in DOMAIN o.rels : o.secs[o.rels[i].sec].base # ".bss" /\ RelocOk(o, o.rels[i])
    /\ \A i \in DOMAIN o.secs : o.secs[i].align <= 13

\* read_external_symbols and lib_set_ofiles: an external of a file, by name.
Undefines(o) == {s.name : s \in {t \in Range(o.syms) : t.class = External /\ t.sec = 0}}
Defines(o) == {s.name : s \in {t \in Range(o.syms) : t.class = External /\ t.sec # 0}}
Definers(n) == {i \in DOMAIN linkFiles : n \in Defines(linkFiles[i].obj)}
FirstOf(is) == CHOOSE i \in is : \A j \in is : i <= j

\* What the files of is need from libraries; only the first file that defines
\* a name is asked for it.
NeededBy(is) ==
    {i \in DOMAIN linkFiles : /\ linkFiles[i].type = 1
                          /\ \E j \in is : \E n \in Undefines(linkFiles[j].obj) : i \in Definers(n) /\ i = FirstOf(Definers(n))}
RECURSIVE Closure(_)
Closure(is) == IF NeededBy(is) \subseteq is THEN is ELSE Closure(is \cup NeededBy(is))
Included == Closure({i \in DOMAIN linkFiles : linkFiles[i].type = 0} \cup Definers(LinkStart))

-----------------------------------------------------------------------------
\* link_main: a section symbol with an extra record whose section may be
\* there more than once; the symbol behind them names the content.
IsSectionSymbol(o, k) ==
    LET s == o.syms[k]
    IN  /\ s.class = Static /\ s.val = 0 /\ s.name \in {".text", ".rdata", ".data"}
        /\ s.sec \in DOMAIN o.secs /\ o.secs[s.sec].base = s.name /\ o.secs[s.sec].comdat
Leaders(o) ==
    {k \in 3 .. Len(o.syms) : /\ o.syms[k - 1].class = ExtraRecord /\ o.syms[k - 1].val # 0
                              /\ o.syms[k - 2].class # ExtraRecord /\ IsSectionSymbol(o, k - 2)}
Inconsistent == \E i \in DOMAIN linkFiles : \E k \in Leaders(linkFiles[i].obj) :
                    linkFiles[i].obj.syms[k].sec # linkFiles[i].obj.syms[k - 2].sec

\* duplicate: all but the first of one name are skipped.
AnyOf(i, k) == k \in Leaders(linkFiles[i].obj) /\ linkFiles[i].obj.syms[k - 1].val = 2
Duplicate(i, k) ==
    /\ AnyOf(i, k)
    /\ \E j \in 1 .. i : \E l \in DOMAIN linkFiles[j].obj.syms :
          /\ j < i \/ l < k
          /\ AnyOf(j, l) /\ linkFiles[j].obj.syms[l].name = linkFiles[i].obj.syms[k].name
Skipped(i, sec) == \E k \in DOMAIN linkFiles[i].obj.syms : Duplicate(i, k) /\ linkFiles[i].obj.syms[k].sec = sec

\* iterate_next: the sections of one name, those without a group first.
MaxSecs == 3
Groups == 3
Slots == [x \in 1 .. Groups * Len(linkFiles) * MaxSecs |->
             <<(x - 1) \div (Len(linkFiles) * MaxSecs), (((x - 1) \div MaxSecs) % Len(linkFiles)) + 1, ((x - 1) % MaxSecs) + 1>>]
Iterate(name) ==
    SelectSeq(Slots, LAMBDA x : LET o == linkFiles[x[2]].obj
                                IN  /\ x[3] \in DOMAIN o.secs /\ o.secs[x[3]].base = name /\ o.secs[x[3]].group = x[1]
                                    /\ ~Skipped(x[2], x[3]))

RoundUp(n, a) == ((n + a - 1) \div a) * a
Alignment(bits) == IF bits = 0 THEN 16 ELSE 2 ^ (bits - 1)

\* section_copy_d and section_data_size
CopyData(acc, x) ==
    LET sec == linkFiles[x[2]].obj.secs[x[3]]
        off == RoundUp(acc.size, Alignment(sec.align))
    IN  [size |-> off + sec.size, offs |-> Append(acc.offs, <<x[2], x[3], off>>)]
DataOf(name) == FoldLeft(CopyData, [size |-> 0, offs |-> <<>>], Iterate(name))

Placed ==
    LET all == UNION {Range(DataOf(Linked[n]).offs) : n \in 1 .. 4}
    IN  [i \in DOMAIN linkFiles |-> [s \in 1 .. MaxSecs |->
            IF \E x \in all : x[1] = i /\ x[2] = s THEN (CHOOSE x \in all : x[1] = i /\ x[2] = s)[3] ELSE -1]]

\* The largest alignment of the sections of one name, and the linker's own.
AlignBits(n) ==
    LET used == {linkFiles[x[2]].obj.secs[x[3]].align : x \in Range(Iterate(Linked[n]))} \cup {<<5, 3, 3, 5>>[n]}
    IN  CHOOSE a \in used : \A b \in used : b <= a

RECURSIVE SymbolsBefore(_)
SymbolsBefore(i) == IF i = 1 THEN 0 ELSE SymbolsBefore(i - 1) + Len(linkFiles[i - 1].obj.syms)

\* section_copy_r
RelocsOf(n, pl) ==
    FlattenSeq([y \in 1 .. Len(Iterate(Linked[n])) |->
        LET x == Iterate(Linked[n])[y]
            own == SelectSeq(linkFiles[x[2]].obj.rels, LAMBDA r : r.sec = x[3])
        IN  [k \in DOMAIN own |-> [sec |-> n, off |-> own[k].off + pl[x[2]][x[3]],
                                   sym |-> own[k].sym + SymbolsBefore(x[2]), from |-> <<x[2], own[k].sym>>]]])

\* section_reloc
SectionNumber(o, sec) == IF o.secs[sec].base \in Range(Linked) THEN CHOOSE n \in 1 .. 4 : Linked[n] = o.secs[sec].base ELSE 0

\* symbol_copy_table, after link_main has marked externals whose name is
\* discarded and made weak ones normal.
CopySymbol(i, s, pl) ==
    LET o == linkFiles[i].obj
        class == IF s.class = Weak THEN External ELSE s.class
        marked == IF s.sec # 0 /\ class = External /\ s.name \in Mangled THEN Discarded ELSE class
        number == IF s.sec \in DOMAIN o.secs /\ ~Skipped(i, s.sec) THEN SectionNumber(o, s.sec) ELSE 0
    IN  IF s.class = ExtraRecord \/ s.sec \notin DOMAIN o.secs THEN [s EXCEPT !.class = marked]
        ELSE IF number = 0 THEN [s EXCEPT !.class = marked, !.sec = 0, !.val = 0]
        ELSE [s EXCEPT !.class = marked, !.sec = number, !.val = @ + pl[i][s.sec]]
CopyTable(pl) ==
    FlattenSeq([i \in DOMAIN linkFiles |-> [k \in DOMAIN linkFiles[i].obj.syms |-> CopySymbol(i, linkFiles[i].obj.syms[k], pl)]])

-----------------------------------------------------------------------------
\* delete_record, for all records that are not kept: relocations follow the
\* symbol they name; one that is merged goes to the kept one in front of it.
LinkCompact(o, keep) ==
    LET index == [k \in DOMAIN o.syms |-> Cardinality({j \in 1 .. k : keep[j]})]
        kept == SelectSeq([k \in DOMAIN o.syms |-> k], LAMBDA k : keep[k])
    IN  [o EXCEPT !.syms = [k \in DOMAIN kept |-> o.syms[kept[k]]],
                  !.rels = [r \in DOMAIN o.rels |-> [o.rels[r] EXCEPT !.sym = index[@]]]]
Referenced(o, k) == \E r \in DOMAIN o.rels : o.rels[r].sym = k

Extra(o) == LinkCompact(o, [k \in DOMAIN o.syms |-> o.syms[k].class # ExtraRecord])
ExtraUsed(o) == \E k \in DOMAIN o.syms : o.syms[k].class = ExtraRecord /\ Referenced(o, k)

MultiplyDefined(o) ==
    \E i, j \in DOMAIN o.syms : /\ i # j /\ o.syms[i].sec # 0 /\ o.syms[j].sec # 0
                                /\ o.syms[i].class = External /\ o.syms[j].class = External
                                /\ o.syms[i].name = o.syms[j].name

\* Externals of a program become static unless something says they stay.
Exported(o) ==
    LET exports == {ExportOf(s.name) : s \in {t \in Range(o.syms) : t.class = External}}
        After(s) == IF s.class # External THEN s
                    ELSE IF ExportOf(s.name) # "" THEN [s EXCEPT !.class = Static, !.hidden = TRUE]
                    ELSE [s EXCEPT !.hidden = ~(s.name = LinkStart \/ (s.sec # 0 /\ s.name \in exports))]
    IN  IF fmt \in {"default", "uefi"} THEN [o EXCEPT !.syms = [k \in DOMAIN @ |-> After(@[k])]] ELSE o

MustGo(s) == (s.sec = 0 /\ s.class \notin {External, Discarded}) \/ s.sec > 4
MayGo(s) == (s.sec = 0 /\ s.val = 0) \/ s.class # External
Needed(o) == LinkCompact(o, [k \in DOMAIN o.syms |-> Referenced(o, k) \/ ~(MustGo(o.syms[k]) \/ MayGo(o.syms[k]))])
UnknownUsed(o) == \E k \in DOMAIN o.syms : MustGo(o.syms[k]) /\ Referenced(o, k)

\* Common symbols of one name share the largest size of them, in .bss.
IsCommon(s) == s.sec = 0 /\ s.val # 0
CommonAlign(n) == IF n \in {1, 2, 4, 8} THEN n ELSE IF n < 8 THEN 8 ELSE 16
LinkCommon(o, i) ==
    LET s == o.syms[i]
        same == {k \in DOMAIN o.syms : IsCommon(o.syms[k]) /\ o.syms[k].name = s.name}
        sizes == {o.syms[k].val : k \in same}
        size == CHOOSE v \in sizes : \A w \in sizes : w <= v
        off == RoundUp(o.size[4], CommonAlign(size))
    IN  IF ~IsCommon(s) THEN o
        ELSE [o EXCEPT !.size[4] = off + size,
                       !.syms = [k \in DOMAIN @ |-> IF k \in same THEN [@[k] EXCEPT !.val = off, !.sec = 4] ELSE @[k]]]
Commons(o) == FoldLeft(LinkCommon, o, [k \in DOMAIN o.syms |-> k])

\* An undefined external becomes the first definition of its name.
IsUndefined(s) == s.sec = 0 /\ s.val = 0 /\ s.class \in {External, Discarded}
LinkSymbols(o) ==
    LET Found(s) == {j \in DOMAIN o.syms : o.syms[j].class = s.class /\ o.syms[j].sec # 0 /\ o.syms[j].name = s.name}
        After(s) == IF ~IsUndefined(s) THEN s
                    ELSE IF Found(s) # {} THEN o.syms[FirstOf(Found(s))] ELSE [s EXCEPT !.class = External]
    IN  [o EXCEPT !.syms = [k \in DOMAIN @ |-> After(@[k])]]

Hide(o) == [o EXCEPT !.syms = [k \in DOMAIN @ |->
    [@[k] EXCEPT !.class = IF o.syms[k].sec # 0 /\ o.syms[k].hidden THEN Static ELSE @, !.hidden = FALSE]]]
Statics(o) == LinkCompact(o, [k \in DOMAIN o.syms |-> o.syms[k].class # Static \/ Referenced(o, k)])
SectionSymbol(n) == [name |-> "", sec |-> n, val |-> 0, class |-> Static, hidden |-> FALSE]
LinkInsert(o) == [o EXCEPT !.syms = @ \o [n \in 1 .. 4 |-> SectionSymbol(n)]]

\* qsort_compare: externals last and by name, then by section and value.
LinkKey(o, k) ==
    LET s == o.syms[k] IN <<IF s.class = External THEN 1 ELSE 0, IF s.class = External THEN NameRank(s.name) ELSE 0, s.sec, s.val, k>>
LinkBefore(x, y) == \E n \in 1 .. 5 : x[n] < y[n] /\ \A m \in 1 .. n - 1 : x[m] = y[m]
Sorted(o) ==
    LET rank == [k \in DOMAIN o.syms |-> Cardinality({j \in DOMAIN o.syms : LinkBefore(LinkKey(o, j), LinkKey(o, k))}) + 1]
    IN  [o EXCEPT !.syms = [r \in DOMAIN o.syms |-> o.syms[CHOOSE k \in DOMAIN o.syms : rank[k] = r]],
                  !.rels = [r \in DOMAIN o.rels |-> [o.rels[r] EXCEPT !.sym = rank[@]]]]

SamePlace(s, t) ==
    /\ s.val = t.val /\ s.sec = t.sec
    /\ ~(s.class # External /\ t.class = External)
    /\ s.class = External => s.name = t.name
Merged(o) == LinkCompact(o, [k \in DOMAIN o.syms |-> k = 1 \/ ~SamePlace(o.syms[k - 1], o.syms[k])])

\* A symbol that is not external gets the name of its section, or a new one.
Named(o) == [o EXCEPT !.syms = [k \in DOMAIN @ |->
    IF @[k].class = External THEN @[k]
    ELSE [@[k] EXCEPT !.class = Static, !.name = IF o.syms[k].val = 0 THEN Linked[o.syms[k].sec] ELSE ""]]]
Unresolved(o) == fmt \notin {"at", "obj"} /\ \E k \in DOMAIN o.syms : o.syms[k].class = External /\ o.syms[k].sec = 0

\* The memory layout of the formats that are loaded as they are.
TotalSize(o) == RoundUp(o.size[1], Page) + RoundUp(o.size[2], Page) + RoundUp(o.size[3], Page) + RoundUp(o.size[4], Page)
LayoutWrong(o) ==
    \/ fmt = "init" /\ (TotalSize(o) >= 57344 \/ \E n \in 2 .. 4 : AlignBits(n) > 7)
    \/ fmt = "uefi" /\ \E n \in 2 .. 3 : AlignBits(n) > 7

-----------------------------------------------------------------------------
\* One step of link_main and symbol_process; wrong is its error.
Phase(from, to, wrong, result) ==
    /\ linkAt = from
    /\ IF wrong THEN linkAt' = "failed" /\ linkOut' = linkOut ELSE linkAt' = to /\ linkOut' = result
    /\ UNCHANGED <<linkFiles, fmt, place, lib>>

\* lib_read_ofiles, process_lib_file: the objects of a library come behind all
\* files, and its place becomes empty. Members that are not objects (the index
\* of the library, small or foreign ones) are passed over.
ObjectsIn(ms) == LET o == SelectSeq(ms, LAMBDA m : m.what = "object")
                 IN  [k \in DOMAIN o |-> LinkFile("object", 1, o[k].obj)]
Read ==
    /\ linkAt = "read"
    /\ IF \E i \in DOMAIN linkFiles : \E k \in DOMAIN linkFiles[i].members : linkFiles[i].members[k].what = "broken"
         THEN linkAt' = "failed" /\ UNCHANGED <<linkFiles, lib>>
         ELSE LET read == [i \in DOMAIN linkFiles |-> IF linkFiles[i].members = <<>> THEN linkFiles[i] ELSE EmptyFile]
                          \o FlattenSeq([i \in DOMAIN linkFiles |-> ObjectsIn(linkFiles[i].members)])
              IN  linkAt' = "validate" /\ linkFiles' = read /\ lib' = [lib EXCEPT !.given = read]
    /\ UNCHANGED <<fmt, linkOut, place>>

\* program: every object is checked.
AllValid == \A i \in DOMAIN linkFiles : Valid(linkFiles[i].obj)
Validate == fmt # "lib" /\ Phase("validate", "pick", ~AllValid, linkOut)

\* do_lib_mode: each file is linked alone, as an object.
LibMode ==
    /\ linkAt = "validate" /\ fmt = "lib"
    /\ IF AllValid THEN linkAt' = "copy" /\ fmt' = "obj" /\ linkFiles' = <<linkFiles[1]>>
                        /\ lib' = [lib EXCEPT !.on = TRUE, !.later = Tail(linkFiles)]
                   ELSE linkAt' = "failed" /\ UNCHANGED <<fmt, linkFiles, lib>>
    /\ UNCHANGED <<linkOut, place>>
LibNext ==
    /\ linkAt = "done" /\ lib.on
    /\ lib' = [lib EXCEPT !.members = Append(@, linkOut), !.later = IF @ = <<>> THEN @ ELSE Tail(@)]
    /\ IF lib.later = <<>> THEN linkAt' = "archive" /\ UNCHANGED linkFiles ELSE linkAt' = "copy" /\ linkFiles' = <<Head(lib.later)>>
    /\ UNCHANGED <<fmt, linkOut, place>>

\* lib_main: the index of the externals is written before the members, with
\* the number of the member (and an odd mark) where its offset will be.
ExternalsOf(o) == SelectSeq(o.syms, LAMBDA s : s.class = External /\ s.sec # 0)
LinkEntries == FlattenSeq([m \in DOMAIN lib.members |->
              [k \in DOMAIN ExternalsOf(lib.members[m]) |->
                  [name |-> ExternalsOf(lib.members[m])[k].name, member |-> m - 1, val |-> 2 * (m - 1) + 1]]])
MemberSize(o) == 20 + 4 * 40 + o.size[1] + o.size[2] + o.size[3] + 10 * Len(o.rels) + 18 * Len(o.syms) + 4
IndexSize == 8 + 60 + 4 + (IF LinkEntries = <<>> THEN 1 ELSE (4 + NameBytes) * Len(LinkEntries))
AddMember(acc, m) ==
    [index |-> [k \in DOMAIN acc.index |-> IF acc.index[k].val \div 2 = m - 1 THEN [acc.index[k] EXCEPT !.val = acc.size] ELSE acc.index[k]],
     starts |-> Append(acc.starts, acc.size),
     size |-> RoundUp(acc.size + 60 + MemberSize(lib.members[m]), 2)]
Archive ==
    /\ linkAt = "archive"
    /\ LET all == FoldLeft(AddMember, [index |-> LinkEntries, starts |-> <<>>, size |-> RoundUp(IndexSize, 2)],
                           [m \in DOMAIN lib.members |-> m])
       IN  /\ linkAt' = IF \E k \in DOMAIN all.index : all.index[k].val = 0 \/ all.index[k].val % 2 = 1 THEN "failed" ELSE "archived"
           /\ lib' = [lib EXCEPT !.index = all.index, !.starts = all.starts]
    /\ UNCHANGED <<linkFiles, fmt, linkOut, place>>

\* lib_set_ofiles: members that nobody needs become empty.
SetFiles ==
    /\ linkAt = "pick"
    /\ IF fmt = "default" /\ Definers(LinkStart) = {}
         THEN linkAt' = "failed" /\ linkFiles' = linkFiles
         ELSE linkAt' = "copy" /\ linkFiles' = [i \in DOMAIN linkFiles |-> IF i \in Included THEN [linkFiles[i] EXCEPT !.type = 0]
                                                                ELSE EmptyFile]
    /\ UNCHANGED <<fmt, linkOut, place, lib>>

\* do_link_main, link_main: sections, relocations and symbols are copied.
LinkCopy ==
    /\ linkAt = "copy"
    /\ IF Inconsistent THEN linkAt' = "failed" /\ UNCHANGED <<linkOut, place>>
       ELSE LET pl == Placed
            IN  /\ linkAt' = "extra" /\ place' = pl
                /\ linkOut' = [syms |-> CopyTable(pl), rels |-> RelocsOf(1, pl) \o RelocsOf(2, pl) \o RelocsOf(3, pl),
                           size |-> [n \in 1 .. 4 |-> DataOf(Linked[n]).size]]
    /\ UNCHANGED <<linkFiles, fmt, lib>>

DeleteExtra == Phase("extra", "export", ExtraUsed(linkOut) \/ MultiplyDefined(Extra(linkOut)), Extra(linkOut))
Export == Phase("export", "need", FALSE, Exported(linkOut))
DeleteUnneeded == Phase("need", "link", UnknownUsed(linkOut), Needed(linkOut))
LinkAll == Phase("link", "static", FALSE, LinkSymbols(Commons(linkOut)))
DeleteStatic == Phase("static", "sort", FALSE, Statics(Hide(linkOut)))
Sort == Phase("sort", "merge", FALSE, Sorted(LinkInsert(linkOut)))
Merge == Phase("merge", "name", FALSE, Merged(linkOut))
Name == Phase("name", "layout", Unresolved(Named(linkOut)), Named(linkOut))
Layout == Phase("layout", "done", LayoutWrong(linkOut), linkOut)
LinkEnd == (linkAt \in {"failed", "archived"} \/ (linkAt = "done" /\ ~lib.on)) /\ UNCHANGED linkVars

\* Objects as compilers make them: what they define, need, share and repeat.
Section(base, group, size, align, comdat) ==
    [base |-> base, group |-> group, size |-> size, align |-> align, comdat |-> comdat]
Symbol(name, sec, val, class) == [name |-> name, sec |-> sec, val |-> val, class |-> class, hidden |-> FALSE]
Aux(v) == Symbol("", 0, v, ExtraRecord)
LinkText == Section(".text", 0, 20, 5, FALSE)
LinkPlain == <<LinkText, Section(".data", 0, 6, 3, FALSE)>>
Object(secs, syms) == [secs |-> secs, syms |-> syms, rels |-> <<>>]
Objects == {
  Object(LinkPlain, <<Symbol(LinkStart, 1, 0, External), Symbol("f", 0, 0, External), Symbol("s", 2, 4, Static)>>),
  Object(LinkPlain, <<Symbol("f", 1, 4, External), Symbol("s", 2, 0, Static), Symbol("g", 0, 0, External)>>),
  Object(<<LinkText, Section(".text", 0, 8, 0, TRUE)>>,
         <<Symbol(".text", 2, 0, Static), Aux(2), Symbol("h", 2, 4, External), Symbol("g", 1, 12, External)>>),
  Object(<<LinkText, Section(".rdata", 0, 5, 1, TRUE)>>,
         <<Symbol("g", 1, 4, External), Symbol(".rdata", 2, 0, Static), Aux(2), Symbol("m@1", 2, 0, External)>>),
  Object(LinkPlain, <<Symbol("x", 0, 4, External), Symbol("f", 1, 0, External), Symbol("f", 1, 0, Static)>>),
  Object(LinkPlain, <<Symbol("x", 0, 10, External), Symbol("g", 0, 3, External)>>),
  Object(LinkPlain, <<Symbol("x", 2, 2, External), Symbol("f", 0, 0, Weak), Aux(1)>>),
  Object(LinkPlain, <<Symbol("export_f", 2, 0, External), Symbol("f", 1, 8, External), Symbol("h", 1, 8, External)>>),
  Object(<<Section(".text", 2, 6, 2, FALSE), Section(".text", 1, 7, 3, FALSE), Section(".debug", 0, 4, 1, FALSE)>>,
         <<Symbol("s", 1, 2, Label), Symbol("h", 2, 1, External), Symbol("s", 3, 0, Static)>>),
  Object(LinkPlain, <<Symbol("", 65534, 0, FileName), Aux(1), Aux(1), Symbol("g", LinkAbsolute, 5, Static)>>),
  Object(<<Section(".text", 0, 30000, 5, FALSE), Section(".bss", 0, 30000, 9, FALSE)>>,
         <<Symbol(LinkStart, 1, 4, External), Symbol("x", 2, 0, External)>>),
  Object(LinkPlain, <<Symbol("s", 0, 0, Static), Symbol("g", 3, 0, External)>>)}

\* The first file has any one relocation or two, the others one to the first or the last symbol.
Reloc(off, sym) == [sec |-> 1, off |-> off, sym |-> sym]
AnyRels(o) == {[o EXCEPT !.rels = r] : r \in {<<>>} \cup {<<Reloc(0, k)>> : k \in 1 .. Len(o.syms) + 1}
                                        \cup {<<Reloc(16, 1), Reloc(2, 2)>>}}
EachRel(o) == {[o EXCEPT !.rels = <<Reloc(0, k)>>] : k \in {1, Len(o.syms)}}
Library(members) == [LinkFile("a.lib", 0, Empty) EXCEPT !.members = members]
Member(what, o) == [what |-> what, obj |-> o]

LinkInit ==
    /\ fmt \in Formats
    /\ \E a, b \in Objects : \E p \in AnyRels(a), q \in EachRel(b), way \in {"object", "library"} :
          \/ /\ fmt = "lib" => way = "object"
             /\ fmt = "init" => a.syms[1].name = LinkStart
             /\ linkFiles = <<LinkFile("a.o", 0, p), IF way = "object" THEN LinkFile("b.o", 0, q)
                                            ELSE Library(<<Member("/", Empty), Member("object", q)>>)>>
          \/ \E c \in Objects, what \in {"object", "small", "broken"} :
               /\ way = "library" /\ fmt # "lib" /\ p.rels = <<>> /\ q.rels[1].sym = 1 /\ a.syms[1].name = LinkStart
               /\ linkFiles = <<Library(<<Member("object", q), Member(what, c)>>), LinkFile("a.o", 0, p)>>
    /\ linkOut = [syms |-> <<>>, rels |-> <<>>, size |-> <<0, 0, 0, 0>>] /\ place = <<>> /\ linkAt = "read"
    /\ lib = [given |-> linkFiles, on |-> FALSE, later |-> <<>>, members |-> <<>>, index |-> <<>>, starts |-> <<>>]
LinkNext == \/ Read \/ Validate \/ SetFiles \/ LibMode \/ LibNext \/ Archive \/ LinkCopy \/ DeleteExtra \/ Export \/ DeleteUnneeded \/ LinkAll
        \/ DeleteStatic \/ Sort \/ Merge \/ Name \/ Layout \/ LinkEnd

-----------------------------------------------------------------------------
\* Where a symbol of a file is, as the file says; externals that the file does
\* not have itself are looked for by name.
LinkOwn(i, s) ==
    IF s.sec \in DOMAIN linkFiles[i].obj.secs /\ place[i][s.sec] >= 0
      THEN {<<SectionNumber(linkFiles[i].obj, s.sec), s.val + place[i][s.sec]>>} ELSE {}
Everywhere(n) ==
    UNION {UNION {LinkOwn(i, s) : s \in {t \in Range(linkFiles[i].obj.syms) : t.class \in {External, Weak} /\ t.name = n}}
            : i \in DOMAIN linkFiles}
SharesCommon(n) ==
    \E i \in DOMAIN linkFiles : \E s \in Range(linkFiles[i].obj.syms) : s.class = External /\ IsCommon(s) /\ s.name = n
Meant(i, k, t) ==
    LET s == linkFiles[i].obj.syms[k]
    IN  \/ <<t.sec, t.val>> \in LinkOwn(i, s)
        \/ LinkOwn(i, s) = {} /\ <<t.sec, t.val>> \in Everywhere(s.name)
        \/ t.sec = 4 /\ s.sec = 0 /\ SharesCommon(s.name) /\ t.val + s.val <= linkOut.size[4]
           /\ \A u \in Range(linkOut.syms) : u.sec = 4 => ~(t.val < u.val /\ u.val < t.val + s.val)
        \/ t.sec = 0 /\ t.name = s.name /\ LinkOwn(i, s) = {} /\ Everywhere(s.name) \subseteq {}

\* Every relocation of the sections that are linked is in the output once, and
\* names the place its own file meant; undefined names stay in objects only.
RelocsRight ==
    linkAt = "done" =>
      /\ \A r \in DOMAIN linkOut.rels : Meant(linkOut.rels[r].from[1], linkOut.rels[r].from[2], linkOut.syms[linkOut.rels[r].sym])
      /\ Len(linkOut.rels) = Cardinality(UNION {{<<i, k>> : k \in {q \in DOMAIN linkFiles[i].obj.rels :
                             place[i][linkFiles[i].obj.rels[q].sec] >= 0}} : i \in DOMAIN linkFiles})
      /\ \A k \in DOMAIN linkOut.syms : linkOut.syms[k].sec = 0 => fmt \in {"at", "obj"} /\ Referenced(linkOut, k)

\* Sections and common symbols lie in the output without overlap, where their
\* alignment allows, in the order of their groups.
SectionsRight ==
    linkAt \in {"extra", "done"} =>
      \A i, j \in DOMAIN linkFiles : \A s \in DOMAIN linkFiles[i].obj.secs, t \in DOMAIN linkFiles[j].obj.secs :
        LET a == linkFiles[i].obj.secs[s]  b == linkFiles[j].obj.secs[t]
        IN  place[i][s] >= 0 =>
              /\ place[i][s] % Alignment(a.align) = 0
              /\ place[i][s] + a.size <= linkOut.size[SectionNumber(linkFiles[i].obj, s)]
              /\ (place[j][t] >= 0 /\ a.base = b.base /\ <<i, s>> # <<j, t>>) =>
                   /\ a.group < b.group => place[i][s] + a.size <= place[j][t]
                   /\ place[i][s] + a.size <= place[j][t] \/ place[j][t] + b.size <= place[i][s]

\* An external name has one definition (a common symbol beside a definition of
\* its name stays a second one), an object keeps its externals, and nothing local is left that nobody names.
NamesRight ==
    linkAt = "done" =>
      \A k, l \in DOMAIN linkOut.syms :
        /\ (k # l /\ linkOut.syms[k].class = External /\ linkOut.syms[l].class = External /\ linkOut.syms[k].name = linkOut.syms[l].name)
             => SharesCommon(linkOut.syms[k].name) /\ Everywhere(linkOut.syms[k].name) # {}
        /\ fmt = "obj" => \A i \in DOMAIN linkFiles : \A s \in Range(linkFiles[i].obj.syms) :
              (s.class = External /\ LinkOwn(i, s) # {} /\ s.name \notin Mangled) =>
                 \E u \in Range(linkOut.syms) : u.class = External /\ u.name = s.name /\ <<u.sec, u.val>> \in LinkOwn(i, s)
        /\ linkOut.syms[k].class = Static /\ linkOut.syms[k].val # 0 => Referenced(linkOut, k)
        /\ linkOut.syms[k].class = External /\ fmt = "default" => linkOut.syms[k].name \in {LinkStart, "f"}

\* A library gives what is needed and nothing else; the index of one that is
\* made leads to the member that defines the name.
LibraryRight ==
    /\ linkAt = "archived" => \A k \in DOMAIN lib.index :
         /\ lib.index[k].val = lib.starts[lib.index[k].member + 1]
         /\ \E s \in Range(lib.members[lib.index[k].member + 1].syms) : s.name = lib.index[k].name /\ s.sec # 0
    /\ linkAt = "copy" => \A i \in DOMAIN linkFiles : linkFiles[i].type = 0 =>
          /\ linkFiles[i].name = "object" /\ ~lib.on =>
                LinkStart \in Defines(linkFiles[i].obj) \/ \E j \in DOMAIN linkFiles : j # i /\ Defines(linkFiles[i].obj) \cap Undefines(linkFiles[j].obj) # {}
          /\ \A n \in Undefines(linkFiles[i].obj) :
                ~lib.on /\ (\E j \in DOMAIN linkFiles : n \in Defines(lib.given[j].obj)) => Definers(n) # {}
-----------------------------------------------------------------------------
(***************************************************************************)
(* The parts share no variable, so a property of one of them holds when    *)
(* they run together if it holds when the others stand still. A behaviour  *)
(* therefore moves one part, chosen at the start.                          *)
(***************************************************************************)
screenVars == <<con, shown, screen, screenBusy, nops, due, did, screenKept>>
stdioVars ==
  <<held, stdioFd, file, stdioOff, stdioMode, bmode, stdioSize, stdioBuf,
    start, written, pushed, eof, stdioErr, call, view, stdioAt>>
parseVars ==
  <<line, cmds, parseOpen, parsePc, p1, p2, prev, exit, operate, ran, error>>
vars ==
  <<part, screenVars, stdioVars, parseVars, inputVars, pipeVars, editVars,
    redirVars, tokenVars, varVars, argsVars, printVars, linkVars>>

ScreenMoves ==
  /\ part = "screen"
  /\ UNCHANGED <<part, stdioVars, parseVars, inputVars, pipeVars, editVars,
                  redirVars, tokenVars, varVars, argsVars, printVars,
                  linkVars>>
CursorMoves ==
  /\ part = "cursor"
  /\ UNCHANGED <<part, stdioVars, parseVars, inputVars, pipeVars, editVars,
                  redirVars, tokenVars, varVars, argsVars, printVars,
                  linkVars>>
ModesMoves ==
  /\ part = "modes"
  /\ UNCHANGED <<part, stdioVars, parseVars, inputVars, pipeVars, editVars,
                  redirVars, tokenVars, varVars, argsVars, printVars,
                  linkVars>>
StdioMoves ==
  /\ part = "stdio"
  /\ UNCHANGED <<part, screenVars, parseVars, inputVars, pipeVars, editVars,
                  redirVars, tokenVars, varVars, argsVars, printVars,
                  linkVars>>
ParseMoves ==
  /\ part = "parse"
  /\ UNCHANGED <<part, screenVars, stdioVars, inputVars, pipeVars, editVars,
                  redirVars, tokenVars, varVars, argsVars, printVars,
                  linkVars>>
InputMoves ==
  /\ part = "input"
  /\ UNCHANGED <<part, screenVars, stdioVars, parseVars, pipeVars, editVars,
                  redirVars, tokenVars, varVars, argsVars, printVars,
                  linkVars>>
PipeMoves ==
  /\ part = "pipe"
  /\ UNCHANGED <<part, screenVars, stdioVars, parseVars, inputVars, editVars,
                  redirVars, tokenVars, varVars, argsVars, printVars,
                  linkVars>>
EditMoves ==
  /\ part = "edit"
  /\ UNCHANGED <<part, screenVars, stdioVars, parseVars, inputVars, pipeVars,
                  redirVars, tokenVars, varVars, argsVars, printVars,
                  linkVars>>
RedirMoves ==
  /\ part = "redir"
  /\ UNCHANGED <<part, screenVars, stdioVars, parseVars, inputVars, pipeVars,
                  editVars, tokenVars, varVars, argsVars, printVars,
                  linkVars>>
TokenMoves ==
  /\ part = "token"
  /\ UNCHANGED <<part, screenVars, stdioVars, parseVars, inputVars, pipeVars,
                  editVars, redirVars, varVars, argsVars, printVars,
                  linkVars>>
VarMoves ==
  /\ part = "var"
  /\ UNCHANGED <<part, screenVars, stdioVars, parseVars, inputVars, pipeVars,
                  editVars, redirVars, tokenVars, argsVars, printVars,
                  linkVars>>
ArgsMoves ==
  /\ part = "args"
  /\ UNCHANGED <<part, screenVars, stdioVars, parseVars, inputVars, pipeVars,
                  editVars, redirVars, tokenVars, varVars, printVars,
                  linkVars>>
PrintMoves ==
  /\ part = "print"
  /\ UNCHANGED <<part, screenVars, stdioVars, parseVars, inputVars, pipeVars,
                  editVars, redirVars, tokenVars, varVars, argsVars,
                  linkVars>>
LinkMoves ==
  /\ part = "link"
  /\ UNCHANGED <<part, screenVars, stdioVars, parseVars, inputVars, pipeVars,
                  editVars, redirVars, tokenVars, varVars, argsVars,
                  printVars>>

Init ==
  /\ part \in Parts
  /\ (part \notin {"cursor", "modes"} => Scrolling!Init)
  /\ (part = "cursor" => Moving!Init)
  /\ (part = "modes" => Switching!Init) /\ Stream!Init /\ Shell!Init
  /\ InputInit /\ PipeInit /\ EditInit /\ RedirInit /\ Rests
  /\ (IF part = "token" THEN TokenInit ELSE TokenRests)
  /\ (IF part = "var" THEN VarInit ELSE VarRests)
  /\ (IF part = "args" THEN ArgsInit ELSE ArgsRests)
  /\ (IF part = "print" THEN PrintInit ELSE PrintRests)
  /\ (IF part = "link" THEN LinkInit ELSE LinkRests)

Next ==
  \/ ScreenMoves /\ Scrolling!Next
  \/ CursorMoves /\ Moving!Next
  \/ ModesMoves /\ Switching!Next
  \/ StdioMoves /\ Stream!Next
  \/ ParseMoves /\ Shell!Next
  \/ InputMoves /\ InputNext
  \/ PipeMoves /\ PipeNext
  \/ EditMoves /\ EditNext
  \/ RedirMoves /\ RedirNext
  \/ TokenMoves /\ TokenNext
  \/ VarMoves /\ VarNext
  \/ ArgsMoves /\ ArgsNext
  \/ PrintMoves /\ PrintNext
  \/ LinkMoves /\ LinkNext

Spec == Init /\ [][Next]_vars

-----------------------------------------------------------------------------
TypeOK ==
  CASE part = "screen" -> Scrolling!TypeOK [] part = "cursor" -> Moving!TypeOK
    [] part = "modes" -> Switching!TypeOK
    [] part = "input" -> InputTypeOK
    [] part = "stdio" -> Stream!TypeOK [] part = "parse" -> Shell!TypeOK
    [] part = "pipe" -> PipeTypeOK
    [] OTHER -> TRUE

\* Between writes the screen shows the console that is switched to, though only
\* changed cells are drawn; a control sequence gets the parameters that were
\* written, and what the code reads behind them (console.c:659) changes nothing.
TerminalRight ==
  /\ TypeOK
  /\ part = "screen" => Scrolling!WrapAtEdge /\ Scrolling!ScreenShows
  /\ part = "cursor" => Moving!WrapAtEdge /\ Moving!ScreenShows
  /\ part = "modes" => Switching!ScreenShows
  /\ part = "input" => ParametersRead /\ RenditionSettled

\* A stream keeps the program's bytes and their order through short and failed
\* writes; a line of the shell runs the commands it says, under the conditions
\* it says; quoted text stays as it is; a variable has one value, and a command
\* gets those that were given to it and the descriptors its redirections say;
\* the cursor of the line editor stays between characters and on the screen;
\* the programs of a pipeline see the end of their input, and the shell keeps
\* no end of a pipe, no file and no child; a program gets its operands and the
\* options it has; vsnprintf writes what fits of the text the C standard
\* prescribes; relocations of a linked program name what their files meant.
ProgramsRight ==
  /\ part = "stdio" =>
       /\ Stream!NothingHeld /\ Stream!BytesKept /\ Stream!Told /\ Stream!ReadsInOrder
       /\ Stream!CountIsAccepted /\ Stream!LineLeft /\ Stream!ClosedWhole
  /\ part = "parse" => Shell!RunsMeant /\ Shell!InBounds
  /\ part = "pipe" => EndSeen /\ NoLeak /\ OwnEnds /\ GroupReaped /\ GoesOn
  /\ part = "token" => ReadsOn /\ QuotedStays
  /\ part = "var" => NamesOnce /\ EnvAsGiven
  /\ part = "edit" => CursorRight /\ WindowRight
  /\ part = "redir" => RedirectsMeant /\ ShellKeeps
  /\ part = "args" => OperandsKept /\ OptionsKnown
  /\ part = "print" => PrintTypeOK /\ PrintedRight /\ CountedRight
  /\ part = "link" => RelocsRight /\ SectionsRight /\ NamesRight /\ LibraryRight

\* Lines outside the scrolling region and the main screen behind the alternate
\* one stay; nothing of a control sequence is printed; an interrupt ends a line.
StepsRight ==
  [][ /\ part = "screen" => Scrolling!RegionKept
      /\ part = "modes" => Switching!MainKept
      /\ part = "input" => NothingPrinted
      /\ part = "parse" => Shell!StopsAtOnce ]_vars
=============================================================================
