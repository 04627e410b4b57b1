------------------------------ MODULE DshParse ------------------------------
(***************************************************************************)
(* A command line in the shell (dsh/parser.c): tokens are collected into   *)
(* commands, the list is cut at its operators, each pipeline at "|", and   *)
(* the words of a part are put together around its redirections. What runs *)
(* is recorded in ran; running a pipeline is in DshPipe.                   *)
(*                                                                         *)
(* A word is the name of a program that succeeds ("t"), fails ("f") or is  *)
(* ended by SIGINT ("i"), or of the built-in command exit ("x").           *)
(***************************************************************************)
EXTENDS Integers, Sequences, FiniteSets, SequencesExt

CONSTANTS Words, Ops,  \* words and operators
          MaxTokens,   \* bound on the tokens of a line
          Limit        \* commands of a line (128)

VARIABLES line,        \* the tokens that were read
          cmds,        \* commands[]: words, operator or variable
          open,        \* state: the last of cmds is a command with words
          pc,          \* "read", "list", "done"
          p1, p2,      \* of parse_list: the pipeline, and its end
          prev,        \* prev_op
          exit,        \* dsh_exit_code
          operate,     \* dsh_operate_state
          ran,         \* words of the parts that ran, and their redirections
          error        \* "none", or what ended the line

vars == <<line, cmds, open, pc, p1, p2, prev, exit, operate, ran, error>>
list == <<p1, p2, prev, exit, operate, ran>>

Lists == {"&&", "||", ";", "&", "end"}
Redirects == {">", "<"}
SigInt == 130

Cmd(w, o, v) == [words |-> w, op |-> o, var |-> v]

-----------------------------------------------------------------------------
(* parse_input *)

\* Mutant: the room for the last command and the end is not kept.
HasRoomLess(c) == (IF open THEN Len(c) - 1 ELSE Len(c)) < Limit
\* Two more are needed at the end of the line; commands_count does not count
\* the command that is open.
HasRoom(c) == (IF open THEN Len(c) - 1 ELSE Len(c)) + 2 < Limit

Overflow ==
    /\ pc = "read" /\ ~HasRoom(cmds)
    /\ pc' = "done" /\ error' = "overflow" /\ exit' = 2
    /\ UNCHANGED <<line, cmds, open, p1, p2, prev, operate, ran>>

AddWord(w) ==
    /\ cmds' = IF open THEN [cmds EXCEPT ![Len(cmds)].words = Append(@, w)]
               ELSE Append(cmds, Cmd(<<w>>, "", FALSE))
    /\ open' = TRUE

\* A variable is one only in front of the words.
AddVar ==
    IF open THEN AddWord("v") ELSE cmds' = Append(cmds, Cmd(<<>>, "", TRUE)) /\ open' = FALSE

AddOp(o) == cmds' = Append(cmds, Cmd(<<>>, o, FALSE)) /\ open' = FALSE

ReadToken(t) ==
    /\ pc = "read" /\ HasRoom(cmds) /\ Len(line) < MaxTokens
    /\ line' = Append(line, t)
    /\ IF t = "v" THEN AddVar ELSE IF t \in Words THEN AddWord(t) ELSE AddOp(t)
    /\ UNCHANGED <<pc, list, error>>

\* Mutant: the end of the line is not a command.
CloseLineNone == UNCHANGED <<cmds, open>>
CloseLine == AddOp("end")

\* An empty line does nothing.
ReadEnd ==
    /\ pc = "read" /\ HasRoom(cmds)
    /\ CloseLine
    /\ pc' = IF Len(cmds) > 0 THEN "list" ELSE "done"
    /\ UNCHANGED <<line, list, error>>

-----------------------------------------------------------------------------
(* parse_pipeline and parse_pipeline_part, up to the call of dsh_execute *)

\* The pipeline is cmds[a..b]; its parts as pairs of indices.
Bars(a, b) == {k \in a..b : cmds[k].op = "|"}
PartStarts(a, b) == {a} \cup {k + 1 : k \in Bars(a, b)}
PartEnd(s, b) == LET after == {k \in Bars(s, b) : TRUE} \cup {b + 1}
                 IN  (CHOOSE k \in after : \A l \in after : k <= l) - 1
PartsOf(a, b) == LET starts == SetToSortSeq(PartStarts(a, b), LAMBDA x, y : x < y)
                 IN  [k \in 1..Len(starts) |-> <<starts[k], PartEnd(starts[k], b)>>]

\* A redirection takes the first word of the command that follows.
Targets(s, e) == {k + 1 : k \in {l \in s..e : cmds[l].op \in Redirects}}
Supported(s, e) == \A k \in s..e : cmds[k].op \in Redirects \cup {""}
HasTarget(s, e) == \A k \in Targets(s, e) : cmds[k].words # <<>>

\* Mutant: the word after a redirection stays an argument.
LeftAll(k, s, e) == cmds[k].words
Left(k, s, e) == IF k \in Targets(s, e) THEN Tail(cmds[k].words) ELSE cmds[k].words

WithWords(s, e) == {k \in s..e : Left(k, s, e) # <<>>}
Main(s, e) == CHOOSE k \in WithWords(s, e) : \A l \in WithWords(s, e) : k <= l

\* append_arg refuses a command whose first word was taken.
CanAppend(s, e) ==
    WithWords(s, e) # {} => Main(s, e) \notin Targets(s, e) \/ WithWords(s, e) = {Main(s, e)}

PartError(s, e) == ~Supported(s, e) \/ ~HasTarget(s, e) \/ ~CanAppend(s, e)

Argv(s, e) == FlattenSeq([k \in 1..(e - s + 1) |-> Left(s + k - 1, s, e)])

\* Mutant: a process in front of a "|" is waited for.
CodeOfAny(w, last) == CASE w = "f" -> 1 [] w = "i" -> SigInt [] OTHER -> 0
\* Only the last process of a pipeline in the foreground gives its code.
CodeOf(w, last) == IF ~last THEN 0 ELSE CASE w = "f" -> 1 [] w = "i" -> SigInt [] OTHER -> 0

\* Mutant: exit does not end the line.
OperateAfterAny(w) == TRUE
OperateAfter(w) == w # "x"

\* The parts one after the other, until an error or the end of the shell.
RunPart(r, part, last) ==
    LET s == part[1] e == part[2]
    IN  IF r.e \/ ~r.operate THEN r
        ELSE IF PartError(s, e) THEN [r EXCEPT !.e = TRUE, !.exit = 1]
        ELSE IF WithWords(s, e) = {} THEN r
        ELSE LET w == Argv(s, e)[1]
             IN  [r EXCEPT !.ran = Append(@, [argv |-> Argv(s, e), redirs |-> Cardinality(Targets(s, e))]),
                           !.exit = CodeOf(w, last), !.operate = OperateAfter(w)]

RunPipeline(a, b, noWait) ==
    LET parts == PartsOf(a, b)
    IN  FoldLeft(LAMBDA r, k : RunPart(r, parts[k], k = Len(parts) /\ ~noWait),
                 [e |-> FALSE, exit |-> exit, operate |-> operate, ran |-> ran],
                 [k \in 1..Len(parts) |-> k])

-----------------------------------------------------------------------------
(* parse_list *)

\* Mutant: what follows && is run after a failure as well.
SkippedNever == FALSE
Skipped == (prev = "&&" /\ exit # 0) \/ (prev = "||" /\ exit = 0)

Advance(o) == prev' = o /\ p1' = p2 + 1 /\ p2' = p2 + 1

\* Not an operator of the list: part of the pipeline.
Collect ==
    /\ pc = "list" /\ operate /\ p2 <= Len(cmds) /\ cmds[p2].op \notin Lists
    /\ p2' = p2 + 1
    /\ UNCHANGED <<line, cmds, open, pc, p1, prev, exit, operate, ran, error>>

Empty ==
    /\ pc = "list" /\ operate /\ p2 <= Len(cmds) /\ cmds[p2].op \in Lists /\ p1 = p2
    /\ pc' = "done"
    /\ IF prev \in {"&", ";"} /\ cmds[p2].op = "end" THEN UNCHANGED <<error, exit>>
       ELSE error' = "empty" /\ exit' = 2
    /\ UNCHANGED <<line, cmds, open, p1, p2, prev, operate, ran>>

Skip ==
    /\ pc = "list" /\ operate /\ p2 <= Len(cmds) /\ cmds[p2].op \in Lists /\ p1 < p2 /\ Skipped
    /\ Advance(cmds[p2].op)
    /\ UNCHANGED <<line, cmds, open, pc, exit, operate, ran, error>>

Run ==
    /\ pc = "list" /\ operate /\ p2 <= Len(cmds) /\ cmds[p2].op \in Lists /\ p1 < p2 /\ ~Skipped
    /\ LET r == RunPipeline(p1, p2 - 1, cmds[p2].op = "&")
       IN  /\ ran' = r.ran /\ operate' = r.operate
           /\ exit' = IF ~r.e /\ cmds[p2].op = "&" THEN 0 ELSE r.exit
           /\ error' = IF r.e THEN "part" ELSE error
           /\ pc' = IF r.e \/ exit' = SigInt THEN "done" ELSE pc
    /\ Advance(cmds[p2].op)
    /\ UNCHANGED <<line, cmds, open>>

\* The end of the list, or the shell was left.
Stop ==
    /\ pc = "list" /\ (~operate \/ p2 > Len(cmds))
    /\ pc' = "done"
    /\ UNCHANGED <<line, cmds, open, list, error>>

Init ==
    /\ line = <<>> /\ cmds = <<>> /\ open = FALSE /\ pc = "read" /\ p1 = 1 /\ p2 = 1 /\ prev = ""
    /\ exit = 0 /\ operate = TRUE /\ ran = <<>> /\ error = "none"

Next ==
    \/ (\E t \in Words \cup Ops \cup {"v"} : ReadToken(t)) \/ ReadEnd \/ Overflow
    \/ Collect \/ Empty \/ Skip \/ Run \/ Stop

Spec == Init /\ [][Next]_vars

-----------------------------------------------------------------------------
(* What a line means, from its tokens *)

Separators(l) == {k \in 1..Len(l) : l[k] \in Lists}
Starts(l, seps) == SetToSortSeq({1} \cup {k + 1 : k \in seps}, LAMBDA x, y : x < y)
Pieces(l, seps) ==
    LET s == Starts(l, seps)
    IN  [k \in 1..Len(s) |-> SubSeq(l, s[k], IF k < Len(s) THEN s[k + 1] - 2 ELSE Len(l))]
Elements == Pieces(line, Separators(line))
Operators == SelectSeq(line, LAMBDA t : t \in Lists)

\* The variables in front of the words, and the words after redirections, are
\* not arguments.
MeantArgv(q) ==
    LET isArg(k) == /\ q[k] \in Words \cup {"v"}
                    /\ ~(k > 1 /\ q[k - 1] \in Redirects)
                    /\ q[k] = "v" => (k > 1 /\ q[k - 1] \in Words \cup {"v"} /\
                           (\E l \in 1..(k - 1) : q[l] \in Words /\ (\A n \in l..(k - 1) : q[n] \in Words \cup {"v"})))
    IN  [n \in 1..Cardinality({k \in 1..Len(q) : isArg(k)}) |->
            q[CHOOSE k \in 1..Len(q) : isArg(k) /\ Cardinality({l \in 1..k : isArg(l)}) = n]]
Meant(element) ==
    SelectSeq([k \in 1..Len(Pieces(element, {n \in 1..Len(element) : element[n] = "|"})) |->
                  MeantArgv(Pieces(element, {n \in 1..Len(element) : element[n] = "|"})[k])],
              LAMBDA a : a # <<>>)

\* The code an element ends with, if it runs after code c.
MeantCode(element, op, c) ==
    LET bars == {n \in 1..Len(element) : element[n] = "|"}
        parts == Pieces(element, bars)
    IN  IF op = "&" THEN 0
        ELSE IF MeantArgv(parts[Len(parts)]) # <<>>
               THEN (CASE MeantArgv(parts[Len(parts)])[1] = "f" -> 1
                       [] MeantArgv(parts[Len(parts)])[1] = "i" -> SigInt [] OTHER -> 0)
             ELSE IF Meant(element) = <<>> THEN c ELSE 0

MeantLine ==
    LET els == Elements
        op(k) == IF k <= Len(Operators) THEN Operators[k] ELSE "end"
        f[k \in 0..Len(els)] ==
            IF k = 0 THEN [ran |-> <<>>, code |-> 0, stop |-> FALSE]
            ELSE LET r == f[k - 1]
                     before == IF k = 1 THEN ";" ELSE op(k - 1)
                     go == ~r.stop /\ (before = "&&" => r.code = 0) /\ (before = "||" => r.code # 0)
                     m == Meant(els[k])
                     x == {n \in 1..Len(m) : m[n][1] = "x"}
                     cut == IF x = {} THEN m
                            ELSE SubSeq(m, 1, CHOOSE n \in x : \A o \in x : n <= o)
                 IN  IF ~go THEN r
                     ELSE [ran |-> r.ran \o cut, code |-> MeantCode(els[k], op(k), r.code),
                           stop |-> x # {} \/ MeantCode(els[k], op(k), r.code) = SigInt]
    IN  f[Len(els)].ran

-----------------------------------------------------------------------------
(* Properties *)

TypeOK ==
    /\ Len(cmds) <= Limit - 1 /\ p1 <= p2 /\ p2 <= Len(cmds) + 1
    /\ exit \in {0, 1, 2, SigInt} /\ operate \in BOOLEAN

Done == SubSeq([k \in 1..Len(ran) |-> ran[k].argv], 1, Len(ran))

\* A line without an error runs the commands it says, with their arguments in
\* order and without the names of files, under the conditions that && and ||
\* make; a line that ends in an error runs the first of them.
RunsMeant ==
    /\ pc = "done" /\ error = "none" => Done = MeantLine
    /\ pc = "done" /\ error = "part" => IsPrefix(Done, MeantLine)

\* The command behind an operator that needs a word is always there to be looked
\* at: the end of the line is a command of its own.
InBounds == pc = "list" => \A k \in 1..Len(cmds) : cmds[k].op \in Redirects => k + 1 <= Len(cmds)

\* After an interrupted program, or after exit, nothing of the line runs.
StopsAtOnce ==
    ran' # ran => /\ exit # SigInt
                     /\ \A k \in 1..Len(ran) : ran[k].argv[1] # "x"
=============================================================================
