--------------------------------- MODULE Ps2 --------------------------------
(***************************************************************************)
(* The PS/2 keyboard: the buffer of the port between the interrupt and the *)
(* PS/2 task (ps2/8042.c), commands, scan codes and the probe that finds a *)
(* keyboard again after it was replaced (ps2/keyboard.c).  What a key does *)
(* is process_keycode, the same here and in usb/boot_kbd.c: Control and    *)
(* Alt stand for all modifiers, Caps Lock for all locks.                   *)
(*                                                                         *)
(* The keyboard (external) answers commands in order and sends the bytes   *)
(* of a key together.  A byte is a scan code of set 1 or an answer.        *)
(***************************************************************************)
EXTENDS Naturals, SequencesExt

CONSTANTS
  Size,     \* PS2_BUFFER_SIZE
  KeySet,   \* the keys of this keyboard
  Late,     \* an answer may come after the time limit
  MaxKeys,  \* bound: presses and releases
  MaxPlugs, \* bound: how often the keyboard is unplugged
  MaxResend \* bound: answers that ask for the command again

VARIABLES
  buf,      \* ps2_buffer[0]
  event,    \* ps2_event_port1 is signalled
  pc,       \* where the PS/2 task is
  cmd,      \* the command it sends: an index of Init commands, or the LEDs
  left,     \* responses it waits for
  ready,    \* kbd_ready
  probe,    \* probe_state
  kbdState, \* kbd_state
  keys,     \* modifiers and locks
  led,      \* data_led_state[0]
  on,       \* the keyboard is there
  scanning, \* it sends keys
  sending,  \* bytes it is going to send
  down,     \* keys that are pressed
  nkeys, nplugs, nresend,
  lost,     \* history: a byte of a key was thrown away
  due,      \* history: keys whose bytes were sent and that were not processed
  wrong     \* history: a key was processed that was not due

Ctrl == {"lctrl", "rctrl"}
Alt == {"lalt", "ralt"}
Mods == Ctrl \cup Alt
Special == {"delete", "paddelete", "f1", "f8"}
Keys == Mods \cup Special \cup {"capslock", "a", "b", "c", "pause"}

\* keymod_* and data_led_state[1] (state->lctrl ..., state->leds[1]).
KeyState == [mods : SUBSET Mods, caps : BOOLEAN]

KeyStart == [mods |-> {}, caps |-> FALSE]

\* The switch: modifiers and locks.
Switch(s, key, release) ==
  [s EXCEPT !.mods = IF key \notin Mods THEN @ ELSE IF release THEN @ \ {key} ELSE @ \cup {key},
            !.caps = IF key = "capslock" /\ ~release THEN ~@ ELSE @]

\* The key is part of a combination, which signals an event of the kernel or
\* nothing, and is not written.
Combination(s, key) == s.mods \cap Ctrl # {} /\ s.mods \cap Alt # {} /\ key \in Special

\* What is written: the key and the state after it.
Written(s, key, release) ==
  IF Combination(s, key) THEN <<>> ELSE <<[key |-> key, release |-> release, mods |-> s.mods, caps |-> s.caps]>>

taskVars == <<pc, cmd, left, ready, probe, kbdState, keys, led>>
devVars == <<on, scanning, sending, down, nkeys, nplugs, nresend>>
vars == <<buf, event, taskVars, devVars, lost, due, wrong>>

Make(c) == [code |-> c, release |-> FALSE]
Break(c) == [code |-> c, release |-> TRUE]
Answer(c) == [code |-> c, release |-> FALSE]

Answers == {"FA", "FE", "EE", "AA", "ID"}

\* How the keyboard encodes a key (external).
Code(key) ==
  CASE key \in Ctrl -> "1D" [] key \in Alt -> "38" [] key \in {"delete", "paddelete"} -> "53"
    [] key = "f1" -> "3B" [] key = "f8" -> "42" [] key = "capslock" -> "3A" [] OTHER -> "1E"

Encode(key, release) ==
  LET b == IF release THEN Break(Code(key)) ELSE Make(Code(key)) IN
  IF key = "pause" THEN <<Make("E1"), IF release THEN Break("1D") ELSE Make("1D"), IF release THEN Break("45") ELSE Make("45")>>
  ELSE IF key \in {"rctrl", "ralt", "delete"} THEN <<Make("E0"), b>> ELSE <<b>>

\* The commands of ps2_kbd_init: the name, whether a byte follows, how many
\* responses there are, and whether a failure ends the initialization.
Commands == <<
  [name |-> "reset", data |-> FALSE, count |-> 1, must |-> FALSE],
  [name |-> "disable", data |-> FALSE, count |-> 0, must |-> TRUE],
  [name |-> "type", data |-> FALSE, count |-> 2, must |-> TRUE],
  [name |-> "scancode", data |-> TRUE, count |-> 0, must |-> TRUE],
  [name |-> "led", data |-> TRUE, count |-> 0, must |-> TRUE],
  [name |-> "typematic", data |-> TRUE, count |-> 0, must |-> TRUE],
  [name |-> "enable", data |-> FALSE, count |-> 0, must |-> FALSE] >>

LedCmd == Len(Commands) + 1

Cmd(i) == IF i = LedCmd THEN Commands[5] ELSE Commands[i]

TypeOK ==
  /\ Len(buf) < Size /\ event \in BOOLEAN
  /\ pc \in {"wait", "handle", "handle_not_ready", "led", "send", "ack", "data", "resp", "drain", "probe"}
  /\ cmd \in 1 .. LedCmd /\ left \in 0 .. 2 /\ ready \in BOOLEAN /\ probe \in 0 .. 3
  /\ kbdState \in {"0", "E0", "E1", "E1+"} /\ keys \in KeyState /\ led \in BOOLEAN
  /\ down \subseteq KeySet /\ on \in BOOLEAN /\ scanning \in BOOLEAN

Init ==
  /\ buf = <<>> /\ event = FALSE
  /\ pc = "send" /\ cmd = 1 /\ left = 0 /\ ready = FALSE /\ probe = 0
  /\ kbdState = "0" /\ keys = KeyStart /\ led = FALSE
  /\ on \in BOOLEAN /\ scanning = TRUE /\ sending = <<>> /\ down = {}
  /\ nkeys = 0 /\ nplugs = 0 /\ nresend = 0 /\ lost = FALSE /\ due = <<>> /\ wrong = FALSE

-----------------------------------------------------------------------------
(* The keyboard (external).                                                 *)

\* A key is pressed or released.
Key(key) ==
  /\ on /\ nkeys < MaxKeys /\ nkeys' = nkeys + 1
  /\ down' = IF key \in down THEN down \ {key} ELSE down \cup {key}
  /\ IF scanning THEN /\ sending' = sending \o Encode(key, key \in down)
                      /\ due' = Append(due, <<key, key \in down>>) /\ UNCHANGED lost
     ELSE lost' = TRUE /\ UNCHANGED <<sending, due>>
  /\ UNCHANGED <<buf, event, taskVars, on, scanning, nplugs, nresend, wrong>>

Unplug ==
  /\ on /\ nplugs < MaxPlugs /\ nplugs' = nplugs + 1
  /\ on' = FALSE /\ sending' = <<>> /\ lost' = TRUE /\ down' = {}
  /\ UNCHANGED <<buf, event, taskVars, scanning, nkeys, nresend, due, wrong>>

Plug ==
  /\ ~on /\ on' = TRUE /\ scanning' = TRUE
  /\ UNCHANGED <<buf, event, taskVars, sending, down, nkeys, nplugs, nresend, lost, due, wrong>>

\* What the keyboard makes of a byte from the port.
Receives(c) ==
  IF ~on THEN UNCHANGED <<sending, scanning, nresend, lost>>
  ELSE \/ /\ sending' = sending \o
               (CASE c = "reset" -> <<Answer("FA"), Answer("AA")>>
                  [] c = "type" -> <<Answer("FA"), Answer("ID"), Answer("ID")>>
                  [] c = "echo" -> <<Answer("EE")>>
                  [] OTHER -> <<Answer("FA")>>)
          /\ scanning' = (c \in {"reset", "enable"} \/ (scanning /\ c # "disable"))
          /\ UNCHANGED <<nresend, lost>>
       \/ /\ nresend < MaxResend /\ nresend' = nresend + 1
          /\ sending' = Append(sending, Answer("FE"))
          /\ UNCHANGED <<scanning, lost>>

-----------------------------------------------------------------------------
(* ps2/8042.c.                                                              *)

IsKey(b) == b.code \notin Answers

IrqGrows ==
  /\ sending # <<>>
  /\ sending' = Tail(sending) /\ buf' = Append(buf, Head(sending)) /\ event' = TRUE
  /\ UNCHANGED <<taskVars, on, scanning, down, nkeys, nplugs, nresend, lost, due, wrong>>

\* ps2_irq_func: the oldest byte is overwritten when the buffer is full.
Irq ==
  /\ sending # <<>>
  /\ sending' = Tail(sending)
  /\ LET full == Len(buf) = Size - 1
         b == Append(buf, Head(sending))
     IN /\ buf' = IF full THEN Tail(b) ELSE b
        /\ lost' = (lost \/ (full /\ IsKey(Head(b))))
  /\ event' = TRUE
  /\ UNCHANGED <<taskVars, on, scanning, down, nkeys, nplugs, nresend, due, wrong>>

ReceivedReset == buf' = Tail(buf) /\ event' = FALSE

\* ps2_receive_port1: the byte is Head(buf); the event is reset with the last.
Received == buf' = Tail(buf) /\ event' = (event /\ Len(buf) > 1)

\* The byte is not used.
Discard == Received /\ lost' = (lost \/ IsKey(Head(buf)))

\* ps2_receive_port1 of an empty buffer.
Empty == buf = <<>> /\ event' = FALSE /\ UNCHANGED buf

\* ps2_task: a byte, or nothing for 2.5 seconds.
WaitByte ==
  /\ pc = "wait" /\ event
  /\ probe' = (CASE probe = 1 -> 0 [] probe = 2 -> 3 [] OTHER -> probe)
  /\ pc' = IF ready THEN "handle" ELSE "handle_not_ready"
  /\ UNCHANGED <<buf, event, cmd, left, ready, kbdState, keys, led, devVars, lost, due, wrong>>

WaitTimeout ==
  /\ pc = "wait" /\ ~event /\ sending = <<>> /\ pc' = "probe"
  /\ UNCHANGED <<buf, event, cmd, left, ready, probe, kbdState, keys, led, devVars, lost, due, wrong>>

-----------------------------------------------------------------------------
(* ps2_kbd_handler.                                                         *)

\* Without a keyboard that was initialized, bytes are thrown away.
HandleNotReady ==
  /\ pc = "handle_not_ready"
  /\ \/ buf # <<>> /\ Discard /\ UNCHANGED pc
     \/ Empty /\ pc' = "wait" /\ UNCHANGED lost
  /\ UNCHANGED <<cmd, left, ready, probe, kbdState, keys, led, devVars, due, wrong>>

\* kbd_table; the answers AA, AB and 83 would be keys, the others are not.
Plain(c) ==
  CASE c = "1D" -> "lctrl" [] c = "38" -> "lalt" [] c = "53" -> "paddelete" [] c = "3B" -> "f1"
    [] c = "42" -> "f8" [] c = "3A" -> "capslock" [] c = "1E" -> "a"
    [] c \in {"AA", "ID"} -> "stray" [] OTHER -> "none"

ExtendedLeft(c) ==
  CASE c = "1D" -> "lctrl" [] c = "38" -> "lalt" [] c = "53" -> "delete" [] OTHER -> "none"

Extended(c) ==
  CASE c = "1D" -> "rctrl" [] c = "38" -> "ralt" [] c = "53" -> "delete" [] OTHER -> "none"

DecodeStateKept(s, c) ==
  CASE s \in {"0", "E0"} /\ c \in {"E0", "E1"} -> c
    [] s = "E1" /\ c \in {"1D", "45"} -> "E1+"
    [] OTHER -> IF s = "E0" THEN "E0" ELSE "0"

\* The next state of the decoder.
DecodeState(s, c) ==
  CASE s = "0" /\ c \in {"E0", "E1"} -> c
    [] s = "E1" /\ c \in {"1D", "45"} -> "E1+"
    [] OTHER -> "0"

Decode(s, c) ==
  CASE s = "0" -> Plain(c)
    [] s = "E0" -> Extended(c)
    [] s = "E1+" /\ c \in {"1D", "45"} -> "pause"
    [] OTHER -> "none"

HandleByte ==
  /\ pc = "handle" /\ buf # <<>>
  /\ LET b == Head(buf)
         key == Decode(kbdState, b.code)
     IN /\ kbdState' = DecodeState(kbdState, b.code)
        /\ IF key = "none" THEN UNCHANGED <<keys, due, wrong>>
           ELSE /\ keys' = Switch(keys, key, b.release)
                /\ wrong' = (wrong \/ (~lost /\ (due = <<>> \/ Head(due) # <<key, b.release>>)))
                /\ due' = IF due = <<>> THEN due ELSE Tail(due)
  /\ Received
  /\ UNCHANGED <<pc, cmd, left, ready, probe, led, devVars, lost>>

\* The buffer is empty: the lights follow the locks.
HandleEmpty ==
  /\ pc = "handle" /\ Empty
  /\ IF led # keys.caps THEN led' = keys.caps /\ cmd' = LedCmd /\ pc' = "send"
                        ELSE pc' = "wait" /\ UNCHANGED <<led, cmd>>
  /\ UNCHANGED <<left, ready, probe, kbdState, keys, devVars, lost, due, wrong>>

-----------------------------------------------------------------------------
(* send_command.                                                            *)

SendCommand ==
  /\ pc = "send" /\ Receives(Cmd(cmd).name)
  /\ pc' = "ack" /\ left' = Cmd(cmd).count
  /\ UNCHANGED <<buf, event, cmd, ready, probe, kbdState, keys, led, on, down, nkeys, nplugs, due, wrong>>

\* Where the task goes from here: the next command, or back.
After(ok) ==
  CASE cmd = LedCmd -> [pc |-> "wait", cmd |-> 1, ready |-> ready, probe |-> probe]
    [] ~ok /\ Cmd(cmd).must -> [pc |-> "wait", cmd |-> 1, ready |-> ready, probe |-> IF probe = 3 THEN 2 ELSE probe]
    [] cmd = Len(Commands) -> [pc |-> "wait", cmd |-> 1, ready |-> TRUE, probe |-> 0]
    [] OTHER -> [pc |-> "send", cmd |-> cmd + 1, ready |-> ready, probe |-> probe]

Go(ok) ==
  /\ pc' = After(ok).pc /\ cmd' = After(ok).cmd /\ ready' = After(ok).ready /\ probe' = After(ok).probe
  /\ UNCHANGED <<kbdState, keys, led>>

\* A byte while the task waits for the acknowledgement.
Ack ==
  /\ pc = "ack" /\ buf # <<>> /\ Head(buf).code = "FA" /\ Received
  /\ pc' = IF Cmd(cmd).data THEN "data" ELSE "resp"
  /\ IF pc' = "data" THEN Receives("data") ELSE UNCHANGED <<sending, scanning, nresend, lost>>
  /\ UNCHANGED <<cmd, left, ready, probe, kbdState, keys, led, on, down, nkeys, nplugs, due, wrong>>

Resend ==
  /\ pc = "ack" /\ buf # <<>> /\ Head(buf).code = "FE" /\ Received
  /\ Receives(Cmd(cmd).name)
  /\ UNCHANGED <<pc, cmd, left, ready, probe, kbdState, keys, led, on, down, nkeys, nplugs, due, wrong>>

AckOther ==
  /\ pc \in {"ack", "data"} /\ buf # <<>>
  /\ Head(buf).code \notin (IF pc = "ack" THEN {"FA", "FE"} ELSE {"FA"}) /\ Discard
  /\ UNCHANGED <<taskVars, devVars, due, wrong>>

AckData ==
  /\ pc = "data" /\ buf # <<>> /\ Head(buf).code = "FA" /\ Received /\ pc' = "resp"
  /\ UNCHANGED <<cmd, left, ready, probe, kbdState, keys, led, devVars, lost, due, wrong>>

Response ==
  /\ pc = "resp" /\ left > 0 /\ buf # <<>> /\ Discard /\ left' = left - 1
  /\ UNCHANGED <<pc, cmd, ready, probe, kbdState, keys, led, devVars, due, wrong>>

Drain ==
  /\ pc = "resp" /\ left = 0
  /\ \/ buf # <<>> /\ Discard /\ UNCHANGED <<pc, cmd, ready, probe, kbdState, keys, led>>
     \/ Empty /\ Go(TRUE) /\ UNCHANGED lost
  /\ UNCHANGED <<left, devVars, due, wrong>>

\* The time limit: nothing is coming, or it comes late.
CommandTimeout ==
  /\ pc \in {"ack", "data"} \/ (pc = "resp" /\ left > 0)
  /\ Empty /\ (sending = <<>> \/ Late)
  /\ left' = 0 /\ Go(FALSE)
  /\ UNCHANGED <<devVars, lost, due, wrong>>

-----------------------------------------------------------------------------
(* ps2_kbd_probe.                                                           *)

ProbeInit ==
  /\ pc = "probe" /\ probe = 3 /\ pc' = "send" /\ cmd' = 1
  /\ UNCHANGED <<buf, event, left, ready, probe, kbdState, keys, led, devVars, lost, due, wrong>>

ProbeEchoOnce ==
  /\ pc = "probe" /\ probe < 3 /\ Receives("echo")
  /\ probe' = 1 /\ UNCHANGED ready
  /\ pc' = "wait"
  /\ UNCHANGED <<buf, event, cmd, left, kbdState, keys, led, on, down, nkeys, nplugs, due, wrong>>

ProbeEcho ==
  /\ pc = "probe" /\ probe < 3 /\ Receives("echo")
  /\ IF probe = 0 /\ ready THEN probe' = 1 /\ UNCHANGED ready ELSE probe' = 2 /\ ready' = FALSE
  /\ pc' = "wait"
  /\ UNCHANGED <<buf, event, cmd, left, kbdState, keys, led, on, down, nkeys, nplugs, due, wrong>>

Task ==
  \/ WaitByte \/ WaitTimeout \/ HandleNotReady \/ HandleByte \/ HandleEmpty
  \/ SendCommand \/ Ack \/ Resend \/ AckOther \/ AckData \/ Response \/ Drain \/ CommandTimeout
  \/ ProbeInit \/ ProbeEcho

Next ==
  \/ \E key \in KeySet : Key(key)
  \/ Unplug \/ Plug \/ Irq \/ Task

\* The task runs, interrupts come; keys are pressed and keyboards replaced at
\* will.
Spec == Init /\ [][Next]_vars /\ WF_vars(Task) /\ WF_vars(Irq)

-----------------------------------------------------------------------------
(* The task does not sleep on bytes: the event is signalled whenever the    *)
(* buffer has one (ps2_irq_func, ps2_receive_port1).                        *)
BytesSignalled == buf # <<>> => event

(* Until a byte is thrown away, the keys that are processed are the keys    *)
(* that were pressed, in their order, whatever answers of the keyboard come *)
(* between them (ps2_kbd_handler).                                          *)
DecodesKeys == ~wrong

(* Then, when everything has been processed, the modifiers are the ones     *)
(* that are held down.                                                      *)
ModifiersHeld ==
  (~lost /\ pc = "wait" /\ buf = <<>> /\ sending = <<>>) => keys.mods = down \cap Mods

(* A keyboard that stays is used in the end, also when it was replaced or   *)
(* was not there at the start (ps2_kbd_probe).                              *)
Recovers == <>[]on => <>[]ready
=============================================================================
