------------------------------- MODULE Input --------------------------------
(***************************************************************************)
(* Keyboard and timer on the x86 image: the two 8259 interrupt controllers *)
(* (arch/x86_64.rs), the timer and keyboard handlers (timer.rs,            *)
(* keyboard.rs), the scancode decoder and the key ring (cibos-input), and  *)
(* the kernel code that waits on them: the boot-time keyboard check, the   *)
(* ReadKey and Sleep system calls, and the GUI loop.                       *)
(*                                                                         *)
(* There is one CPU.  It takes an interrupt between any two steps of the   *)
(* program while IF is set; every gate, the one of int 0x80 included, is   *)
(* an interrupt gate, so a handler and a system call start with IF clear.  *)
(* A hlt is two program points: the gap after the last test, where an      *)
(* interrupt goes by unnoticed, and the halt, which an interrupt ends.     *)
(***************************************************************************)
EXTENDS Integers, Sequences, FiniteSetsExt, Folds

CONSTANTS
    QUEUE_CAP,     \* keyboard.rs: capacity of the key ring
    Scancodes,     \* the bytes the keyboard may send
    MaxBytes,      \* bound: bytes sent
    MaxSpurious,   \* bound: spurious interrupts
    ArmTicks,      \* arm_keyboard_input: ticks of its first wait
    KeyTicks,      \* arm_keyboard_input: ticks it waits for a key
    SleepTicks     \* ticks of a Sleep call

ASSUME InputAssumption == QUEUE_CAP \in Nat \ {0}

VARIABLES
    ip,        \* the kernel's or the application's program point
    who,       \* who waits for a key: "line", "poll" or "gui"
    ifl,       \* RFLAGS.IF
    irq,       \* the vector being handled, or 0
    tick,      \* IRQ0 is raised
    kbd,       \* the byte IRQ1 is raised for, or NoByte
    spurious,  \* spurious interrupts so far
    isr,       \* the lines in service, of both controllers
    lock,      \* KEYBOARD is held by the interrupted program
    decoder,   \* ScancodeDecoder
    ring,      \* KeyQueue
    left,      \* ticks to the deadline of the wait in progress
    bytes,     \* bytes sent so far
    line,      \* the text read_line has collected
    struck,    \* history: the key events decoded
    popped,    \* history: how many events pop gave
    lost,      \* history: how many the full ring dropped
    lineAt     \* history: popped when read_line was called

inputVars == <<ip, who, ifl, irq, tick, kbd, spurious, isr, lock, decoder, ring, left, bytes,
               line, struck, popped, lost, lineAt>>

NoByte == 0
Named(k) == <<k, 0, FALSE>>
NoKey == [key |-> Named("none"), mods |-> [shift |-> FALSE, ctrl |-> FALSE, alt |-> FALSE]]

---------------------------------------------------------------------------
(* The decoder: scancode set 1.                                            *)

BREAK_MASK == 128
EXTENDED_PREFIX == 224
SC_LSHIFT == 42
SC_RSHIFT == 54
SC_CTRL == 29
SC_ALT == 56

decode_extended(make) == Named(
    CASE make = 72 -> "Up"   [] make = 80 -> "Down" [] make = 75 -> "Left"   [] make = 77 -> "Right"
      [] make = 71 -> "Home" [] make = 79 -> "End"  [] make = 83 -> "Delete" [] make = 28 -> "Enter"
      [] OTHER -> "none")

(* A character is its make code and whether it is the shifted one; space   *)
(* is the same character with and without Shift.                           *)
PRINTABLE == (2..13) \cup (16..27) \cup (30..41) \cup (43..53) \cup {57}
Char(make, shift) == <<"Char", make, shift /\ make # 57>>

decode_main(make, shift) ==
    IF make \in PRINTABLE THEN Char(make, shift)
    ELSE Named(CASE make = 28 -> "Enter"  [] make = 14 -> "Backspace" [] make = 15 -> "Tab"
                 [] make = 1 -> "Escape"  [] make = 83 -> "Delete"    [] OTHER -> "none")

modifiers(d) == [shift |-> d.shift, ctrl |-> d.ctrl, alt |-> d.alt]

(* push: the decoder after a byte, and the event it completes (or NoKey).  *)
push(d, byte) ==
    LET is_break == byte >= BREAK_MASK
        make == byte % BREAK_MASK
        plain == [d EXCEPT !.extended = FALSE]
        modifier == make \in {SC_CTRL, SC_ALT} \/ (~d.extended /\ make \in {SC_LSHIFT, SC_RSHIFT})
        key == IF d.extended THEN decode_extended(make) ELSE decode_main(make, d.shift)
    IN  IF byte = EXTENDED_PREFIX THEN [d |-> [d EXCEPT !.extended = TRUE], ev |-> NoKey]
        ELSE IF modifier
        THEN [d |-> CASE make = SC_CTRL -> [plain EXCEPT !.ctrl = ~is_break]
                      [] make = SC_ALT -> [plain EXCEPT !.alt = ~is_break]
                      [] OTHER -> [plain EXCEPT !.shift = ~is_break],
              ev |-> NoKey]
        ELSE [d |-> plain,
              ev |-> IF is_break \/ key = Named("none") THEN NoKey ELSE [key |-> key, mods |-> modifiers(d)]]

---------------------------------------------------------------------------
(* The key ring: the oldest event makes room for the newest.               *)

(* Mutant: a full ring overwrites its oldest event and keeps its head.     *)
ring_push_KeepsHead(q, ev) ==
    IF q.len = QUEUE_CAP
    THEN [q EXCEPT !.buf[q.head] = ev]
    ELSE [q EXCEPT !.buf[(q.head + q.len) % QUEUE_CAP] = ev, !.len = @ + 1]

ring_push(q, ev) ==
    IF q.len = QUEUE_CAP
    THEN [q EXCEPT !.buf[q.head] = ev, !.head = (q.head + 1) % QUEUE_CAP]
    ELSE [q EXCEPT !.buf[(q.head + q.len) % QUEUE_CAP] = ev, !.len = @ + 1]

ring_pop(q) == [q EXCEPT !.buf[q.head] = NoKey, !.head = (q.head + 1) % QUEUE_CAP, !.len = @ - 1]

(* What ReadKey returns, and what the application makes of it: the fields  *)
(* of one integer.                                                         *)
KindOf == <<"Enter", "Backspace", "Delete", "Tab", "Escape", "Left", "Right", "Up", "Down",
            "Home", "End">>
IsChar(key) == key[1] = "Char"
bit(b) == IF b THEN 1 ELSE 0

encode_key(ev) ==
    [ch   |-> Tail(ev.key),
     kind |-> IF IsChar(ev.key) THEN 0 ELSE CHOOSE k \in DOMAIN KindOf : KindOf[k] = ev.key[1],
     m    |-> bit(ev.mods.shift) + 2 * bit(ev.mods.ctrl) + 4 * bit(ev.mods.alt)]

decode_key(raw) ==
    [key  |-> <<IF raw.kind = 0 THEN "Char" ELSE KindOf[raw.kind]>> \o raw.ch,
     mods |-> [shift |-> raw.m % 2 = 1, ctrl |-> (raw.m \div 2) % 2 = 1, alt |-> raw.m \div 4 = 1]]

---------------------------------------------------------------------------
(* The interrupt controllers.  An EOI ends the line in service of the      *)
(* highest priority; remap_pic and unmask_irq leave lines 0, 1 and 2 open. *)

Master == 0..7
Slave == 8..15
eoi(s, chip) == IF s \cap chip = {} THEN s ELSE s \ {Min(s \cap chip)}

pic_eoi(vector, s) == eoi(IF vector >= 40 THEN eoi(s, Slave) ELSE s, Master)

pic_spurious(vector, s) ==
    IF vector = 47
    THEN IF 15 \in s THEN eoi(eoi(s, Slave), Master) ELSE eoi(s, Master)
    ELSE IF 7 \in s THEN eoi(s, Master) ELSE s

Open(l) == \A j \in isr : l < j      \* nothing of the same or a higher priority is in service

(* The CPU enters the handler of a vector.                                 *)
Enter(vector, lines) ==
    /\ ifl /\ irq = 0
    /\ ifl' = FALSE /\ irq' = vector /\ isr' = isr \cup lines

AcceptTimer ==
    /\ tick /\ Open(0) /\ Enter(32, {0}) /\ tick' = FALSE
    /\ UNCHANGED <<ip, who, kbd, spurious, lock, decoder, ring, left, bytes, line, struck, popped, lost, lineAt>>

AcceptKeyboard ==
    /\ kbd # NoByte /\ Open(1) /\ Enter(33, {1})
    /\ UNCHANGED <<ip, who, tick, kbd, spurious, lock, decoder, ring, left, bytes, line, struck, popped, lost, lineAt>>

(* A request that is gone when the controller is asked for it: IRQ7 of the *)
(* master, or IRQ15 of the slave, whose cascade line is then in service.   *)
AcceptSpurious ==
    /\ spurious < MaxSpurious /\ spurious' = spurious + 1
    /\ \/ Open(7) /\ Enter(39, {})
       \/ Open(2) /\ Enter(47, {2})
    /\ UNCHANGED <<ip, who, tick, kbd, lock, decoder, ring, left, bytes, line, struck, popped, lost, lineAt>>

(* iretq from a handler: IF comes back and a halted CPU goes on.           *)
Resumed(p) == CASE p = "wt_halt" -> "wt_check" [] p = "wo_halt" -> "wo_lock"
             [] p = "wf_halt" -> "wf_lock"  [] p = "sl_halt" -> "sl_check"
             [] OTHER -> p

Iret == irq' = 0 /\ ifl' = TRUE /\ ip' = Resumed(ip)

cibos_timer_irq ==
    /\ irq = 32 /\ Iret
    /\ left' = IF left = 0 THEN 0 ELSE left - 1
    /\ isr' = pic_eoi(32, isr)
    /\ UNCHANGED <<who, tick, kbd, spurious, lock, decoder, ring, bytes, line, struck, popped, lost, lineAt>>

(* KEYBOARD.lock() spins, for ever if the interrupted program holds it.    *)
cibos_keyboard_irq ==
    /\ irq = 33 /\ ~lock /\ Iret
    /\ LET r == push(decoder, kbd) IN
       /\ decoder' = r.d
       /\ ring' = IF r.ev = NoKey THEN ring ELSE ring_push(ring, r.ev)
       /\ struck' = IF r.ev = NoKey THEN struck ELSE Append(struck, r.ev)
       /\ lost' = lost + bit(r.ev # NoKey /\ ring.len = QUEUE_CAP)
    /\ kbd' = NoByte
    /\ isr' = pic_eoi(33, isr)
    /\ UNCHANGED <<who, tick, spurious, lock, left, bytes, line, popped, lineAt>>

cibos_pic_spurious_irq ==
    /\ irq \in {39, 47} /\ Iret
    /\ isr' = pic_spurious(irq, isr)
    /\ UNCHANGED <<who, tick, kbd, spurious, lock, decoder, ring, left, bytes, line, struck, popped, lost, lineAt>>

(* The PIT and the keyboard.                                               *)
PitTick ==
    /\ ~tick /\ tick' = TRUE
    /\ UNCHANGED <<ip, who, ifl, irq, kbd, spurious, isr, lock, decoder, ring, left, bytes, line, struck, popped, lost, lineAt>>

KeyByte ==
    /\ kbd = NoByte /\ bytes < MaxBytes /\ bytes' = bytes + 1
    /\ kbd' \in Scancodes
    /\ UNCHANGED <<ip, who, ifl, irq, tick, spurious, isr, lock, decoder, ring, left, line, struck, popped, lost, lineAt>>

---------------------------------------------------------------------------
(* The program.  A step of it happens while no handler runs.               *)

Goto(from, to) == irq = 0 /\ ip = from /\ ip' = to
HW == <<irq, tick, kbd, spurious, isr, decoder, bytes>>
History == <<struck, lost, lineAt>>

(* timer.rs: the loops around hlt.                                         *)
Hlt ==
    /\ \/ Goto("wt_gap", "wt_halt") \/ Goto("wo_gap", "wo_halt") \/ Goto("wf_gap", "wf_halt")
    /\ UNCHANGED <<who, ifl, lock, ring, left, line, popped, HW, History>>

wait_ticks ==
    /\ \/ left > 0 /\ Goto("wt_check", "wt_gap") /\ UNCHANGED left
       \/ left = 0 /\ Goto("wt_check", "wo_lock") /\ left' = KeyTicks
    /\ UNCHANGED <<who, ifl, lock, ring, line, popped, HW, History>>

(* keyboard.rs: poll_key and has_key take the lock, then look.             *)
Lock ==
    /\ \/ Goto("wo_lock", "wo_pop") \/ Goto("rk_lock", "rk_pop")
       \/ Goto("wf_lock", "wf_test") \/ Goto("rk2_lock", "rk2_pop")
    /\ ~lock /\ lock' = TRUE
    /\ UNCHANGED <<who, ifl, ring, left, line, popped, HW, History>>

poll_key ==
    IF ring.len = 0 THEN UNCHANGED <<ring, popped>>
    ELSE ring' = ring_pop(ring) /\ popped' = popped + 1

(* wait_ticks_or with poll_key as its predicate; the caller then clears IF *)
(* and enters ring 3, which sets it.                                       *)
wait_ticks_or ==
    /\ lock' = FALSE /\ poll_key
    /\ \/ ring.len = 0 /\ left > 0 /\ Goto("wo_pop", "wo_gap")
       \/ (ring.len > 0 \/ left = 0) /\ Goto("wo_pop", "user")
    /\ UNCHANGED <<who, ifl, left, line, HW, History>>

(* wait_for(has_key), for ReadKey and for the GUI loop.                    *)
wait_for ==
    /\ lock' = FALSE
    /\ \/ ring.len > 0 /\ Goto("wf_test", "rk2_lock")
       \/ ring.len = 0 /\ Goto("wf_test", "wf_gap")
    /\ UNCHANGED <<who, ifl, ring, left, line, popped, HW, History>>

(* read_line: Enter ends the line, Backspace takes a character back.       *)
edit(text, key) ==
    CASE key[1] = "Backspace" -> IF text = <<>> THEN text ELSE SubSeq(text, 1, Len(text) - 1)
      [] IsChar(key) -> Append(text, key)
      [] OTHER -> text

(* ReadKey returns to ring 3.                                              *)
Return(ev) ==
    LET key == decode_key(encode_key(ev)).key IN
    /\ ifl' = TRUE
    /\ line' = IF who = "line" THEN edit(line, key) ELSE line
    /\ ip' = IF who = "line" /\ key[1] # "Enter" THEN "line" ELSE "user"

read_key ==
    /\ irq = 0 /\ ip = "rk_pop" /\ lock' = FALSE
    /\ poll_key
    /\ IF ring.len > 0 THEN Return(ring.buf[ring.head])
       ELSE IF who = "poll" THEN ip' = "user" /\ ifl' = TRUE /\ UNCHANGED line
       ELSE ip' = "wf_lock" /\ UNCHANGED <<ifl, line>>
    /\ UNCHANGED <<who, left, HW, History>>

(* After the wait: ReadKey returns the key, the GUI feeds it to its app    *)
(* and waits for the next one.                                             *)
read_key_woken ==
    /\ irq = 0 /\ ip = "rk2_pop" /\ lock' = FALSE
    /\ poll_key
    /\ IF ring.len > 0 /\ who # "gui" THEN Return(ring.buf[ring.head])
       ELSE /\ ip' = IF who = "gui" THEN "wf_lock" ELSE "user"
            /\ ifl' = (who # "gui") /\ UNCHANGED line
    /\ UNCHANGED <<who, left, HW, History>>

(* Mutant: sleep_nanos halts without setting IF.                           *)
sleep_nanos_PlainHlt ==
    /\ \/ left > 0 /\ Goto("sl_check", "sl_halt") /\ UNCHANGED ifl
       \/ left = 0 /\ Goto("sl_check", "user") /\ ifl' = TRUE
    /\ UNCHANGED <<who, lock, ring, left, line, popped, HW, History>>

sleep_nanos ==
    /\ \/ left > 0 /\ Goto("sl_check", "sl_halt") /\ ifl' = TRUE
       \/ left = 0 /\ Goto("sl_check", "user") /\ ifl' = TRUE
    /\ UNCHANGED <<who, lock, ring, left, line, popped, HW, History>>

Kernel == Hlt \/ wait_ticks \/ Lock \/ wait_ticks_or \/ wait_for \/ read_key \/ read_key_woken
            \/ sleep_nanos

(* The application: int 0x80 through an interrupt gate, and exit.          *)
Trap(to) == irq = 0 /\ ip' = to /\ ifl' = FALSE

CallReadKey ==
    /\ \/ ip = "user" /\ who' = "poll" /\ UNCHANGED <<line, lineAt>>
       \/ ip = "user" /\ who' = "line" /\ line' = <<>> /\ lineAt' = popped
       \/ ip = "line" /\ who' = "line" /\ UNCHANGED <<line, lineAt>>
    /\ Trap("rk_lock")
    /\ UNCHANGED <<lock, ring, left, popped, HW, struck, lost>>

CallSleep ==
    /\ ip = "user" /\ Trap("sl_check") /\ left' = SleepTicks
    /\ UNCHANGED <<who, lock, ring, line, popped, HW, History>>

(* The application exits and the kernel, IF still clear, runs a GUI app.   *)
run_gui_app ==
    /\ ip = "user" /\ Trap("wf_lock") /\ who' = "gui"
    /\ UNCHANGED <<lock, ring, left, line, popped, HW, History>>

---------------------------------------------------------------------------
(* arm_keyboard_input sets IF and starts its first wait.                   *)
InputInit ==
    /\ ip = "wt_check" /\ who = "poll" /\ ifl = TRUE /\ irq = 0 /\ left = ArmTicks
    /\ tick = FALSE /\ kbd = NoByte /\ spurious = 0 /\ isr = {} /\ lock = FALSE
    /\ decoder = [shift |-> FALSE, ctrl |-> FALSE, alt |-> FALSE, extended |-> FALSE]
    /\ ring = [buf |-> [i \in 0..(QUEUE_CAP - 1) |-> NoKey], head |-> 0, len |-> 0]
    /\ bytes = 0 /\ line = <<>> /\ struck = <<>> /\ popped = 0 /\ lost = 0 /\ lineAt = 0

InputNext ==
    \/ AcceptTimer \/ AcceptKeyboard \/ AcceptSpurious
    \/ cibos_timer_irq \/ cibos_keyboard_irq \/ cibos_pic_spurious_irq
    \/ PitTick \/ KeyByte
    \/ Kernel \/ CallReadKey \/ CallSleep \/ run_gui_app

(* The PIT ticks for ever; a raised line is served whenever IF stays set   *)
(* or keeps coming back; a handler runs to its end; and the program gets   *)
(* the CPU between two interrupts, which are 10 ms apart.                  *)
InputFairness ==
    /\ WF_inputVars(PitTick)
    /\ SF_inputVars(AcceptTimer) /\ SF_inputVars(AcceptKeyboard)
    /\ WF_inputVars(cibos_timer_irq \/ cibos_keyboard_irq \/ cibos_pic_spurious_irq)
    /\ SF_inputVars(Kernel)

InputSpec == InputInit /\ [][InputNext]_inputVars /\ InputFairness

---------------------------------------------------------------------------
(* The ring holds the newest events in the order the keys were struck, and *)
(* each event struck is still there, was handed to one reader, or was      *)
(* dropped by a full ring: the head and length arithmetic of KeyQueue      *)
(* under the keyboard interrupt and three kinds of reader.                 *)
KeysInOrder ==
    LET n == Len(struck) IN
    /\ popped + lost + ring.len = n
    /\ \A i \in 0..(ring.len - 1) :
           ring.buf[(ring.head + i) % QUEUE_CAP] = struck[n - ring.len + 1 + i]

(* Unless the ring overflowed, the text read_line has collected is the     *)
(* edit of the keys struck since it was called, in their order: scancodes, *)
(* Shift state, the ring, the packed ReadKey value and the line editor     *)
(* together.                                                               *)
WhatWasTyped ==
    lost = 0 /\ ip = "line" => line = MapThenFoldSet(LAMBDA key, text : edit(text, key), <<>>,
                                                     LAMBDA i : struck[i].key, Max, lineAt + 1 .. popped)

(* What is typed arrives: no key is lost, doubled, reordered or misread    *)
(* between the keyboard and its reader, but for those a full ring drops    *)
(* (kernel-image/src/keyboard.rs, cibos-app/src/input.rs).                 *)
TypedKeysArrive == KeysInOrder /\ WhatWasTyped

(* Every wait for a time can be woken: between handlers no line is in      *)
(* service, so none blocks another (every interrupt, a spurious one of     *)
(* either controller too, gets exactly the acknowledgement the 8259        *)
(* wants), and the processor never halts in wait_ticks, wait_ticks_or or   *)
(* sleep_nanos with interrupts off, although int 0x80 cleared IF.          *)
TimedWaitsWake ==
    irq = 0 => isr = {} /\ (ip \in {"wt_halt", "wo_halt", "sl_halt"} => ifl)

(* boot.rs:2595: "interrupts are enabled and the keyboard IRQ is live by   *)
(* the time user code runs, so a keystroke will eventually wake the hlt".  *)
ReadKeyReturns ==
    ip = "wf_halt" /\ who = "line" /\ kbd # NoByte /\ push(decoder, kbd).ev # NoKey ~> ip # "wf_halt"
=============================================================================
