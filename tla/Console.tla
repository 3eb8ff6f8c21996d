------------------------------ MODULE Console -------------------------------
(***************************************************************************)
(* A program reads a line from the keyboard: the keyboard's interrupt      *)
(* handler and its ring buffer (drivers/keyboard/keyboard.c), the          *)
(* dispatch of interrupts (interrupts/idt.c, kernel.c), and the reader     *)
(* (libk.c, read() of descriptor 0 and system call 13).  All run on the    *)
(* boot processor, which gets the keyboard's interrupts: a handler is one  *)
(* step, and comes between two accesses of the reader to the buffer        *)
(* whenever interrupts are on.                                             *)
(***************************************************************************)
EXTENDS Naturals, Sequences

CONSTANTS
    KEY_BUFFER_SIZE,    \* slots of the ring (128 in the code)
    Wire,               \* bytes the keyboard controller keeps
    Lens                \* lengths read() is called with

ASSUME ConsoleAssumption ==
    KEY_BUFFER_SIZE \in Nat \ {0} /\ Wire \in Nat /\ Lens \subseteq Nat

(* The keys that matter: one with two cases, enter, a shift and caps lock. *)
(* The other special keys, backspace too, leave the buffer as it is.       *)
Keys == {"a", "enter", "shift", "caps"}
is_special_key(k) == k \in {"shift", "caps"}
Chars == {"a", "A", "\n"}
NoKey == "none"                     \* 0: what an empty buffer gives
lowercase(k) == IF k = "enter" THEN "\n" ELSE "a"
uppercase(k) == IF k = "enter" THEN "\n" ELSE "A"

Slots == 0 .. (KEY_BUFFER_SIZE - 1)

VARIABLES
    wire,           \* bytes from the keyboard: a key, and whether it was released
    key_buffer, key_buffer_head, key_buffer_tail,
    capsOn, capsLock,
    interrupts,     \* the interrupt flag
    pc,             \* where the reader is: "user" outside the call
    key, count, len \* its variables

ring == <<key_buffer, key_buffer_head, key_buffer_tail>>
reader == <<pc, key, count, len>>
vars == <<wire, ring, capsOn, capsLock, interrupts, reader>>

Init ==
    /\ wire = <<>>
    /\ key_buffer = [i \in Slots |-> NoKey]
    /\ key_buffer_head = 0 /\ key_buffer_tail = 0
    /\ capsOn = FALSE /\ capsLock = FALSE
    /\ interrupts = TRUE
    /\ pc = "user" /\ key = NoKey /\ count = 0 /\ len = 0

Succ(i) == (i + 1) % KEY_BUFFER_SIZE

-----------------------------------------------------------------------------
(* keyboard.c                                                              *)

(* A key is pressed or released.                                           *)
Type(k, released) ==
    /\ Len(wire) < Wire
    /\ wire' = Append(wire, [key |-> k, released |-> released])
    /\ UNCHANGED <<ring, capsOn, capsLock, interrupts, reader>>

(* Seeded bug: the test for a full ring compares the wrong index.          *)
add_key_to_buffer_NoTest(c) ==
    /\ key_buffer' = [key_buffer EXCEPT ![key_buffer_head] = c]
    /\ key_buffer_head' = Succ(key_buffer_head)

add_key_to_buffer(c) ==
    IF Succ(key_buffer_head) # key_buffer_tail
      THEN /\ key_buffer' = [key_buffer EXCEPT ![key_buffer_head] = c]
           /\ key_buffer_head' = Succ(key_buffer_head)
      ELSE UNCHANGED <<key_buffer, key_buffer_head>>

handle_special_key(k, pressed) ==
    /\ capsOn' = IF k = "shift" THEN pressed ELSE capsOn
    /\ capsLock' = IF k = "caps" /\ pressed THEN ~capsLock ELSE capsLock

(* An interrupt wakes a processor that waits in hlt.                       *)
Woken == pc' = IF pc = "halted" THEN "check" ELSE pc

(***************************************************************************)
(* irq1_handler(), with irq_handler() around it.  The port is read twice,  *)
(* for the key and for whether it was released: the second read may find   *)
(* the byte that follows.                                                  *)
(***************************************************************************)
irq1_handler(reads) ==
    /\ interrupts /\ Len(wire) >= reads
    /\ LET k == wire[1].key
           pressed == ~wire[reads].released
       IN  IF is_special_key(k)
             THEN handle_special_key(k, pressed)
                  /\ UNCHANGED <<key_buffer, key_buffer_head>>
             ELSE /\ IF pressed
                       THEN add_key_to_buffer(IF capsOn \/ capsLock THEN uppercase(k) ELSE lowercase(k))
                       ELSE UNCHANGED <<key_buffer, key_buffer_head>>
                  /\ UNCHANGED <<capsOn, capsLock>>
    /\ wire' = SubSeq(wire, reads + 1, Len(wire))
    /\ Woken
    /\ UNCHANGED <<key_buffer_tail, interrupts, key, count, len>>

(* Seeded bug: the timer's interrupt stays masked, no tick arrives.        *)
pit_handler_Masked ==
    /\ FALSE
    /\ UNCHANGED vars

(* pit_handler(): a tick, a thousand times a second.                       *)
pit_handler ==
    /\ interrupts
    /\ Woken
    /\ UNCHANGED <<wire, ring, capsOn, capsLock, interrupts, key, count, len>>

-----------------------------------------------------------------------------
(* libk.c                                                                  *)

(* read(0, dst, n): the system call's gate turns interrupts off.           *)
read(n) ==
    /\ pc = "user"
    /\ interrupts' = FALSE
    /\ len' = n
    /\ count' = 0
    /\ pc' = IF 1 < n THEN "check" ELSE "return"
    /\ UNCHANGED <<wire, ring, capsOn, capsLock, key>>

(* get_key_from_buffer(), the comparison.                                  *)
check ==
    /\ pc = "check"
    /\ pc' = IF key_buffer_head = key_buffer_tail THEN "halt" ELSE "load"
    /\ key' = NoKey
    /\ UNCHANGED <<wire, ring, capsOn, capsLock, interrupts, count, len>>

(* sti; hlt: the first time no interrupt comes between the two, later they *)
(* are on since before the comparison.                                     *)
halt ==
    /\ pc = "halt"
    /\ pc' = "halted"
    /\ interrupts' = TRUE
    /\ UNCHANGED <<wire, ring, capsOn, capsLock, key, count, len>>

(* get_key_from_buffer(): the key is read, then the tail advanced.         *)
load ==
    /\ pc = "load"
    /\ key' = key_buffer[key_buffer_tail]
    /\ pc' = "advance"
    /\ UNCHANGED <<wire, ring, capsOn, capsLock, interrupts, count, len>>

advance ==
    /\ pc = "advance"
    /\ key_buffer_tail' = Succ(key_buffer_tail)
    /\ pc' = "store"
    /\ UNCHANGED <<wire, key_buffer, key_buffer_head, capsOn, capsLock, interrupts, key, count, len>>

(* The key goes into the line, which ends with enter or when it is full.   *)
store ==
    /\ pc = "store"
    /\ count' = count + 1
    /\ pc' = IF key # "\n" /\ count + 2 < len THEN "check" ELSE "return"
    /\ key' = NoKey
    /\ UNCHANGED <<wire, ring, capsOn, capsLock, interrupts, len>>

(* The end of the line is written, and the system call left.               *)
return ==
    /\ pc = "return"
    /\ pc' = "user"
    /\ interrupts' = TRUE
    /\ count' = 0 /\ len' = 0
    /\ UNCHANGED <<wire, ring, capsOn, capsLock, key>>

(* System call 13: one key, or none, with interrupts off.                  *)
syscall_13_get_key_from_buffer ==
    /\ pc = "user" /\ key_buffer_head # key_buffer_tail
    /\ key' = key_buffer[key_buffer_tail]
    /\ key_buffer_tail' = Succ(key_buffer_tail)
    /\ UNCHANGED <<wire, key_buffer, key_buffer_head, capsOn, capsLock, interrupts, pc, count, len>>

Reader == check \/ halt \/ load \/ advance \/ store \/ return

Next ==
    \/ \E k \in Keys, released \in BOOLEAN : Type(k, released)
    \/ \E reads \in 1 .. 2 : irq1_handler(reads)
    \/ pit_handler
    \/ \E n \in Lens : read(n)
    \/ syscall_13_get_key_from_buffer
    \/ Reader

(* The processor executes the reader, and the timer ticks.                 *)
Fairness == WF_vars(Reader) /\ WF_vars(pit_handler)

Spec == Init /\ [][Next]_vars /\ Fairness

-----------------------------------------------------------------------------
(* The keys in the ring, oldest first.                                     *)
Buffered ==
    [i \in 1 .. ((key_buffer_head + KEY_BUFFER_SIZE - key_buffer_tail) % KEY_BUFFER_SIZE) |->
        key_buffer[(key_buffer_tail + i - 1) % KEY_BUFFER_SIZE]]

Queue == INSTANCE KeyQueue WITH
            Capacity <- KEY_BUFFER_SIZE - 1,
            queue <- Buffered,
            got <- IF pc = "advance" THEN NoKey ELSE key

(* keyboard.c: the ring, written by the interrupt handler between any two  *)
(* accesses of the reader, is a queue: no key the handler put into it is   *)
(* lost, doubled or out of order, and a full ring loses the newest key.    *)
ImplementsKeyQueue == Queue!Spec

(* libk.c, console_read_line(): a reader that waits while an enter is in   *)
(* the buffer returns.  The handler may put it there after the reader      *)
(* found the buffer empty and before it halts: the timer's next tick then  *)
(* wakes it.                                                               *)
ReadReturns ==
    (pc # "user" /\ \E i \in DOMAIN Buffered : Buffered[i] = "\n") ~> pc = "user"
=============================================================================
