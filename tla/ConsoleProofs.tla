--------------------------- MODULE ConsoleProofs ----------------------------
(***************************************************************************)
(* Proofs that the key buffer of drivers/keyboard/keyboard.c is a bounded  *)
(* queue for a ring of any size, with the interrupt handler between any    *)
(* two accesses of the reader.                                             *)
(***************************************************************************)
EXTENDS Console, SequenceTheorems, TLAPS

RingOK ==
    /\ key_buffer \in [Slots -> Chars \cup {NoKey}]
    /\ key_buffer_head \in Slots /\ key_buffer_tail \in Slots

TypeOK ==
    /\ RingOK
    /\ wire \in Seq([key : Keys, released : BOOLEAN])
    /\ capsOn \in BOOLEAN /\ capsLock \in BOOLEAN /\ interrupts \in BOOLEAN
    /\ key \in Chars \cup {NoKey}
    /\ count \in Nat /\ len \in Nat
    /\ pc \in {"user", "check", "halt", "halted", "load", "advance", "store", "return"}

(***************************************************************************)
(* The inductive invariant.  Between the reader's comparison and its store *)
(* of the tail only the handler runs: it never makes the ring empty, and   *)
(* never overwrites the oldest key, so that what was loaded is still the   *)
(* key the tail points to.                                                 *)
(***************************************************************************)
ReaderHasKey ==
    /\ pc \in {"load", "advance"} => key_buffer_head # key_buffer_tail
    /\ pc = "advance" => key = key_buffer[key_buffer_tail]

(* The slots the reader has yet to read hold characters, never "no key".   *)
OnlyCharsBuffered == \A i \in DOMAIN Buffered : Buffered[i] \in Chars

RingInv == TypeOK /\ ReaderHasKey /\ OnlyCharsBuffered

(* How many keys the ring holds.                                           *)
Held == (key_buffer_head + KEY_BUFFER_SIZE - key_buffer_tail) % KEY_BUFFER_SIZE

-----------------------------------------------------------------------------
(***************************************************************************)
(* The index arithmetic of the ring: the remainder of a sum of two slots.  *)
(***************************************************************************)
LEMMA RingIndex ==
    ASSUME NEW x \in 0 .. (2 * KEY_BUFFER_SIZE - 1)
    PROVE  /\ x < KEY_BUFFER_SIZE => x % KEY_BUFFER_SIZE = x
           /\ x >= KEY_BUFFER_SIZE => x % KEY_BUFFER_SIZE = x - KEY_BUFFER_SIZE
BY ConsoleAssumption

(***************************************************************************)
(* The slot after a slot is a slot.                                        *)
(***************************************************************************)
LEMMA SuccSlot ==
    ASSUME NEW i \in Slots
    PROVE  /\ Succ(i) \in Slots
           /\ i = KEY_BUFFER_SIZE - 1 => Succ(i) = 0
           /\ i < KEY_BUFFER_SIZE - 1 => Succ(i) = i + 1
BY RingIndex, ConsoleAssumption DEF Slots, Succ

(* The slot of the i-th key.                                               *)
SlotOf(i) == (key_buffer_tail + i - 1) % KEY_BUFFER_SIZE

(* The ring as its reader sees it: a sequence whose length follows from    *)
(* the two indices, and whose elements are the slots from the tail on.     *)
RingFacts ==
    /\ key_buffer_head >= key_buffer_tail => Held = key_buffer_head - key_buffer_tail
    /\ key_buffer_head < key_buffer_tail =>
         Held = key_buffer_head - key_buffer_tail + KEY_BUFFER_SIZE
    /\ Held \in 0 .. (KEY_BUFFER_SIZE - 1)
    /\ Buffered \in Seq(Chars \cup {NoKey})
    /\ Len(Buffered) = Held
    /\ DOMAIN Buffered = 1 .. Held
    /\ \A i \in 1 .. Held : Buffered[i] = key_buffer[SlotOf(i)]

(***************************************************************************)
(* The slot of a key without the remainder.                                *)
(***************************************************************************)
LEMMA SlotOfKey ==
    ASSUME RingOK, NEW i \in 1 .. KEY_BUFFER_SIZE
    PROVE  /\ SlotOf(i) \in Slots
           /\ key_buffer_tail + i - 1 < KEY_BUFFER_SIZE => SlotOf(i) = key_buffer_tail + i - 1
           /\ key_buffer_tail + i - 1 >= KEY_BUFFER_SIZE =>
                SlotOf(i) = key_buffer_tail + i - 1 - KEY_BUFFER_SIZE
<1> DEFINE x == key_buffer_tail + i - 1
<1>1. x \in 0 .. (2 * KEY_BUFFER_SIZE - 1) /\ x \in Int
  BY ConsoleAssumption DEF RingOK, Slots
<1>2. SlotOf(i) = x % KEY_BUFFER_SIZE
  BY DEF SlotOf
<1> HIDE DEF x
<1>3. /\ x < KEY_BUFFER_SIZE => SlotOf(i) = x
      /\ x >= KEY_BUFFER_SIZE => SlotOf(i) = x - KEY_BUFFER_SIZE
  BY <1>1, <1>2, RingIndex
<1>4. SlotOf(i) \in Slots
  BY <1>1, <1>3, ConsoleAssumption DEF Slots
<1>5. QED
  BY <1>3, <1>4, ConsoleAssumption DEF x, RingOK, Slots

(***************************************************************************)
(* With both indices in the ring, the keys in it are that sequence.        *)
(***************************************************************************)
LEMMA BufferedSeq == RingOK => RingFacts
<1> SUFFICES ASSUME RingOK PROVE RingFacts
  OBVIOUS
<1>1. /\ key_buffer_head >= key_buffer_tail => Held = key_buffer_head - key_buffer_tail
      /\ key_buffer_head < key_buffer_tail =>
           Held = key_buffer_head - key_buffer_tail + KEY_BUFFER_SIZE
  <2> DEFINE x == key_buffer_head + KEY_BUFFER_SIZE - key_buffer_tail
  <2>1. x \in 0 .. (2 * KEY_BUFFER_SIZE - 1)
    BY ConsoleAssumption DEF RingOK, Slots
  <2>2. /\ x < KEY_BUFFER_SIZE => Held = x
        /\ x >= KEY_BUFFER_SIZE => Held = x - KEY_BUFFER_SIZE
    <3> HIDE DEF x
    <3>1. /\ x < KEY_BUFFER_SIZE => x % KEY_BUFFER_SIZE = x
          /\ x >= KEY_BUFFER_SIZE => x % KEY_BUFFER_SIZE = x - KEY_BUFFER_SIZE
      BY <2>1, RingIndex
    <3>2. Held = x % KEY_BUFFER_SIZE
      BY DEF Held, x
    <3>3. QED
      BY <3>1, <3>2
  <2>3. QED
    BY <2>2, ConsoleAssumption DEF RingOK, Slots
<1>2. Held \in 0 .. (KEY_BUFFER_SIZE - 1)
  BY <1>1, ConsoleAssumption DEF RingOK, Slots
<1>3. \A i \in 1 .. Held : SlotOf(i) \in Slots
  BY <1>2, SlotOfKey, ConsoleAssumption
<1>4. Buffered = [i \in 1 .. Held |-> key_buffer[SlotOf(i)]]
  BY DEF Buffered, Held, SlotOf
<1>5. \A i \in 1 .. Held : key_buffer[SlotOf(i)] \in Chars \cup {NoKey}
  BY <1>3 DEF RingOK
<1>6. Buffered \in [1 .. Held -> Chars \cup {NoKey}]
  BY <1>4, <1>5
<1>7. Buffered \in Seq(Chars \cup {NoKey}) /\ Len(Buffered) = Held
  BY <1>2, <1>6, SeqDef
<1>8. \A i \in 1 .. Held : Buffered[i] = key_buffer[SlotOf(i)]
  BY <1>3, <1>4
<1>9. QED
  BY <1>1, <1>2, <1>3, <1>6, <1>7, <1>8 DEF RingFacts

(***************************************************************************)
(* The same of the next state.                                             *)
(***************************************************************************)
LEMMA BufferedSeqNext == RingOK' => RingFacts'
BY BufferedSeq, PTL

(***************************************************************************)
(* What the reader sees of the keys depends on the ring alone.             *)
(***************************************************************************)
LEMMA SameRing == UNCHANGED ring => Buffered' = Buffered
BY DEF ring, Buffered

(***************************************************************************)
(* keyboard.c, add_key_to_buffer(): a key goes to the end of the queue if  *)
(* there is room, and nowhere else; the oldest key stays where it is.      *)
(***************************************************************************)
LEMMA AddPuts ==
    ASSUME RingOK, NEW c \in Chars, add_key_to_buffer(c), UNCHANGED key_buffer_tail
    PROVE  /\ RingOK'
           /\ \/ Buffered' = Buffered
              \/ /\ Len(Buffered) < KEY_BUFFER_SIZE - 1
                 /\ Buffered' = Append(Buffered, c)
           /\ key_buffer_head # key_buffer_tail =>
                /\ key_buffer_head' # key_buffer_tail
                /\ key_buffer'[key_buffer_tail] = key_buffer[key_buffer_tail]
<1>1. CASE Succ(key_buffer_head) = key_buffer_tail
  BY <1>1, SameRing DEF add_key_to_buffer, RingOK, ring
<1>2. CASE Succ(key_buffer_head) # key_buffer_tail
  <2>1. /\ key_buffer' = [key_buffer EXCEPT ![key_buffer_head] = c]
        /\ key_buffer_head' = Succ(key_buffer_head)
    BY <1>2 DEF add_key_to_buffer
  <2>2. RingOK'
    BY <2>1, SuccSlot DEF RingOK
  <2>3. Held' = Held + 1 /\ Held < KEY_BUFFER_SIZE - 1
    <3>1. /\ key_buffer_head = KEY_BUFFER_SIZE - 1 => key_buffer_head' = 0
          /\ key_buffer_head < KEY_BUFFER_SIZE - 1 => key_buffer_head' = key_buffer_head + 1
      BY <2>1, SuccSlot DEF RingOK
    <3>2. /\ key_buffer_head >= key_buffer_tail => Held = key_buffer_head - key_buffer_tail
          /\ key_buffer_head < key_buffer_tail =>
               Held = key_buffer_head - key_buffer_tail + KEY_BUFFER_SIZE
      BY BufferedSeq DEF RingFacts
    <3>3. /\ key_buffer_head' >= key_buffer_tail => Held' = key_buffer_head' - key_buffer_tail
          /\ key_buffer_head' < key_buffer_tail =>
               Held' = key_buffer_head' - key_buffer_tail + KEY_BUFFER_SIZE
      BY <2>2, BufferedSeqNext DEF RingFacts
    <3>4. key_buffer_head' # key_buffer_tail
      BY <1>2, <2>1
    <3>5. QED
      BY <3>1, <3>2, <3>3, <3>4, ConsoleAssumption DEF RingOK, Slots
  <2>4. \A i \in 1 .. Held' : Buffered'[i] = IF i <= Held THEN Buffered[i] ELSE c
    <3> SUFFICES ASSUME NEW i \in 1 .. Held' PROVE Buffered'[i] = IF i <= Held THEN Buffered[i] ELSE c
      OBVIOUS
    <3>1. Buffered'[i] = key_buffer'[SlotOf(i)]
      BY <2>2, BufferedSeqNext DEF SlotOf, RingFacts
    <3>2. /\ Held \in 0 .. (KEY_BUFFER_SIZE - 1)
          /\ key_buffer_head >= key_buffer_tail => Held = key_buffer_head - key_buffer_tail
          /\ key_buffer_head < key_buffer_tail =>
               Held = key_buffer_head - key_buffer_tail + KEY_BUFFER_SIZE
      BY BufferedSeq DEF RingFacts
    <3>3. i \in 1 .. KEY_BUFFER_SIZE /\ (i <= Held \/ i = Held + 1)
      BY <2>3, <3>2, ConsoleAssumption
    <3>4. /\ SlotOf(i) \in Slots
          /\ key_buffer_tail + i - 1 < KEY_BUFFER_SIZE => SlotOf(i) = key_buffer_tail + i - 1
          /\ key_buffer_tail + i - 1 >= KEY_BUFFER_SIZE =>
               SlotOf(i) = key_buffer_tail + i - 1 - KEY_BUFFER_SIZE
      BY <3>3, SlotOfKey
    <3>5. SlotOf(i) = key_buffer_head <=> i = Held + 1
      BY <3>2, <3>3, <3>4, ConsoleAssumption DEF RingOK, Slots
    <3>6. i <= Held => Buffered[i] = key_buffer[SlotOf(i)]
      BY BufferedSeq DEF RingFacts
    <3>7. i = Held + 1 => ~(i <= Held)
      BY <3>2
    <3>8. QED
      BY <2>1, <3>1, <3>3, <3>4, <3>5, <3>6, <3>7 DEF RingOK
  <2>5. Buffered' = Append(Buffered, c)
    <3> DEFINE S == Chars \cup {NoKey}
               a == Append(Buffered, c)
    <3>1. Buffered \in Seq(S) /\ Len(Buffered) = Held /\ Held \in Nat
      BY BufferedSeq DEF RingFacts
    <3>2. Buffered' \in Seq(S) /\ Len(Buffered') = Held + 1
      BY <2>2, <2>3, BufferedSeqNext DEF RingFacts
    <3>3. a \in Seq(S) /\ Len(a) = Held + 1
      BY <3>1
    <3>4. \A i \in 1 .. Held + 1 : a[i] = IF i <= Held THEN Buffered[i] ELSE c
      BY <3>1
    <3>5. \A i \in 1 .. Len(Buffered') : Buffered'[i] = a[i]
      BY <2>3, <2>4, <3>2, <3>4
    <3> HIDE DEF a, S
    <3>6. QED
      BY <3>2, <3>3, <3>5, SeqEqual DEF a
  <2>6. key_buffer_head # key_buffer_tail =>
          /\ key_buffer_head' # key_buffer_tail
          /\ key_buffer'[key_buffer_tail] = key_buffer[key_buffer_tail]
    BY <1>2, <2>1 DEF RingOK
  <2>7. QED
    BY <2>2, <2>3, <2>5, <2>6, BufferedSeq DEF RingFacts
<1>3. QED
  BY <1>1, <1>2

(***************************************************************************)
(* libk.c: advancing the tail of a ring that is not empty takes the oldest *)
(* key out of the queue.                                                   *)
(***************************************************************************)
LEMMA AdvanceGets ==
    ASSUME RingOK, key_buffer_head # key_buffer_tail,
           key_buffer_tail' = Succ(key_buffer_tail), UNCHANGED <<key_buffer, key_buffer_head>>
    PROVE  /\ RingOK'
           /\ Buffered # <<>>
           /\ Head(Buffered) = key_buffer[key_buffer_tail]
           /\ Buffered' = Tail(Buffered)
<1>1. RingOK'
  BY SuccSlot DEF RingOK
<1>2. Held > 0 /\ Held' = Held - 1
  <2>1. /\ key_buffer_tail = KEY_BUFFER_SIZE - 1 => key_buffer_tail' = 0
        /\ key_buffer_tail < KEY_BUFFER_SIZE - 1 => key_buffer_tail' = key_buffer_tail + 1
    BY SuccSlot DEF RingOK
  <2>2. /\ key_buffer_head >= key_buffer_tail => Held = key_buffer_head - key_buffer_tail
        /\ key_buffer_head < key_buffer_tail =>
             Held = key_buffer_head - key_buffer_tail + KEY_BUFFER_SIZE
    BY BufferedSeq DEF RingFacts
  <2>3. /\ key_buffer_head >= key_buffer_tail' => Held' = key_buffer_head - key_buffer_tail'
        /\ key_buffer_head < key_buffer_tail' =>
             Held' = key_buffer_head - key_buffer_tail' + KEY_BUFFER_SIZE
    BY <1>1, BufferedSeqNext DEF RingFacts
  <2>4. QED
    BY <2>1, <2>2, <2>3, ConsoleAssumption DEF RingOK, Slots
<1>3. Buffered # <<>> /\ Head(Buffered) = key_buffer[key_buffer_tail]
  <2>1. Len(Buffered) > 0 /\ Buffered \in Seq(Chars \cup {NoKey})
    BY <1>2, BufferedSeq DEF RingFacts
  <2>2. Buffered # <<>> /\ Head(Buffered) = Buffered[1]
    BY <2>1
  <2>3. SlotOf(1) = key_buffer_tail
    BY SlotOfKey, ConsoleAssumption DEF RingOK, Slots
  <2>4. 1 \in 1 .. Held
    BY <1>2, BufferedSeq DEF RingFacts
  <2>5. QED
    BY <2>2, <2>3, <2>4, BufferedSeq DEF RingFacts
<1>4. \A i \in 1 .. Held' : Buffered'[i] = Buffered[i + 1]
  <2> SUFFICES ASSUME NEW i \in 1 .. Held' PROVE Buffered'[i] = Buffered[i + 1]
    OBVIOUS
  <2>1. SlotOf(i)' = SlotOf(i + 1)
    <3>1. i \in 1 .. KEY_BUFFER_SIZE /\ i + 1 \in 1 .. KEY_BUFFER_SIZE
      BY <1>2, BufferedSeq, ConsoleAssumption DEF RingFacts
    <3>2. /\ key_buffer_tail + i < KEY_BUFFER_SIZE => SlotOf(i + 1) = key_buffer_tail + i
          /\ key_buffer_tail + i >= KEY_BUFFER_SIZE =>
               SlotOf(i + 1) = key_buffer_tail + i - KEY_BUFFER_SIZE
      <4>1. key_buffer_tail + (i + 1) - 1 = key_buffer_tail + i
        BY <3>1, ConsoleAssumption DEF RingOK, Slots
      <4>2. QED
        BY <3>1, <4>1, SlotOfKey
    <3>3. /\ key_buffer_tail' + i - 1 < KEY_BUFFER_SIZE => SlotOf(i)' = key_buffer_tail' + i - 1
          /\ key_buffer_tail' + i - 1 >= KEY_BUFFER_SIZE =>
               SlotOf(i)' = key_buffer_tail' + i - 1 - KEY_BUFFER_SIZE
      <4> DEFINE x == key_buffer_tail' + i - 1
      <4>1. x \in 0 .. (2 * KEY_BUFFER_SIZE - 1) /\ SlotOf(i)' = x % KEY_BUFFER_SIZE
        BY <1>1, <3>1, ConsoleAssumption DEF RingOK, Slots, SlotOf
      <4> HIDE DEF x
      <4>2. /\ x < KEY_BUFFER_SIZE => SlotOf(i)' = x
            /\ x >= KEY_BUFFER_SIZE => SlotOf(i)' = x - KEY_BUFFER_SIZE
        BY <4>1, RingIndex
      <4>3. QED
        BY <1>1, <3>1, <4>2, ConsoleAssumption DEF x, RingOK, Slots
    <3>4. /\ key_buffer_tail = KEY_BUFFER_SIZE - 1 => key_buffer_tail' = 0
          /\ key_buffer_tail < KEY_BUFFER_SIZE - 1 => key_buffer_tail' = key_buffer_tail + 1
      BY SuccSlot DEF RingOK
    <3>5. QED
      BY <3>1, <3>2, <3>3, <3>4, ConsoleAssumption DEF RingOK, Slots
  <2>2. i + 1 \in 1 .. Held
    BY <1>2, BufferedSeq DEF RingFacts
  <2>3. Buffered'[i] = key_buffer'[SlotOf(i)']
    BY <1>1, BufferedSeqNext DEF RingFacts
  <2>4. QED
    BY <2>1, <2>2, <2>3, BufferedSeq DEF RingFacts
<1>5. Buffered' = Tail(Buffered)
  <2> DEFINE S == Chars \cup {NoKey}
             t == Tail(Buffered)
  <2>1. Buffered \in Seq(S) /\ Len(Buffered) = Held
    BY BufferedSeq DEF RingFacts
  <2>2. t \in Seq(S) /\ Len(t) = Held - 1 /\ \A i \in 1 .. Len(t) : t[i] = Buffered[i + 1]
    BY <1>3, <2>1, HeadTailProperties
  <2>3. Buffered' \in Seq(S) /\ Len(Buffered') = Held - 1
    BY <1>1, <1>2, BufferedSeqNext DEF RingFacts
  <2>4. \A i \in 1 .. Len(Buffered') : Buffered'[i] = t[i]
    BY <1>2, <1>4, <2>2, <2>3
  <2> HIDE DEF t, S
  <2>5. QED
    BY <2>2, <2>3, <2>4, SeqEqual DEF t
<1>6. QED
  BY <1>1, <1>3, <1>5

-----------------------------------------------------------------------------
(***************************************************************************)
(* keyboard.c, irq1_handler(): whatever the two reads of the port give,    *)
(* the handler leaves the ring alone or adds one character to it.          *)
(***************************************************************************)
LEMMA HandlerAdds ==
    ASSUME TypeOK, NEW reads \in 1 .. 2, irq1_handler(reads)
    PROVE  /\ UNCHANGED ring \/ \E c \in Chars : add_key_to_buffer(c) /\ UNCHANGED key_buffer_tail
           /\ wire' \in Seq([key : Keys, released : BOOLEAN])
           /\ capsOn' \in BOOLEAN /\ capsLock' \in BOOLEAN
<1> DEFINE byte == [key : Keys, released : BOOLEAN]
<1>1. Len(wire) \in Nat /\ reads \in Nat /\ reads >= 1 /\ Len(wire) >= reads
  BY DEF TypeOK, irq1_handler
<1>b. \A i \in 1 .. Len(wire) : wire[i] \in byte
  <2>1. wire \in Seq(byte)
    BY DEF TypeOK
  <2> HIDE DEF byte
  <2>2. QED
    BY <2>1, ElementOfSeq
<1> HIDE DEF byte
<1>2. wire[1] \in byte /\ wire[reads] \in byte
  BY <1>1, <1>b
<1>3. wire' \in Seq(byte)
  <2>1. wire' = SubSeq(wire, reads + 1, Len(wire))
    BY DEF irq1_handler
  <2>2. \A i \in (reads + 1) .. Len(wire) : wire[i] \in byte
    BY <1>1, <1>b
  <2>3. QED
    BY <1>1, <2>1, <2>2, SubSeqProperties
<1>4. UNCHANGED ring \/ \E c \in Chars : add_key_to_buffer(c) /\ UNCHANGED key_buffer_tail
  BY DEF irq1_handler, ring, Chars, lowercase, uppercase
<1>5. capsOn' \in BOOLEAN /\ capsLock' \in BOOLEAN
  BY <1>2 DEF irq1_handler, handle_special_key, TypeOK, byte
<1>6. QED
  BY <1>3, <1>4, <1>5 DEF byte

(***************************************************************************)
(* keyboard.c: the handler keeps what the reader found: a ring that was    *)
(* not empty stays so, and its oldest key stays in its slot.               *)
(***************************************************************************)
LEMMA RingStep ==
    ASSUME TypeOK, OnlyCharsBuffered,
           UNCHANGED ring \/ \E c \in Chars : add_key_to_buffer(c) /\ UNCHANGED key_buffer_tail
    PROVE  /\ RingOK' /\ OnlyCharsBuffered'
           /\ UNCHANGED key_buffer_tail
           /\ key_buffer_head # key_buffer_tail =>
                /\ key_buffer_head' # key_buffer_tail
                /\ key_buffer'[key_buffer_tail] = key_buffer[key_buffer_tail]
<1>1. CASE UNCHANGED ring
  <2>1. Buffered' = Buffered
    BY <1>1, SameRing
  <2>2. QED
    BY <1>1, <2>1 DEF ring, TypeOK, RingOK, OnlyCharsBuffered
<1>2. CASE \E c \in Chars : add_key_to_buffer(c) /\ UNCHANGED key_buffer_tail
  <2>1. PICK c \in Chars : add_key_to_buffer(c) /\ UNCHANGED key_buffer_tail
    BY <1>2
  <2>2. RingOK /\ Buffered \in Seq(Chars \cup {NoKey})
    BY BufferedSeq DEF TypeOK, RingFacts
  <2>3. Buffered' = Buffered \/ Buffered' = Append(Buffered, c)
    BY <2>1, <2>2, AddPuts
  <2>4. OnlyCharsBuffered'
    <3>1. ASSUME Buffered' = Append(Buffered, c) PROVE \A i \in DOMAIN Buffered' : Buffered'[i] \in Chars
      <4>1. DOMAIN Buffered' = 1 .. (Len(Buffered) + 1)
        BY <2>2, <3>1
      <4>2. \A i \in 1 .. Len(Buffered) : Buffered[i] \in Chars
        BY <2>2 DEF OnlyCharsBuffered
      <4>3. QED
        BY <2>2, <3>1, <4>1, <4>2
    <3>2. QED
      BY <2>3, <3>1 DEF OnlyCharsBuffered
  <2>5. QED
    BY <2>1, <2>2, <2>4, AddPuts
<1>3. QED
  BY <1>1, <1>2

(***************************************************************************)
(* libk.c: taking the oldest key leaves a ring of characters.              *)
(***************************************************************************)
LEMMA TakeStep ==
    ASSUME TypeOK, OnlyCharsBuffered, key_buffer_head # key_buffer_tail,
           key_buffer_tail' = Succ(key_buffer_tail), UNCHANGED <<key_buffer, key_buffer_head>>
    PROVE  RingOK' /\ OnlyCharsBuffered' /\ key_buffer[key_buffer_tail] \in Chars
<1>1. Buffered \in Seq(Chars \cup {NoKey}) /\ RingOK
  BY BufferedSeq DEF TypeOK, RingFacts
<1>2. /\ RingOK' /\ Buffered # <<>> /\ Buffered' = Tail(Buffered)
      /\ Head(Buffered) = key_buffer[key_buffer_tail]
  BY <1>1, AdvanceGets
<1>3. \A i \in 1 .. Len(Buffered) : Buffered[i] \in Chars
  BY <1>1 DEF OnlyCharsBuffered
<1>4. Buffered \in Seq(Chars)
  BY <1>1, <1>3
<1>5. Head(Buffered) \in Chars /\ Tail(Buffered) \in Seq(Chars)
  BY <1>2, <1>4, HeadTailProperties
<1>6. OnlyCharsBuffered'
  BY <1>2, <1>5, ElementOfSeq DEF OnlyCharsBuffered
<1>7. QED
  BY <1>2, <1>5, <1>6

(***************************************************************************)
(* The empty ring the boot leaves satisfies the invariant.                 *)
(***************************************************************************)
LEMMA InitRingInv == Init => RingInv
<1> SUFFICES ASSUME Init PROVE RingInv
  OBVIOUS
<1>1. 0 \in Slots
  BY ConsoleAssumption DEF Slots
<1>2. TypeOK
  BY <1>1 DEF Init, TypeOK, RingOK
<1>3. Held = 0
  BY <1>2, BufferedSeq, ConsoleAssumption DEF Init, TypeOK, RingFacts
<1>4. OnlyCharsBuffered
  BY <1>2, <1>3, BufferedSeq DEF TypeOK, RingFacts, OnlyCharsBuffered
<1>5. QED
  BY <1>2, <1>4 DEF Init, RingInv, ReaderHasKey

(***************************************************************************)
(* Every step of the reader, and every interrupt between two of them,      *)
(* keeps the invariant.                                                    *)
(***************************************************************************)
LEMMA NextRingInv == RingInv /\ [Next]_vars => RingInv'
<1> SUFFICES ASSUME RingInv, [Next]_vars PROVE RingInv'
  OBVIOUS
<1>0. TypeOK /\ RingOK /\ ReaderHasKey /\ OnlyCharsBuffered
  BY DEF RingInv, TypeOK
<1>r. UNCHANGED ring => RingOK' /\ OnlyCharsBuffered'
  BY <1>0, RingStep
<1>1. CASE UNCHANGED vars
  BY <1>0, <1>1, <1>r DEF vars, ring, reader, RingInv, TypeOK, ReaderHasKey
<1>2. ASSUME NEW k \in Keys, NEW released \in BOOLEAN, Type(k, released) PROVE RingInv'
  <2>1. wire' \in Seq([key : Keys, released : BOOLEAN])
    <3>1. [key |-> k, released |-> released] \in [key : Keys, released : BOOLEAN]
      OBVIOUS
    <3>2. QED
      BY <1>0, <1>2, <3>1 DEF Type, TypeOK
  <2>2. QED
    BY <1>0, <1>2, <1>r, <2>1 DEF Type, ring, reader, RingInv, TypeOK, ReaderHasKey
<1>3. ASSUME NEW reads \in 1 .. 2, irq1_handler(reads) PROVE RingInv'
  <2>1. /\ RingOK' /\ OnlyCharsBuffered'
        /\ key_buffer_head # key_buffer_tail =>
             /\ key_buffer_head' # key_buffer_tail
             /\ key_buffer'[key_buffer_tail] = key_buffer[key_buffer_tail]
    BY <1>0, <1>3, HandlerAdds, RingStep
  <2>2. ReaderHasKey'
    BY <1>0, <1>3, <2>1 DEF irq1_handler, Woken, ReaderHasKey, TypeOK
  <2>3. TypeOK'
    BY <1>0, <1>3, <2>1, HandlerAdds DEF irq1_handler, Woken, TypeOK
  <2>4. QED
    BY <2>1, <2>2, <2>3 DEF RingInv
<1>4. CASE pit_handler
  BY <1>0, <1>4, <1>r DEF pit_handler, Woken, ring, RingInv, TypeOK, ReaderHasKey
<1>5. ASSUME NEW n \in Lens, read(n) PROVE RingInv'
  BY <1>0, <1>5, <1>r, ConsoleAssumption DEF read, ring, RingInv, TypeOK, ReaderHasKey
<1>6. CASE syscall_13_get_key_from_buffer
  <2>1. RingOK' /\ OnlyCharsBuffered' /\ key' \in Chars
    BY <1>0, <1>6, TakeStep DEF syscall_13_get_key_from_buffer
  <2>2. QED
    BY <1>0, <1>6, <2>1 DEF syscall_13_get_key_from_buffer, RingInv, TypeOK, ReaderHasKey
<1>7. CASE check
  BY <1>0, <1>7, <1>r DEF check, ring, RingInv, TypeOK, ReaderHasKey
<1>8. CASE halt
  BY <1>0, <1>8, <1>r DEF halt, ring, RingInv, TypeOK, ReaderHasKey
<1>9. CASE load
  <2>1. key' \in Chars \cup {NoKey}
    BY <1>0, <1>9 DEF load, RingOK
  <2>2. QED
    BY <1>0, <1>9, <1>r, <2>1 DEF load, ring, RingInv, TypeOK, ReaderHasKey
<1>10. CASE advance
  <2>1. RingOK' /\ OnlyCharsBuffered'
    BY <1>0, <1>10, TakeStep DEF advance, ReaderHasKey
  <2>2. QED
    BY <1>0, <1>10, <2>1 DEF advance, RingInv, TypeOK, ReaderHasKey
<1>11. CASE store
  BY <1>0, <1>11, <1>r DEF store, ring, RingInv, TypeOK, ReaderHasKey
<1>12. CASE return
  BY <1>0, <1>12, <1>r DEF return, ring, RingInv, TypeOK, ReaderHasKey
<1>13. QED
  BY <1>1, <1>2, <1>3, <1>4, <1>5, <1>6, <1>7, <1>8, <1>9, <1>10, <1>11, <1>12
  DEF Next, Reader

(***************************************************************************)
(* keyboard.c, libk.c: the indices stay in the ring, the reader never acts *)
(* on an empty ring, and the key it has loaded is still the oldest one     *)
(* when it stores the tail, for any size of the ring.                      *)
(***************************************************************************)
THEOREM ConsoleRing == Spec => []RingInv
BY InitRingInv, NextRingInv, PTL DEF Spec

-----------------------------------------------------------------------------
Got == IF pc = "advance" THEN NoKey ELSE key

(***************************************************************************)
(* Every step is a step of the queue, or none: the handler puts a key or   *)
(* does nothing, the store of the tail (or system call 13) takes one, and  *)
(* the reader's other steps forget the key they were given or do nothing.  *)
(***************************************************************************)
LEMMA ConsoleStepRefines ==
    RingInv /\ [Next]_vars => [Queue!Next]_<<Buffered, Got>>
<1> SUFFICES ASSUME RingInv, [Next]_vars
             PROVE  Queue!Next \/ UNCHANGED <<Buffered, Got>>
  OBVIOUS
<1>0. TypeOK /\ RingOK /\ ReaderHasKey
  BY DEF RingInv, TypeOK
<1>u. ASSUME UNCHANGED ring, Got' = NoKey PROVE Queue!Next
  BY <1>u, SameRing DEF Queue!Next, Queue!Use, Got
<1>s. ASSUME UNCHANGED ring, UNCHANGED Got PROVE UNCHANGED <<Buffered, Got>>
  BY <1>s, SameRing
<1>g. ASSUME key_buffer_head # key_buffer_tail, key_buffer_tail' = Succ(key_buffer_tail),
             UNCHANGED <<key_buffer, key_buffer_head>>, Got' = key_buffer[key_buffer_tail]
      PROVE  Queue!Next
  BY <1>0, <1>g, AdvanceGets DEF Queue!Next, Queue!Get, Got
<1>1. CASE UNCHANGED vars
  BY <1>1, <1>s DEF vars, reader, Got
<1>2. ASSUME NEW k \in Keys, NEW released \in BOOLEAN, Type(k, released)
      PROVE  UNCHANGED <<Buffered, Got>>
  BY <1>2, <1>s DEF Type, reader, Got
<1>3. ASSUME NEW reads \in 1 .. 2, irq1_handler(reads)
      PROVE  Queue!Next \/ UNCHANGED <<Buffered, Got>>
  <2>1. UNCHANGED Got
    BY <1>3 DEF irq1_handler, Woken, Got
  <2>2. CASE UNCHANGED ring
    BY <1>s, <2>1, <2>2
  <2>3. ASSUME NEW c \in Chars, add_key_to_buffer(c), UNCHANGED key_buffer_tail
        PROVE  Queue!Next \/ UNCHANGED <<Buffered, Got>>
    <3>1. \/ Buffered' = Buffered
          \/ Len(Buffered) < KEY_BUFFER_SIZE - 1 /\ Buffered' = Append(Buffered, c)
      BY <1>0, <2>3, AddPuts
    <3>2. QED
      BY <2>1, <2>3, <3>1 DEF Queue!Next, Queue!Put, Got
  <2>4. QED
    BY <1>0, <1>3, <2>2, <2>3, HandlerAdds
<1>4. CASE pit_handler
  BY <1>4, <1>s DEF pit_handler, Woken, Got
<1>5. ASSUME NEW n \in Lens, read(n) PROVE UNCHANGED <<Buffered, Got>>
  BY <1>5, <1>s DEF read, Got
<1>6. CASE syscall_13_get_key_from_buffer
  BY <1>6, <1>g DEF syscall_13_get_key_from_buffer, Got
<1>7. CASE check
  BY <1>7, <1>u DEF check, Got
<1>8. CASE halt
  BY <1>8, <1>s DEF halt, Got
<1>9. CASE load
  BY <1>9, <1>u DEF load, Got
<1>10. CASE advance
  BY <1>0, <1>10, <1>g DEF advance, ReaderHasKey, Got
<1>11. CASE store
  BY <1>11, <1>u DEF store, Got
<1>12. CASE return
  BY <1>12, <1>s DEF return, Got
<1>13. QED
  BY <1>1, <1>2, <1>3, <1>4, <1>5, <1>6, <1>7, <1>8, <1>9, <1>10, <1>11, <1>12
  DEF Next, Reader

(***************************************************************************)
(* keyboard.c and libk.c: the ring, shared by the interrupt handler and    *)
(* the reader without a lock, is a first-in first-out queue that loses a   *)
(* key only when it is full, for any size of the ring.                     *)
(***************************************************************************)
THEOREM ConsoleRefinesKeyQueue == Spec => ImplementsKeyQueue
<1>1. Init => Queue!Init
  <2> SUFFICES ASSUME Init PROVE Queue!Init
    OBVIOUS
  <2>1. RingOK
    BY InitRingInv DEF RingInv, TypeOK
  <2>2. Held = 0 /\ Buffered \in Seq(Chars \cup {NoKey}) /\ Len(Buffered) = 0
    BY <2>1, BufferedSeq, ConsoleAssumption DEF Init, RingFacts
  <2>3. Buffered = <<>>
    BY <2>2
  <2>4. QED
    BY <2>3 DEF Init, Queue!Init
<1>2. QED
  BY <1>1, ConsoleStepRefines, ConsoleRing, PTL DEF Spec, ImplementsKeyQueue, Queue!Spec, Got
=============================================================================
