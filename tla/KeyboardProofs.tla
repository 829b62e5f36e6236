--------------------------- MODULE KeyboardProofs ---------------------------
(***************************************************************************)
(* With interrupts as its only producer, the keyboard ring implements the  *)
(* abstract character queue, for every buffer size.                        *)
(***************************************************************************)
EXTENDS Keyboard, SequenceTheorems, TLAPS

----------------------------------------------------------------------------
(* Arithmetic of the ring.                                                 *)

LEMMA Wrap ==
    ASSUME NEW x \in 0 .. 2 * BUF_SIZE - 1
    PROVE  x % BUF_SIZE = IF x < BUF_SIZE THEN x ELSE x - BUF_SIZE
  <1> USE SizeAssumption
  <1>1. CASE x < BUF_SIZE
    BY <1>1
  <1>2. CASE x >= BUF_SIZE
    <2>1. x - BUF_SIZE \in 0 .. BUF_SIZE - 1
      BY <1>2
    <2>2. x = BUF_SIZE * 1 + (x - BUF_SIZE)
      OBVIOUS
    <2>3. x % BUF_SIZE = x - BUF_SIZE
      BY <2>1, <2>2
    <2> QED BY <1>2, <2>3
  <1> QED BY <1>1, <1>2

LEMMA SuccValue ==
    ASSUME NEW i \in Slots
    PROVE  /\ Succ(i) \in Slots
           /\ Succ(i) = IF i = BUF_SIZE - 1 THEN 0 ELSE i + 1
  <1>1. i + 1 \in 0 .. 2 * BUF_SIZE - 1
    BY SizeAssumption DEF Slots
  <1> QED BY <1>1, Wrap, SizeAssumption DEF Slots, Succ

\* The number of characters in a ring with the given head and tail, and the
\* slot of the k-th of them.
Fill(h, t) == (h - t) % BUF_SIZE

Slot(t, k) == (t + k - 1) % BUF_SIZE

LEMMA FillValue ==
    ASSUME NEW h \in Slots, NEW t \in Slots
    PROVE  /\ Fill(h, t) \in Slots
           /\ Fill(h, t) = IF h >= t THEN h - t ELSE h - t + BUF_SIZE
  <1> USE SizeAssumption
  <1>1. CASE h >= t
    BY <1>1 DEF Slots, Fill
  <1>2. CASE h < t
    <2>1. h - t + BUF_SIZE \in 0 .. BUF_SIZE - 1
      BY <1>2 DEF Slots
    <2>2. h - t = BUF_SIZE * (-1) + (h - t + BUF_SIZE)
      BY DEF Slots
    <2>3. (h - t) % BUF_SIZE = h - t + BUF_SIZE
      BY <2>1, <2>2 DEF Slots
    <2> QED BY <1>2, <2>1, <2>3 DEF Slots, Fill
  <1> QED BY <1>1, <1>2 DEF Slots

LEMMA SlotValue ==
    ASSUME NEW t \in Slots, NEW k \in 1 .. BUF_SIZE
    PROVE  /\ Slot(t, k) \in Slots
           /\ Slot(t, k) = IF t + k - 1 < BUF_SIZE THEN t + k - 1
                           ELSE t + k - 1 - BUF_SIZE
  <1>1. t + k - 1 \in 0 .. 2 * BUF_SIZE - 1
    BY SizeAssumption DEF Slots
  <1> QED BY <1>1, Wrap, SizeAssumption DEF Slots, Slot

----------------------------------------------------------------------------
(* The ring as a sequence.                                                 *)

Cell == Char \cup {None}

Chars(b, h, t) == [k \in 1 .. Fill(h, t) |-> b[Slot(t, k)]]

\* Every slot between tail and head holds a character.
Filled(b, h, t) == \A k \in 1 .. Fill(h, t) : b[Slot(t, k)] \in Char

LEMMA CharsSeq ==
    ASSUME NEW b, NEW h \in Slots, NEW t \in Slots, Filled(b, h, t)
    PROVE  /\ Chars(b, h, t) \in Seq(Char)
           /\ Len(Chars(b, h, t)) = Fill(h, t)
           /\ \A k \in 1 .. Fill(h, t) : Chars(b, h, t)[k] = b[Slot(t, k)]
  <1>1. Fill(h, t) \in Nat
    BY FillValue DEF Slots
  <1> QED BY <1>1 DEF Chars, Filled

\* Storing at head and advancing it appends, unless the ring is full.
LEMMA PushAppends ==
    ASSUME NEW b \in [Slots -> Cell], NEW h \in Slots, NEW t \in Slots,
           Filled(b, h, t), NEW c \in Char, Succ(h) # t
    PROVE  LET b2 == [b EXCEPT ![h] = c]
           IN /\ Filled(b2, Succ(h), t)
              /\ Fill(h, t) < BUF_SIZE - 1
              /\ Chars(b2, Succ(h), t) = Append(Chars(b, h, t), c)
  <1> USE SizeAssumption
  <1> DEFINE b2 == [b EXCEPT ![h] = c]
             n  == Fill(h, t)
             s  == Chars(b, h, t)
             u  == Chars(b2, Succ(h), t)
  <1>1. /\ Succ(h) \in Slots /\ n \in Slots
        /\ n < BUF_SIZE - 1 /\ Fill(Succ(h), t) = n + 1
    <2>1. Succ(h) \in Slots /\ Succ(h) = IF h = BUF_SIZE - 1 THEN 0 ELSE h + 1
      BY SuccValue
    <2>2. n \in Slots /\ n = IF h >= t THEN h - t ELSE h - t + BUF_SIZE
      BY FillValue
    <2>3. Fill(Succ(h), t) = IF Succ(h) >= t THEN Succ(h) - t
                             ELSE Succ(h) - t + BUF_SIZE
      BY <2>1, FillValue
    <2> HIDE DEF n
    <2> QED BY <2>1, <2>2, <2>3 DEF Slots
  <1>n. n = IF h >= t THEN h - t ELSE h - t + BUF_SIZE
    BY FillValue
  <1>2. \A k \in 1 .. n : Slot(t, k) \in Slots /\ Slot(t, k) # h
    <2> SUFFICES ASSUME NEW k \in 1 .. n
                 PROVE  Slot(t, k) \in Slots /\ Slot(t, k) # h
      OBVIOUS
    <2>1. k \in 1 .. BUF_SIZE
      BY <1>1 DEF Slots
    <2>2. /\ Slot(t, k) \in Slots
          /\ Slot(t, k) = IF t + k - 1 < BUF_SIZE THEN t + k - 1
                          ELSE t + k - 1 - BUF_SIZE
      BY <2>1, SlotValue
    <2> HIDE DEF n
    <2> QED BY <2>1, <2>2, <1>1, <1>n DEF Slots
  <1>3. Slot(t, n + 1) = h
    <2>1. n + 1 \in 1 .. BUF_SIZE
      BY <1>1 DEF Slots
    <2>2. Slot(t, n + 1) = IF t + (n + 1) - 1 < BUF_SIZE THEN t + (n + 1) - 1
                           ELSE t + (n + 1) - 1 - BUF_SIZE
      BY <2>1, SlotValue
    <2> HIDE DEF n
    <2> QED BY <2>1, <2>2, <1>1, <1>n DEF Slots
  <1>4. \A k \in 1 .. n : b2[Slot(t, k)] = b[Slot(t, k)]
    BY <1>2
  <1>5. b2[Slot(t, n + 1)] = c
    BY <1>3
  <1>6. Filled(b2, Succ(h), t)
    BY <1>1, <1>4, <1>5 DEF Filled, Slots
  <1>7. s \in Seq(Char) /\ Len(s) = n /\ \A k \in 1 .. n : s[k] = b[Slot(t, k)]
    BY CharsSeq
  <1>8. /\ u \in Seq(Char) /\ Len(u) = n + 1
        /\ \A k \in 1 .. n + 1 : u[k] = b2[Slot(t, k)]
    <2> HIDE DEF b2
    <2>1. /\ u \in Seq(Char) /\ Len(u) = Fill(Succ(h), t)
          /\ \A k \in 1 .. Fill(Succ(h), t) : u[k] = b2[Slot(t, k)]
      BY <1>1, <1>6, CharsSeq
    <2> HIDE DEF u, n
    <2> QED BY <2>1, <1>1
  <1> HIDE DEF b2, s, u, n
  <1>9. u = Append(s, c)
    <2>1. Append(s, c) \in Seq(Char) /\ Len(Append(s, c)) = n + 1
      BY <1>7
    <2>2. \A k \in 1 .. n + 1 : u[k] = Append(s, c)[k]
      <3> SUFFICES ASSUME NEW k \in 1 .. n + 1 PROVE u[k] = Append(s, c)[k]
        OBVIOUS
      <3>0. n \in Nat
        BY <1>1 DEF Slots
      <3>1. CASE k = n + 1
        <4>1. Append(s, c)[n + 1] = c
          BY <1>7, <3>0
        <4>2. u[n + 1] = c
          BY <1>5, <1>8, <3>0
        <4> QED BY <3>1, <4>1, <4>2
      <3>2. CASE k \in 1 .. n
        BY <3>2, <1>4, <1>7, <1>8
      <3>3. k = n + 1 \/ k \in 1 .. n
        BY <3>0
      <3> QED BY <3>1, <3>2, <3>3
    <2> QED BY <2>1, <2>2, <1>8, SeqEqual
  <1> QED BY <1>1, <1>6, <1>9 DEF b2, s, u, n

\* Advancing tail removes the first character.
LEMMA AdvanceRemoves ==
    ASSUME NEW b \in [Slots -> Cell], NEW h \in Slots, NEW t \in Slots,
           Filled(b, h, t), h # t
    PROVE  /\ Filled(b, h, Succ(t))
           /\ Chars(b, h, t) # <<>>
           /\ Head(Chars(b, h, t)) = b[t]
           /\ Chars(b, h, Succ(t)) = Tail(Chars(b, h, t))
  <1> USE SizeAssumption
  <1> DEFINE n == Fill(h, t)
             s == Chars(b, h, t)
             u == Chars(b, h, Succ(t))
  <1>1. /\ Succ(t) \in Slots /\ n \in Slots /\ n >= 1
        /\ Fill(h, Succ(t)) = n - 1
    <2>1. Succ(t) \in Slots /\ Succ(t) = IF t = BUF_SIZE - 1 THEN 0 ELSE t + 1
      BY SuccValue
    <2>2. n \in Slots /\ n = IF h >= t THEN h - t ELSE h - t + BUF_SIZE
      BY FillValue
    <2>3. Fill(h, Succ(t)) = IF h >= Succ(t) THEN h - Succ(t)
                             ELSE h - Succ(t) + BUF_SIZE
      BY <2>1, FillValue
    <2> HIDE DEF n
    <2> QED BY <2>1, <2>2, <2>3 DEF Slots
  <1>2. \A k \in 1 .. n - 1 : Slot(Succ(t), k) = Slot(t, k + 1)
    <2> SUFFICES ASSUME NEW k \in 1 .. n - 1
                 PROVE  Slot(Succ(t), k) = Slot(t, k + 1)
      OBVIOUS
    <2>1. k \in 1 .. BUF_SIZE /\ k + 1 \in 1 .. BUF_SIZE
      BY <1>1 DEF Slots
    <2>2. Slot(Succ(t), k) = IF Succ(t) + k - 1 < BUF_SIZE THEN Succ(t) + k - 1
                             ELSE Succ(t) + k - 1 - BUF_SIZE
      BY <2>1, <1>1, SlotValue
    <2>3. Slot(t, k + 1) = IF t + (k + 1) - 1 < BUF_SIZE THEN t + (k + 1) - 1
                           ELSE t + (k + 1) - 1 - BUF_SIZE
      BY <2>1, SlotValue
    <2>4. Succ(t) = IF t = BUF_SIZE - 1 THEN 0 ELSE t + 1
      BY SuccValue
    <2> QED BY <2>1, <2>2, <2>3, <2>4 DEF Slots
  <1>3. Slot(t, 1) = t
    <2>1. 1 \in 1 .. BUF_SIZE
      OBVIOUS
    <2> QED BY <2>1, SlotValue DEF Slots
  <1>4. s \in Seq(Char) /\ Len(s) = n /\ \A k \in 1 .. n : s[k] = b[Slot(t, k)]
    BY CharsSeq
  <1>5. Filled(b, h, Succ(t))
    BY <1>1, <1>2 DEF Filled, Slots
  <1>6. /\ u \in Seq(Char) /\ Len(u) = n - 1
        /\ \A k \in 1 .. n - 1 : u[k] = b[Slot(Succ(t), k)]
    BY <1>1, <1>5, CharsSeq
  <1>7. n \in Nat /\ n >= 1
    BY <1>1 DEF Slots
  <1> HIDE DEF s, u, n
  <1>8. s # <<>> /\ Head(s) = b[t]
    BY <1>3, <1>4, <1>7
  <1>9. u = Tail(s)
    <2>1. /\ Tail(s) \in Seq(Char) /\ Len(Tail(s)) = n - 1
          /\ \A k \in 1 .. n - 1 : Tail(s)[k] = s[k + 1]
      BY <1>4, <1>8, HeadTailProperties
    <2>2. \A k \in 1 .. n - 1 : u[k] = Tail(s)[k]
      BY <2>1, <1>2, <1>4, <1>6, <1>7
    <2> QED BY <2>1, <2>2, <1>6, SeqEqual
  <1> QED BY <1>5, <1>8, <1>9 DEF s, u, n

----------------------------------------------------------------------------
(* The refinement.                                                         *)

PushPCs == {"p_next", "p_test", "p_load", "p_store", "p_head"}

\* Inductive when no USB keyboard is attached: the main context never pushes,
\* the slots between tail and head hold characters, and the slot the reader
\* has looked at is still the oldest one when it moves tail.
RingInv ==
    /\ TypeOK
    /\ ~setup.usb /\ report = None
    /\ pc \notin PushPCs
    /\ Filled(buffer, head, tail)
    /\ pc \in {"read", "advance"} => head # tail
    /\ pc = "advance" => ch = buffer[tail]

LEMMA ContentsIsChars == Contents = Chars(buffer, head, tail)
  BY DEF Contents, Count, Chars, Fill, Slot

LEMMA RingInit ==
    ASSUME \A s \in Setups : ~s.usb
    PROVE  Init => RingInv
  <1> SUFFICES ASSUME Init PROVE RingInv
    OBVIOUS
  <1>1. 0 \in Slots /\ Fill(0, 0) = 0
    <2>1. 0 \in Slots
      BY SizeAssumption DEF Slots
    <2> QED BY <2>1, FillValue
  <1>2. TypeOK
    BY <1>1 DEF Init, TypeOK, PCs
  <1>3. Filled(buffer, head, tail)
    BY <1>1 DEF Init, Filled
  <1> QED BY <1>2, <1>3 DEF Init, RingInv, PushPCs

\* What an interrupt-time push does to the ring.
LEMMA IrqPush ==
    ASSUME RingInv, NEW c \in Char, buffer_push(c), tail' = tail
    PROVE  /\ buffer' \in [Slots -> Cell] /\ head' \in Slots /\ drops' \in Nat
           /\ Filled(buffer', head', tail')
           /\ head # tail => head' # tail' /\ buffer'[tail'] = buffer[tail]
           /\ \/ /\ Len(Contents) < BUF_SIZE - 1
                 /\ Contents' = Append(Contents, c)
                 /\ drops' = drops
              \/ /\ Len(Contents) = BUF_SIZE - 1
                 /\ Contents' = Contents
                 /\ drops' = drops + 1
  <1>0. /\ buffer \in [Slots -> Cell] /\ head \in Slots /\ tail \in Slots
        /\ drops \in Nat /\ Filled(buffer, head, tail)
    BY DEF RingInv, TypeOK, Cell
  <1>1. /\ Contents = Chars(buffer, head, tail)
        /\ Contents' = Chars(buffer', head', tail')
        /\ Len(Contents) = Fill(head, tail)
    BY <1>0, ContentsIsChars, CharsSeq DEF Contents, Count, Chars, Fill, Slot
  <1>2. CASE Room(Succ(head))
    <2>1. /\ Succ(head) # tail /\ drops' = drops
          /\ buffer' = [buffer EXCEPT ![head] = c] /\ head' = Succ(head)
      BY <1>2 DEF buffer_push, Room
    <2>2. /\ Filled(buffer', head', tail')
          /\ Fill(head, tail) < BUF_SIZE - 1
          /\ Chars(buffer', head', tail') = Append(Chars(buffer, head, tail), c)
      BY <2>1, <1>0, PushAppends
    <2>3. buffer' \in [Slots -> Cell] /\ head' \in Slots
      BY <2>1, <1>0, SuccValue DEF Cell
    <2>4. head # tail => head' # tail' /\ buffer'[tail'] = buffer[tail]
      BY <2>1, <1>0
    <2> QED BY <2>1, <2>2, <2>3, <2>4, <1>0, <1>1
  <1>3. CASE ~Room(Succ(head))
    <2>1. /\ Succ(head) = tail /\ drops' = drops + 1
          /\ buffer' = buffer /\ head' = head
      BY <1>3 DEF buffer_push, Room
    <2>2. Fill(head, tail) = BUF_SIZE - 1
      <3>1. Succ(head) = IF head = BUF_SIZE - 1 THEN 0 ELSE head + 1
        BY <1>0, SuccValue
      <3>2. Fill(head, tail) = IF head >= tail THEN head - tail
                               ELSE head - tail + BUF_SIZE
        BY <1>0, FillValue
      <3> QED BY <3>1, <3>2, <2>1, <1>0, SizeAssumption DEF Slots
    <2> QED BY <2>1, <2>2, <1>0, <1>1
  <1> QED BY <1>2, <1>3

LEMMA RingStep == RingInv /\ [Next]_vars => RingInv'
  <1> SUFFICES ASSUME RingInv, [Next]_vars PROVE RingInv'
    OBVIOUS
  <1>0. /\ buffer \in [Slots -> Cell] /\ head \in Slots /\ tail \in Slots
        /\ pc \notin PushPCs
    BY DEF RingInv, TypeOK, Cell
  <1> USE DEF RingInv, TypeOK, PCs, PushPCs
  <1>1. CASE haskey
    BY <1>1 DEF haskey, ring, local
  <1>2. CASE hlt
    BY <1>2 DEF hlt, ring, local
  <1>3. CASE getchar_read
    <2>1. ch' \in Char \cup {None}
      BY <1>3, <1>0 DEF getchar_read, Cell
    <2> QED BY <1>3, <2>1 DEF getchar_read, ring
  <1>4. CASE getchar_advance
    <2>1. Succ(tail) \in Slots /\ Filled(buffer, head, Succ(tail))
      BY <1>4, <1>0, SuccValue, AdvanceRemoves DEF getchar_advance
    <2> QED BY <1>4, <2>1 DEF getchar_advance, local
  <1>5. CASE feed_char
    BY <1>5 DEF feed_char, LoopStart, ring, local
  <1>6. CASE usb_poll
    BY <1>6 DEF usb_poll, ring
  <1>7. ASSUME NEW sc \in Scancodes, keyboard_callback(sc)
        PROVE  RingInv'
    <2>1. /\ tail' = tail /\ ch' = ch /\ next' = next /\ at' = at
          /\ setup' = setup /\ report' = report /\ got' = got /\ IF_' = IF_
          /\ typed' \in Nat
      BY <1>7 DEF keyboard_callback, local
    <2>5. shift_down' \in BOOLEAN
      <3>1. shift_down' \in {TRUE, FALSE, shift_down}
        BY <1>7 DEF keyboard_callback
      <3> QED BY <3>1
    <2>2. /\ pc' \in PCs /\ pc' \notin PushPCs
          /\ pc' \in {"read", "advance"} => pc' = pc
      BY <1>7 DEF keyboard_callback, Woken
    <2>3. CASE sc \in Keys
      <3>1. <<sc, shift_down>> \in Char
        BY <2>3 DEF Char
      <3>2. buffer_push(<<sc, shift_down>>)
        BY <1>7, <2>3 DEF keyboard_callback
      <3>3. /\ buffer' \in [Slots -> Cell] /\ head' \in Slots /\ drops' \in Nat
            /\ Filled(buffer', head', tail')
            /\ head # tail => head' # tail' /\ buffer'[tail'] = buffer[tail]
        BY <2>1, <3>1, <3>2, IrqPush
      <3> QED BY <2>1, <2>2, <2>5, <3>3 DEF Cell
    <2>4. CASE sc \notin Keys
      BY <1>7, <2>1, <2>2, <2>5, <2>4 DEF keyboard_callback
    <2> QED BY <2>3, <2>4
  <1>8. CASE pit_callback
    BY <1>8 DEF pit_callback, Woken, ring, local
  <1>9. ASSUME NEW c \in Char, usb_report(c)
        PROVE  RingInv'
    BY <1>9 DEF usb_report
  <1>10. CASE push_next \/ push_test \/ push_load \/ push_store \/ push_head
    BY <1>10 DEF push_next, push_test, push_load, push_store, push_head
  <1>11. CASE UNCHANGED vars
    BY <1>11 DEF vars
  <1> QED BY <1>1, <1>2, <1>3, <1>4, <1>5, <1>6, <1>7, <1>8, <1>9, <1>10, <1>11
          DEF Next, Main

\* Each step of the ring is a step of the queue, or changes nothing of it.
LEMMA RefinesStep == RingInv /\ [Next]_vars => [Queue!Next]_(Queue!vars)
  <1> SUFFICES ASSUME RingInv, [Next]_vars
               PROVE  Queue!Next \/ UNCHANGED <<Contents, got, drops>>
    BY DEF Queue!vars
  <1>0. /\ buffer \in [Slots -> Cell] /\ head \in Slots /\ tail \in Slots
        /\ Filled(buffer, head, tail) /\ ~setup.usb /\ pc \notin PushPCs
    BY DEF RingInv, TypeOK, Cell
  <1>c. /\ Contents = Chars(buffer, head, tail)
        /\ Contents' = Chars(buffer', head', tail')
    BY ContentsIsChars DEF Contents, Count, Chars, Fill, Slot
  <1>u. UNCHANGED <<buffer, head, tail, got, drops>> =>
            UNCHANGED <<Contents, got, drops>>
    BY <1>c
  <1>1. CASE haskey \/ hlt \/ getchar_read \/ feed_char \/ usb_poll \/ pit_callback
    BY <1>1, <1>u
       DEF haskey, hlt, getchar_read, feed_char, usb_poll, pit_callback, ring
  <1>2. CASE getchar_advance
    <2>1. /\ head # tail /\ ch = buffer[tail] /\ got' = ch /\ drops' = drops
          /\ tail' = Succ(tail) /\ head' = head /\ buffer' = buffer
      BY <1>2 DEF getchar_advance, RingInv
    <2>2. /\ Contents # <<>> /\ Head(Contents) = buffer[tail]
          /\ Contents' = Tail(Contents)
      BY <1>0, <1>c, <2>1, AdvanceRemoves
    <2>3. Queue!Get
      BY <2>1, <2>2 DEF Queue!Get
    <2> QED BY <2>3 DEF Queue!Next
  <1>3. ASSUME NEW sc \in Scancodes, keyboard_callback(sc)
        PROVE  Queue!Next \/ UNCHANGED <<Contents, got, drops>>
    <2>1. CASE sc \in Keys
      <3>1. <<sc, shift_down>> \in Char
        BY <2>1 DEF Char, RingInv, TypeOK
      <3>2. buffer_push(<<sc, shift_down>>) /\ tail' = tail /\ got' = got
        BY <1>3, <2>1 DEF keyboard_callback
      <3>3. \/ /\ Len(Contents) < BUF_SIZE - 1
               /\ Contents' = Append(Contents, <<sc, shift_down>>)
               /\ drops' = drops
            \/ /\ Len(Contents) = BUF_SIZE - 1
               /\ Contents' = Contents
               /\ drops' = drops + 1
        BY <3>1, <3>2, IrqPush
      <3> QED BY <3>1, <3>2, <3>3 DEF Queue!Next, Queue!Put, Queue!Refuse
    <2>2. CASE sc \notin Keys
      BY <1>3, <2>2, <1>u DEF keyboard_callback
    <2> QED BY <2>1, <2>2
  <1>4. ASSUME NEW c \in Char, usb_report(c)
        PROVE  FALSE
    BY <1>4, <1>0 DEF usb_report
  <1>5. CASE push_next \/ push_test \/ push_load \/ push_store \/ push_head
    BY <1>5, <1>0
       DEF push_next, push_test, push_load, push_store, push_head, PushPCs
  <1>6. CASE UNCHANGED vars
    BY <1>6, <1>u DEF vars
  <1> QED BY <1>1, <1>2, <1>3, <1>4, <1>5, <1>6 DEF Next, Main

\* Without a USB keyboard the ring of keyboard.c implements the character
\* queue: nothing accepted is lost, duplicated or reordered, and a character
\* is dropped only when BUF_SIZE - 1 are pending.
THEOREM Ps2RingIsCharQueue ==
    ASSUME \A s \in Setups : ~s.usb
    PROVE  Spec => IsCharQueue
  <1>1. Init => Queue!Init
    <2> SUFFICES ASSUME Init PROVE Contents = <<>> /\ drops = 0
      BY DEF Queue!Init
    <2>1. 0 \in Slots /\ Fill(0, 0) = 0
      <3>1. 0 \in Slots
        BY SizeAssumption DEF Slots
      <3> QED BY <3>1, FillValue
    <2>2. Contents = Chars(buffer, 0, 0)
      BY ContentsIsChars DEF Init
    <2> QED BY <2>1, <2>2 DEF Chars, Init
  <1>2. Init => RingInv
    BY RingInit
  <1> QED BY <1>1, <1>2, RingStep, RefinesStep, PTL DEF Spec, IsCharQueue, Queue!Spec
=============================================================================
