-------------------------------- MODULE TtyProofs --------------------------------
(***************************************************************************)
(* Proofs about the console, the UART driver, the clock and the spinlocks  *)
(* under them (module Tty): for every number of CPUs, every size of the    *)
(* buffers and every scenario, acquire() never waits for its own CPU, no   *)
(* wakeup is missed, sleep() lasts long enough, and neither ring buffer    *)
(* loses, repeats or reorders a character.                                 *)
(***************************************************************************)
EXTENDS Tty, TLAPS

-----------------------------------------------------------------------------
(* Arithmetic of the indices.                                                *)

(* Quotient and remainder. *)
LEMMA DivMod ==
  \A a \in Int, d \in Nat \ {0} :
    a = (d * (a \div d)) + (a % d) /\ a \div d \in Int
  BY SMTT(30)

(* A remainder is a slot of the buffer. *)
LEMMA ModRange == \A a \in Int, d \in Nat \ {0} : a % d \in 0 .. d - 1
  BY SMTT(30)

(* The remainder is determined by being one. *)
LEMMA ModOf ==
  ASSUME NEW d \in Nat \ {0}, NEW q \in Int, NEW s \in 0 .. d - 1
  PROVE  ((d * q) + s) % d = s
  BY SMTT(30)

(* Adding a multiple of d leaves the remainder: an index that wraps around   *)
(* goes on in the same slots of the buffer.                                  *)
LEMMA ModShift ==
  ASSUME NEW a \in Int, NEW m \in Int, NEW d \in Nat \ {0}, m % d = 0
  PROVE  (a + m) % d = a % d
<1> DEFINE q == a \div d
           k == m \div d
           s == a % d
<1>1. a = (d * q) + s /\ q \in Int /\ m = (d * k) + 0 /\ k \in Int
  BY DivMod, Zenon
<1>2. s \in 0 .. d - 1
  BY ModRange, Zenon
<1> HIDE DEF q, k, s
<1>3. (d * q) + (d * k) = d * (q + k) /\ q + k \in Int
  BY <1>1, SMTT(30)
<1>4. a + m = (d * (q + k)) + s
  BY <1>1, <1>2, <1>3, SMTT(30)
<1>5. ((d * (q + k)) + s) % d = s
  BY <1>2, <1>3, ModOf, Zenon
<1> QED
  BY <1>4, <1>5, Zenon DEF s

(* Fewer than d apart, two indices have different slots: a full buffer       *)
(* overwrites nothing that waits.                                            *)
LEMMA ModApart ==
  ASSUME NEW a \in Int, NEW b \in Int, NEW d \in Nat \ {0}, a < b, b < a + d
  PROVE  a % d # b % d
<1> DEFINE q == a \div d
           k == b \div d
           s == a % d
<1>1. SUFFICES ASSUME a % d = b % d PROVE FALSE
  OBVIOUS
<1>2. a = (d * q) + s /\ q \in Int /\ b = (d * k) + s /\ k \in Int
  BY <1>1, DivMod, Zenon
<1>3. s \in Int
  BY ModRange, SMTT(30)
<1> HIDE DEF q, k, s
<1>4. b - a = d * (k - q)
  BY <1>2, <1>3, SMTT(30)
<1> DEFINE j == k - q
<1>5. j \in Int
  BY <1>2, SMTT(30)
<1>6. 0 < d * j /\ d * j < d
  BY <1>4, SMTT(30)
<1> HIDE DEF j
<1>7. CASE j <= 0
  BY <1>5, <1>6, <1>7, SMTT(30)
<1>8. CASE j >= 1
  BY <1>5, <1>6, <1>8, SMTT(30)
<1> QED
  BY <1>5, <1>7, <1>8, SMTT(30)

(* Unsigned subtraction of two indices. *)
LEMMA SubVal ==
  ASSUME NEW a \in 0 .. WRAP - 1, NEW b \in 0 .. WRAP - 1
  PROVE  /\ Sub(a, b) = IF a >= b THEN a - b ELSE a - b + WRAP
         /\ Sub(a, b) \in 0 .. WRAP - 1
  BY TtyAssumption, SMTT(30) DEF Sub

(* The next index. *)
LEMMA IncVal ==
  ASSUME NEW a \in 0 .. WRAP - 1
  PROVE  /\ Inc(a) = IF a = WRAP - 1 THEN 0 ELSE a + 1
         /\ Inc(a) \in 0 .. WRAP - 1
  BY TtyAssumption, SMTT(30) DEF Inc

(* One more at the end; one fewer at the front. *)
LEMMA SubInc ==
  ASSUME NEW a \in 0 .. WRAP - 1, NEW b \in 0 .. WRAP - 1
  PROVE  /\ Sub(b, a) < WRAP - 1 => Sub(Inc(b), a) = Sub(b, a) + 1
         /\ a # b => Sub(b, a) > 0 /\ Sub(b, Inc(a)) = Sub(b, a) - 1
<1>1. WRAP \in Nat /\ WRAP > 0
  BY TtyAssumption, SMTT(30)
<1>2. Sub(b, a) = IF b >= a THEN b - a ELSE b - a + WRAP
  BY SubVal, ZenonT(30)
<1>3. /\ Inc(b) = IF b = WRAP - 1 THEN 0 ELSE b + 1
      /\ Inc(a) = IF a = WRAP - 1 THEN 0 ELSE a + 1
      /\ Inc(a) \in 0 .. WRAP - 1 /\ Inc(b) \in 0 .. WRAP - 1
  BY IncVal, ZenonT(30)
<1>4. /\ Sub(Inc(b), a) = IF Inc(b) >= a THEN Inc(b) - a ELSE Inc(b) - a + WRAP
      /\ Sub(b, Inc(a)) = IF b >= Inc(a) THEN b - Inc(a) ELSE b - Inc(a) + WRAP
  BY <1>3, SubVal, ZenonT(30)
<1> QED
  BY <1>1, <1>2, <1>3, <1>4, SMTT(30)

(* The size of one of the two buffers. *)
Size(d) == d \in Nat \ {0} /\ WRAP % d = 0 /\ WRAP > d

(* The slot of the element k places after index a is that of the index that  *)
(* k increments make of a.                                                   *)
LEMMA SlotAfter ==
  ASSUME NEW d, Size(d), NEW a \in 0 .. WRAP - 1, NEW b \in 0 .. WRAP - 1
  PROVE  (a + Sub(b, a)) % d = b % d
<1>1. d \in Nat \ {0} /\ WRAP \in Nat /\ WRAP % d = 0
  BY TtyAssumption DEF Size
<1>2. CASE b >= a
  <2>1. a + Sub(b, a) = b
    BY <1>2, <1>1, SubVal, SMTT(30)
  <2> QED
    BY <2>1
<1>3. CASE ~ (b >= a)
  <2>1. a + Sub(b, a) = b + WRAP
    BY <1>3, <1>1, SubVal, SMTT(30)
  <2>2. b \in Int /\ WRAP \in Int
    BY <1>1, SMTT(30)
  <2>3. (b + WRAP) % d = b % d
    BY <1>1, <2>2, ModShift, Zenon
  <2> QED
    BY <2>1, <2>3
<1> QED
  BY <1>2, <1>3

(* After an increment of the first index, element i is what was i + 1. *)
LEMMA SlotNext ==
  ASSUME NEW d, Size(d), NEW a \in 0 .. WRAP - 1, NEW i \in Int
  PROVE  (Inc(a) + i - 1) % d = (a + (i + 1) - 1) % d
<1>1. d \in Nat \ {0} /\ WRAP \in Nat /\ WRAP % d = 0
  BY TtyAssumption DEF Size
<1>2. CASE a # WRAP - 1
  <2>1. Inc(a) + i - 1 = a + (i + 1) - 1
    BY <1>2, <1>1, IncVal, SMTT(30)
  <2> QED
    BY <2>1
<1>3. CASE a = WRAP - 1
  <2>1. a + (i + 1) - 1 = (Inc(a) + i - 1) + WRAP /\ Inc(a) + i - 1 \in Int /\ WRAP \in Int
    BY <1>3, <1>1, IncVal, SMTT(30)
  <2>3. ((Inc(a) + i - 1) + WRAP) % d = (Inc(a) + i - 1) % d
    BY <1>1, <2>1, ModShift, ZenonT(60)
  <2> QED
    BY <2>1, <2>3
<1> QED
  BY <1>2, <1>3

(* The slot an index points at is none of those before it in the buffer. *)
LEMMA SlotFree ==
  ASSUME NEW d, Size(d), NEW a \in 0 .. WRAP - 1, NEW b \in 0 .. WRAP - 1,
         Sub(b, a) < d, NEW i \in 1 .. Sub(b, a)
  PROVE  (a + i - 1) % d # b % d
<1>1. d \in Nat \ {0} /\ Sub(b, a) \in Nat
  BY SubVal, SMTT(30) DEF Size
<1>2. (a + i - 1) % d # (a + Sub(b, a)) % d
  <2> DEFINE x == a + i - 1
             y == a + Sub(b, a)
  <2>1. x \in Int /\ y \in Int /\ x < y /\ y < x + d
    BY <1>1, SMTT(30)
  <2> HIDE DEF x, y
  <2>2. x % d # y % d
    BY <2>1, <1>1, ModApart, Zenon
  <2> QED
    BY <2>2 DEF x, y
<1>3. (a + Sub(b, a)) % d = b % d
  BY SlotAfter
<1> QED
  BY <1>2, <1>3

-----------------------------------------------------------------------------
(* The inductive invariant.                                                  *)

Lock == {"cons", "tx", "time"}
Index == 0 .. WRAP - 1
Stage == {"user", "acquire", "spin", "locked", "doze", "asleep", "start", "wake", "thr", "exited"}
HStage == {"none", "get", "cons", "case", "echo", "wait", "put", "after", "tx", "send", "wake", "thr",
           "clock", "tick"}
Byte == Nat \ {0}

TypeLk ==
  /\ lk \in [Lock -> Cpu \union {Nil}] /\ noff \in [Cpu -> Int]
  /\ intena \in [Cpu -> BOOLEAN] /\ sie \in [Cpu -> BOOLEAN]
  /\ call \in [Cpu -> {"none", "read", "write", "sleep"}]
  /\ pc \in [Cpu -> Stage] /\ h \in [Cpu -> HStage]
TypeOut ==
  /\ txbuf \in [0 .. TXSIZE - 1 -> Byte \union {Nil}] /\ txr \in Index /\ txw \in Index
  /\ hand \in Seq(Byte) /\ fifo \in Seq(Nat) /\ written \in Seq(Byte) /\ sent \in Seq(Byte)
TypeIn ==
  /\ buf \in [0 .. SIZE - 1 -> Key \union {Nil}] /\ r \in Index /\ w \in Index /\ e \in Index
  /\ edited \in [done : Seq(Key), line : Seq(Key)] /\ got \in Seq(Key)
  /\ key \in [Cpu -> Key \union {Nil}]
TypeTime ==
  /\ n \in [Cpu -> Int] /\ from \in [Cpu -> 0 .. WRAP]
  /\ ticks \in Index /\ elapsed \in [Cpu -> Nat]
TypeEnv ==
  /\ rx \in Seq(Key)
  /\ todo \in [calls : [Cpu -> Seq(Calls)], keys : Seq(Key), ticks : Nat, now : Index,
               kill : SUBSET Cpu, bad : SUBSET Cpu]
TypeInv == TypeLk /\ TypeOut /\ TypeIn /\ TypeTime /\ TypeEnv

(* The stages between acquire() and release(), of a process and of a handler, *)
(* and those where a second push_off() is nested in the first.                *)
Sending == {"start", "wake", "thr"}
Busy == Sending \union {"locked", "doze"}
Inside == Busy \union {"spin"}
HHeld == [cons |-> {"case", "echo", "wait", "put", "after"}, tx |-> {"send", "wake", "thr"},
          time |-> {"tick"}]
HBusy == {"case", "echo", "wait", "put", "after", "send", "wake", "thr", "tick"}
HNested == {"wait", "put", "wake"}

Holds(c, l) == (pc[c] \in Busy /\ LockOf[call[c]] = l) \/ h[c] \in HHeld[l]

(* How deep the push_off()s of a CPU are nested. *)
Depth(c) ==
  IF pc[c] = "wake" \/ h[c] \in HNested THEN 2
  ELSE IF pc[c] \in Inside \/ h[c] \in HBusy THEN 1 ELSE 0

(* A CPU: a handler starts where interrupts are on, so never between a       *)
(* process's push_off() and pop_off().                                       *)
CpuInv(c) ==
  /\ h[c] # "none" => pc[c] \notin Inside
  /\ noff[c] = Depth(c)
  /\ sie[c] <=> (h[c] = "none" /\ noff[c] = 0)
  /\ pc[c] \in Inside => intena[c]
  /\ pc[c] \in Inside \union {"acquire", "asleep"} => call[c] # "none"
  /\ pc[c] \in Sending => call[c] = "write"

LockInv ==
  /\ \A c \in Cpu : CpuInv(c)
  /\ \A c \in Cpu, l \in Lock : lk[l] = c <=> Holds(c, l)

(* Who decided to sleep has reason to, from its test on. *)
Waits(c) ==
  /\ call[c] = "read" => r = w
  /\ call[c] = "write" => TxFull \/ Waking
  /\ call[c] = "sleep" => TooEarly(c)

SleepInv == \A c \in Cpu : pc[c] \in {"doze", "asleep"} => Waits(c)

(* A sleeper has counted at least the ticks since its ticks0. *)
TimeInv ==
  \A c \in Cpu : (call[c] = "sleep" /\ from[c] # Unset) => Sub(ticks, from[c]) <= elapsed[c]

(* Who has a byte in hand is in uartstart(), between taking it and writing it. *)
InHand == \E c \in Cpu : pc[c] \in {"wake", "thr"} \/ h[c] \in {"wake", "thr"}
HandInv == hand # <<>> => InHand

(* The transmitter: one byte of uartstart() at most is in the FIFO or in     *)
(* hand, and the bytes written are those sent, on the way and in the buffer. *)
OutInv ==
  /\ \A i, j \in Unsent : i = j
  /\ hand # <<>> => Unsent = {}
  /\ Len(hand) <= 1
  /\ Sub(txw, txr) <= TXSIZE
  /\ OutputInOrder

(* The handler of c is erasing: characters are gone from the buffer which     *)
(* line editing counts until the handler is done with its key.               *)
Erasing(c) ==
  \/ key[c] = "^U" /\ h[c] \in {"case", "echo", "wait", "put", "after"}
  \/ key[c] = "^H" /\ h[c] \in {"echo", "wait", "put", "after"}

(* The console: r, w and e follow each other within one turn of the buffer;  *)
(* what waits for the readers is the end of what was committed, and the rest *)
(* of the buffer starts the line being edited, which has no newline.         *)
ConsInv ==
  /\ Sub(e, r) <= SIZE /\ Sub(w, r) <= Sub(e, r)
  /\ got \o Ring(buf, SIZE, r, w) = edited.done
  /\ Sub(e, w) <= Len(edited.line)
  /\ \A i \in 1 .. Sub(e, w) : edited.line[i] = buf[(w + i - 1) % SIZE]
  /\ \A i \in 1 .. Len(edited.line) : edited.line[i] # "nl"

(* Outside the handling of ^H and ^U the buffer has the whole line; a         *)
(* character that is being echoed still has its room.                        *)
EditInv ==
  /\ \A c \in Cpu : (key[c] = "^H" /\ h[c] \in {"echo", "wait", "put", "after"})
                       => Len(edited.line) = Sub(e, w) + 1
  /\ (\A c \in Cpu : ~ Erasing(c)) => Len(edited.line) = Sub(e, w)
  /\ \A c \in Cpu : h[c] \in {"cons", "case", "echo", "wait", "put", "after"} => key[c] \in Key
  /\ \A c \in Cpu : (h[c] \in {"echo", "wait", "put", "after"} /\ key[c] \notin {"^H", "^U"}) => Room

InInv == ConsInv /\ EditInv

IInv == TypeInv /\ LockInv /\ SleepInv /\ TimeInv /\ HandInv /\ OutInv /\ InInv

-----------------------------------------------------------------------------
(* Most leaves are reasoning about sets; the ones that are not say so. *)
USE ZenonT(60)

(* Who touches the transmitter: uartputc() puts a byte, uartstart() takes one *)
(* and writes it, consputc() echoes, the device has sent.                     *)
LEMMA OutTouch ==
  ASSUME [Next]_vars
  PROVE  \/ UNCHANGED <<txbuf, txr, txw, hand, fifo, written, sent>>
         \/ \E c \in Cpu : WritePut(c) \/ Echo(c) \/ WriteStart(c) \/ IntrSend(c)
         \/ SendPut /\ UNCHANGED <<written, sent>>
         \/ DevSend
<1> DEFINE Same == UNCHANGED <<txbuf, txr, txw, hand, fifo, written, sent>>
           Goal == \/ Same
                   \/ \E c \in Cpu : WritePut(c) \/ Echo(c) \/ WriteStart(c) \/ IntrSend(c)
                   \/ SendPut /\ UNCHANGED <<written, sent>>
                   \/ DevSend
<1>1. ASSUME NEW c \in Cpu, Process(c) PROVE Goal
  <2>1. Enter(c) \/ Exit(c) \/ PushOff(c) \/ TakeLock(c) \/ Sleep(c) => Same
    BY DEF Enter, Exit, PushOff, TakeLock, Sleep, uart, hist
  <2>2. ReadEmpty(c) \/ ReadByte(c) \/ WriteFull(c) \/ SleepStart(c) \/ SleepTest(c) => Same
    BY DEF ReadEmpty, ReadByte, WriteFull, SleepStart, SleepTest, uart, hist
  <2>3. WriteThr(c) => SendPut /\ UNCHANGED <<written, sent>>
    BY DEF WriteThr, hist
  <2>4. WriteWake(c) \/ WriteDone(c) => Same
    BY DEF WriteWake, WriteDone, SendEnd, uart, hist
  <2> QED
    BY <1>1, <2>1, <2>2, <2>3, <2>4 DEF Process
<1>2. ASSUME NEW c \in Cpu, Handler(c) PROVE Goal
  <2>1. ASSUME NEW a, NEW l, NEW b, HTake(c, a, l, b) PROVE Same
    BY <2>1 DEF HTake, uart, hist
  <2>2. IntrGet(c) \/ IntrCase(c) \/ EchoOff(c) \/ EchoWait(c) \/ Tick(c) => Same
    BY DEF IntrGet, IntrCase, EchoOff, EchoWait, Tick, uart, hist
  <2>3. IntrErase(c) \/ IntrStore(c) => Same
    BY DEF IntrErase, IntrStore, uart
  <2>4. IntrThr(c) => SendPut /\ UNCHANGED <<written, sent>>
    BY DEF IntrThr, hist
  <2>5. IntrWake(c) \/ IntrDone(c) => Same
    BY DEF IntrWake, IntrDone, SendEnd, uart, hist
  <2> QED
    BY <1>2, <2>1, <2>2, <2>3, <2>4, <2>5 DEF Handler
<1>3. ASSUME NEW c \in Cpu, UartIntr(c) \/ ClockIntr(c) \/ Kill(c) PROVE Same
  BY <1>3 DEF UartIntr, ClockIntr, Kill, uart, hist
<1>4. Type => Same
  BY DEF Type, uart
<1>5. UNCHANGED vars => Same
  BY DEF vars, uart, hist
<1> QED
  BY <1>1, <1>2, <1>3, <1>4, <1>5 DEF Next

-----------------------------------------------------------------------------
(* Ring buffers read as sequences.                                           *)

(* Two sequences with the same elements are the same. *)
LEMMA SeqEq ==
  ASSUME NEW T, NEW s \in Seq(T), NEW t \in Seq(T), Len(s) = Len(t),
         \A i \in 1 .. Len(s) : s[i] = t[i]
  PROVE  s = t
  BY SMTT(30)

(* Appending to the second of two sequences appends to both. *)
AppendsBoth(s, t, x) == Append(s \o t, x) = s \o Append(t, x)

(* It is so for any two sequences. *)
LEMMA AppendCat ==
  ASSUME NEW T, NEW s \in Seq(T), NEW t \in Seq(T), NEW x \in T
  PROVE  AppendsBoth(s, t, x)
  BY SMTT(30) DEF AppendsBoth

(* s is what buffer f has from index a to b. *)
Reads(s, f, d, a, b) ==
  Len(s) = Sub(b, a) /\ \A i \in 1 .. Sub(b, a) : s[i] = f[(a + i - 1) % d]

(* The elements of a ring. *)
LEMMA RingElems ==
  ASSUME NEW d, Size(d), NEW a \in Index, NEW b \in Index, NEW T, NEW f \in [0 .. d - 1 -> T]
  PROVE  Ring(f, d, a, b) \in Seq(T) /\ Reads(Ring(f, d, a, b), f, d, a, b)
<1>1. Sub(b, a) \in Nat
  BY SubVal, SMTT(30) DEF Index
<1>2. ASSUME NEW i \in 1 .. Sub(b, a) PROVE f[(a + i - 1) % d] \in T
  <2>1. a + i - 1 \in Int
    BY SMTT(30) DEF Index
  <2>2. (a + i - 1) % d \in 0 .. d - 1
    BY <2>1, ModRange DEF Size
  <2> QED
    BY <2>2
<1>3. \A i \in 1 .. Sub(b, a) : Ring(f, d, a, b)[i] = f[(a + i - 1) % d]
  BY DEF Ring
<1> DEFINE k == Sub(b, a)
           g == Ring(f, d, a, b)
<1>4. g \in [1 .. k -> T]
  BY <1>2 DEF Ring
<1> HIDE DEF g, k
<1>5. k \in Nat
  BY <1>1 DEF k
<1>6. g \in Seq(T) /\ Len(g) = k
  BY <1>4, <1>5, SMTT(30)
<1> QED
  BY <1>3, <1>6 DEF g, k, Reads

(* Storing x at index b of buffer f puts it behind what is there. *)
PutsBehind(f, d, a, b, x) ==
  /\ Sub(Inc(b), a) = Sub(b, a) + 1
  /\ Ring([f EXCEPT ![b % d] = x], d, a, Inc(b)) = Append(Ring(f, d, a, b), x)

(* uartputc() and consoleintr() store at the end. *)
LEMMA RingPut ==
  ASSUME NEW d, Size(d), NEW a \in Index, NEW b \in Index, Sub(b, a) < d,
         NEW T, NEW f \in [0 .. d - 1 -> T], NEW x \in T
  PROVE  PutsBehind(f, d, a, b, x)
<1> DEFINE k == Sub(b, a)
           f2 == [f EXCEPT ![b % d] = x]
           s == Ring(f, d, a, b)
           t == Ring(f2, d, a, Inc(b))
<1>1. k \in Nat /\ Sub(Inc(b), a) = k + 1 /\ Inc(b) \in Index
  <2>1. Sub(b, a) \in 0 .. WRAP - 1 /\ Inc(b) \in Index
    BY SubVal, IncVal DEF Index
  <2>2. Sub(b, a) < WRAP - 1
    BY <2>1, TtyAssumption, SMTT(30) DEF Size
  <2>3. Sub(Inc(b), a) = Sub(b, a) + 1
    BY <2>2, SubInc DEF Index
  <2> QED
    BY <2>1, <2>3, SMTT(30)
<1>2. b % d \in 0 .. d - 1
  BY ModRange, SMTT(30) DEF Index, Size
<1>3. f2 \in [0 .. d - 1 -> T] /\ f2[b % d] = x /\ \A y \in 0 .. d - 1 : y # b % d => f2[y] = f[y]
  BY <1>2
<1>4. /\ s \in Seq(T) /\ Len(s) = k
      /\ \A i \in 1 .. k : s[i] = f[(a + i - 1) % d]
  <2>1. s \in Seq(T) /\ Reads(s, f, d, a, b)
    BY RingElems
  <2> HIDE DEF s
  <2> QED
    BY <2>1 DEF Reads
<1>5. /\ t \in Seq(T) /\ Len(t) = k + 1
      /\ \A i \in 1 .. k + 1 : t[i] = f2[(a + i - 1) % d]
  <2> DEFINE u == Inc(b)
  <2>1. u \in Index /\ f2 \in [0 .. d - 1 -> T]
    BY <1>1, <1>3
  <2> HIDE DEF f2, u, k
  <2>2. Ring(f2, d, a, u) \in Seq(T) /\ Reads(Ring(f2, d, a, u), f2, d, a, u)
    BY <2>1, RingElems
  <2> QED
    BY <1>1, <2>2 DEF u, Reads
<1>6. ASSUME NEW i \in 1 .. k PROVE t[i] = s[i]
  <2>1. (a + i - 1) % d # b % d
    BY SlotFree DEF Index
  <2>2. a + i - 1 \in Int /\ i \in 1 .. k + 1
    BY <1>1, SMTT(30) DEF Index
  <2>3. (a + i - 1) % d \in 0 .. d - 1
    BY <2>2, ModRange DEF Size
  <2> HIDE DEF k, f2, s, t
  <2>4. t[i] = f2[(a + i - 1) % d] /\ s[i] = f[(a + i - 1) % d]
    BY <1>4, <1>5, <2>2
  <2> QED
    BY <1>3, <2>1, <2>3, <2>4
<1>7. t[k + 1] = x
  <2>1. a + (k + 1) - 1 = a + k /\ k + 1 \in 1 .. k + 1
    BY <1>1, SMTT(30) DEF Index
  <2>2. (a + k) % d = b % d
    BY SlotAfter DEF Index
  <2> HIDE DEF k, f2, t
  <2> QED
    BY <1>3, <1>5, <2>1, <2>2
<1> HIDE DEF k, s, t, f2
<1>8. t = Append(s, x)
  BY <1>1, <1>4, <1>5, <1>6, <1>7, SMTT(30)
<1> QED
  BY <1>1, <1>8 DEF k, s, t, f2, PutsBehind

(* uartstart() and consoleread() take the first. *)
LEMMA RingTake ==
  ASSUME NEW d, Size(d), NEW a \in Index, NEW b \in Index, a # b,
         NEW T, NEW f \in [0 .. d - 1 -> T]
  PROVE  /\ Sub(b, Inc(a)) = Sub(b, a) - 1 /\ Sub(b, a) > 0
         /\ Ring(f, d, a, b) = <<f[a % d]>> \o Ring(f, d, Inc(a), b)
<1> DEFINE k == Sub(b, a)
           s == Ring(f, d, a, b)
           t == Ring(f, d, Inc(a), b)
<1>1. k \in Nat /\ k > 0 /\ Sub(b, Inc(a)) = k - 1 /\ Inc(a) \in Index
  <2>1. Sub(b, a) \in 0 .. WRAP - 1 /\ Inc(a) \in Index
    BY SubVal, IncVal DEF Index
  <2>2. Sub(b, a) > 0 /\ Sub(b, Inc(a)) = Sub(b, a) - 1
    BY SubInc DEF Index
  <2> QED
    BY <2>1, <2>2, SMTT(30)
<1>2. /\ s \in Seq(T) /\ Len(s) = k
      /\ \A i \in 1 .. k : s[i] = f[(a + i - 1) % d]
  <2>1. s \in Seq(T) /\ Reads(s, f, d, a, b)
    BY RingElems
  <2> HIDE DEF s
  <2> QED
    BY <2>1 DEF Reads
<1>3. /\ t \in Seq(T) /\ Len(t) = k - 1
      /\ \A i \in 1 .. k - 1 : t[i] = f[(Inc(a) + i - 1) % d]
  <2> DEFINE u == Inc(a)
  <2>1. u \in Index
    BY <1>1
  <2> HIDE DEF u, k
  <2>2. Ring(f, d, u, b) \in Seq(T) /\ Reads(Ring(f, d, u, b), f, d, u, b)
    BY <2>1, RingElems
  <2> QED
    BY <1>1, <2>2 DEF u, Reads
<1>4. ASSUME NEW i \in 1 .. k - 1 PROVE t[i] = s[i + 1]
  <2>1. i \in Int /\ i + 1 \in 1 .. k
    BY <1>1, SMTT(30)
  <2>2. (Inc(a) + i - 1) % d = (a + (i + 1) - 1) % d
    BY <2>1, SlotNext DEF Index
  <2> HIDE DEF k, s, t
  <2> QED
    BY <1>2, <1>3, <2>1, <2>2
<1>5. s[1] = f[a % d]
  <2>1. a + 1 - 1 = a /\ 1 \in 1 .. k
    BY <1>1, SMTT(30) DEF Index
  <2> HIDE DEF k, s
  <2> QED
    BY <1>2, <2>1
<1>6. s[1] \in T
  BY <1>1, <1>2, SMTT(30)
<1> DEFINE x == f[a % d]
<1> HIDE DEF k, s, t, x
<1>7. s = <<x>> \o t
  <2>1. x \in T /\ s[1] = x
    BY <1>5, <1>6 DEF x
  <2>2. <<x>> \o t \in Seq(T) /\ Len(<<x>> \o t) = k /\ (<<x>> \o t)[1] = x
    BY <1>1, <1>3, <2>1, SMTT(30)
  <2>3. \A i \in 1 .. k - 1 : (<<x>> \o t)[i + 1] = s[i + 1]
    BY <1>1, <1>3, <1>4, <2>1, SMTT(30)
  <2>4. \A i \in 1 .. k : i = 1 \/ (i - 1 \in 1 .. k - 1 /\ i = (i - 1) + 1)
    BY <1>1, SMTT(30)
  <2>5. \A i \in 1 .. k : (<<x>> \o t)[i] = s[i]
    BY <2>1, <2>2, <2>3, <2>4
  <2> QED
    BY <1>2, <2>2, <2>5, SeqEq
<1> QED
  BY <1>1, <1>7 DEF k, s, t, x

-----------------------------------------------------------------------------
(* The transmitter.                                                          *)

(* Both buffers have a size their indices can count in. *)
LEMMA Sizes == Size(SIZE) /\ Size(TXSIZE) /\ WRAP \in Nat /\ WRAP > 0
  BY TtyAssumption, SMTT(30) DEF Size

(* The byte in the FIFO, where there is one. *)
LEMMA WayIs ==
  /\ Unsent = {} => OnTheWay = <<>>
  /\ \A i \in Unsent : (\A j, k \in Unsent : j = k) => OnTheWay = <<fifo[i]>>
<1>1. Unsent = {} => OnTheWay = <<>>
  BY DEF OnTheWay
<1>2. ASSUME NEW i \in Unsent, \A j, k \in Unsent : j = k PROVE OnTheWay = <<fifo[i]>>
  <2> DEFINE x == CHOOSE k \in Unsent : TRUE
  <2>1. x \in Unsent /\ Unsent # {}
    BY <1>2
  <2>2. x = i
    BY <2>1, <1>2
  <2> HIDE DEF x
  <2>3. OnTheWay = <<fifo[x]>>
    BY <2>1 DEF OnTheWay, x
  <2> QED
    BY <2>2, <2>3
<1> QED
  BY <1>1, <1>2

(* The FIFO as it was has the same byte. *)
LEMMA WayKeeps ==
  ASSUME fifo' = fifo
  PROVE  Unsent' = Unsent /\ OnTheWay' = OnTheWay
<1>1. Unsent' = Unsent
  BY DEF Unsent
<1>2. CASE Unsent = {}
  <2>1. OnTheWay' = <<>>
    BY <1>1, <1>2 DEF OnTheWay
  <2> QED
    BY <2>1, <1>1, <1>2, WayIs
<1>3. CASE Unsent # {}
  <2> DEFINE x == CHOOSE i \in Unsent : TRUE
  <2>1. OnTheWay = <<fifo[x]>> /\ OnTheWay' = <<fifo'[x]>>
    BY <1>1, <1>3 DEF OnTheWay
  <2> HIDE DEF x
  <2> QED
    BY <1>1, <2>1
<1> QED
  BY <1>2, <1>3

(* What is in the FIFO. *)
LEMMA UnsentIs ==
  ASSUME TypeOut
  PROVE  /\ Len(fifo) \in Nat
         /\ \A i : i \in Unsent <=> i \in 1 .. Len(fifo) /\ fifo[i] # EchoMark
<1>1. fifo \in Seq(Nat)
  BY DEF TypeOut
<1>2. DOMAIN fifo = 1 .. Len(fifo) /\ Len(fifo) \in Nat
  BY <1>1, SMTT(30)
<1> QED
  BY <1>2 DEF Unsent

(* The byte in the FIFO is a byte written, not an echo. *)
LEMMA WayType ==
  ASSUME TypeOut
  PROVE  OnTheWay \in Seq(Byte)
<1>t. fifo \in Seq(Nat)
  BY DEF TypeOut
<1>1. CASE Unsent = {}
  <2>1. <<>> \in Seq(Byte)
    BY SMTT(30)
  <2> QED
    BY <1>1, <2>1, WayIs
<1>2. CASE Unsent # {}
  <2> DEFINE x == CHOOSE i \in Unsent : TRUE
             y == fifo[x]
  <2>1. x \in Unsent
    BY <1>2
  <2> HIDE DEF x
  <2>2. x \in 1 .. Len(fifo) /\ y # EchoMark
    BY <2>1, UnsentIs
  <2>3. y \in Byte
    BY <1>t, <2>2, SMTT(30) DEF Byte, EchoMark
  <2>4. OnTheWay = <<y>>
    BY <1>2 DEF OnTheWay, x
  <2> HIDE DEF y
  <2>5. <<y>> \in Seq(Byte)
    BY <2>3, SMTT(30)
  <2> QED
    BY <2>4, <2>5
<1> QED
  BY <1>1, <1>2

(* What has left the transmit buffer. *)
LEMMA FrontType ==
  ASSUME TypeOut
  PROVE  sent \o OnTheWay \o hand \in Seq(Nat)
<1>1. OnTheWay \in Seq(Byte) /\ sent \in Seq(Byte) /\ hand \in Seq(Byte)
  BY WayType DEF TypeOut
<1> QED
  BY <1>1, SMTT(30) DEF Byte

(* The next byte of the transmit buffer is the next one written. *)
LEMMA NextByte ==
  ASSUME TypeOut, OutInv, txr # txw
  PROVE  txbuf[txr % TXSIZE] \in Byte
<1> DEFINE ring == Ring(txbuf, TXSIZE, txr, txw)
           rest == Ring(txbuf, TXSIZE, Inc(txr), txw)
           x == txbuf[txr % TXSIZE]
           front == sent \o OnTheWay \o hand
           T == Byte \union {Nil}
<1>t. /\ txbuf \in [0 .. TXSIZE - 1 -> T] /\ txr \in Index /\ txw \in Index
      /\ written \in Seq(Byte)
  BY DEF TypeOut
<1>1. ring = <<x>> \o rest
  BY <1>t, Sizes, RingTake
<1>2. Inc(txr) \in Index
  BY <1>t, IncVal DEF Index
<1>3. rest \in Seq(T)
  BY <1>t, <1>2, Sizes, RingElems
<1>5. front \in Seq(Nat)
  BY FrontType
<1>6. front \o ring = written
  BY DEF OutInv, OutputInOrder
<1> HIDE DEF ring, rest, x, front
<1>7. Len(front) \in Nat /\ Len(written) = Len(front) + 1 + Len(rest) /\ Len(rest) \in Nat
  BY <1>1, <1>3, <1>5, <1>6, SMTT(30)
<1>8. written[Len(front) + 1] = x /\ Len(front) + 1 \in 1 .. Len(written)
  BY <1>1, <1>3, <1>5, <1>6, <1>7, SMTT(30)
<1>9. x \in Byte
  BY <1>8, <1>t, SMTT(30)
<1> QED
  BY <1>9 DEF x

(* The test of uartputc() for a full buffer, on the number of bytes in it. *)
LEMMA FullIs ==
  ASSUME TypeOut
  PROVE  TxFull <=> Sub(txw, txr) = TXSIZE
<1>1. txr \in 0 .. WRAP - 1 /\ txw \in 0 .. WRAP - 1
  BY DEF TypeOut, Index
<1>2. Sub(txw, txr) = IF txw >= txr THEN txw - txr ELSE txw - txr + WRAP
  BY <1>1, SubVal
<1>3. (txr + TXSIZE) % WRAP = IF txr + TXSIZE < WRAP THEN txr + TXSIZE ELSE txr + TXSIZE - WRAP
  BY <1>1, Sizes, SMTT(30) DEF Size
<1> QED
  BY <1>1, <1>2, <1>3, Sizes, SMTT(30) DEF Size, TxFull

(* uartputc() puts a byte behind the others. *)
LEMMA PutStep ==
  ASSUME TypeOut, OutInv, NEW c \in Cpu, WritePut(c)
  PROVE  TypeOut' /\ OutInv'
<1> DEFINE ring == Ring(txbuf, TXSIZE, txr, txw)
           byte == Len(written) + 1
           front == sent \o OnTheWay \o hand
           T == Byte \union {Nil}
<1>t. /\ txbuf \in [0 .. TXSIZE - 1 -> T] /\ txr \in Index /\ txw \in Index
      /\ fifo \in Seq(Nat) /\ written \in Seq(Byte) /\ sent \in Seq(Byte)
  BY DEF TypeOut
<1>c. /\ txbuf' = [txbuf EXCEPT ![txw % TXSIZE] = byte] /\ txw' = Inc(txw)
      /\ written' = Append(written, byte)
      /\ UNCHANGED <<txr, hand, fifo, sent>>
  BY DEF WritePut
<1>1. byte \in Byte
  BY <1>t, SMTT(30) DEF Byte
<1>2. Sub(txw, txr) < TXSIZE /\ Sub(txw, txr) \in Nat
  <2>1. Sub(txw, txr) # TXSIZE
    BY FullIs DEF WritePut
  <2>2. Sub(txw, txr) <= TXSIZE
    BY DEF OutInv
  <2>3. Sub(txw, txr) \in 0 .. WRAP - 1
    BY <1>t, SubVal DEF Index
  <2> QED
    BY <2>1, <2>2, <2>3, Sizes, SMTT(30) DEF Size
<1>3. /\ Sub(Inc(txw), txr) = Sub(txw, txr) + 1
      /\ Ring(txbuf', TXSIZE, txr, Inc(txw)) = Append(ring, byte)
  <2>1. byte \in T
    BY <1>1
  <2> HIDE DEF byte, T, ring
  <2>2. txbuf \in [0 .. TXSIZE - 1 -> T] /\ txr \in Index /\ txw \in Index /\ Sub(txw, txr) < TXSIZE
    BY <1>t, <1>2
  <2>3. PutsBehind(txbuf, TXSIZE, txr, txw, byte)
    BY <2>1, <2>2, Sizes, RingPut
  <2> QED
    BY <1>c, <2>3 DEF ring, PutsBehind
<1>4. TypeOut'
  <2>1. Inc(txw) \in Index
    BY <1>t, IncVal DEF Index
  <2>2. txbuf' \in [0 .. TXSIZE - 1 -> T]
    <3> HIDE DEF byte
    <3> QED
      BY <1>c, <1>t, <1>1
  <2>3. written' \in Seq(Byte)
    <3> HIDE DEF byte
    <3> QED
      BY <1>c, <1>t, <1>1, SMTT(30)
  <2> QED
    BY <1>c, <1>t, <2>1, <2>2, <2>3 DEF TypeOut
<1>5. front \o ring = written /\ UNCHANGED front
  BY <1>c, WayKeeps DEF OutInv, OutputInOrder
<1>6. front \in Seq(Nat) /\ ring \in Seq(T)
  <2>2. front \in Seq(Nat)
    BY FrontType
  <2>3. ring \in Seq(T)
    BY <1>t, Sizes, RingElems
  <2> QED
    BY <2>2, <2>3
<1>7. OutputInOrder'
  <2> HIDE DEF front, ring, byte
  <2>1. front \o Append(ring, byte) = Append(front \o ring, byte)
    BY <1>6, <1>1, SMTT(30)
  <2>2. front' \o Ring(txbuf', TXSIZE, txr', txw') = written'
    BY <2>1, <1>c, <1>3, <1>5
  <2> QED
    BY <2>2 DEF OutputInOrder, front
<1>8. (\A i, j \in Unsent' : i = j) /\ (hand' # <<>> => Unsent' = {}) /\ Len(hand') <= 1
  BY <1>c DEF OutInv, Unsent
<1>9. Sub(txw', txr') <= TXSIZE
  BY <1>c, <1>2, <1>3, Sizes, SMTT(30) DEF Size
<1> QED
  BY <1>4, <1>7, <1>8, <1>9 DEF OutInv

(* uartstart() takes the first byte out of the buffer. *)
LEMMA TakeByteStep ==
  ASSUME TypeOut, OutInv, NEW c \in Cpu, SendTake(c), hand = <<>>, UNCHANGED <<written, sent>>
  PROVE  TypeOut' /\ OutInv'
<1> DEFINE ring == Ring(txbuf, TXSIZE, txr, txw)
           rest == Ring(txbuf, TXSIZE, Inc(txr), txw)
           x == txbuf[txr % TXSIZE]
           T == Byte \union {Nil}
<1>t. /\ txbuf \in [0 .. TXSIZE - 1 -> T] /\ txr \in Index /\ txw \in Index
      /\ written \in Seq(Byte) /\ sent \in Seq(Byte)
  BY DEF TypeOut
<1>c. /\ txr # txw /\ fifo = <<>> /\ hand' = <<x>> /\ txr' = Inc(txr)
      /\ UNCHANGED <<txbuf, txw, fifo, written, sent>>
  BY DEF SendTake, CanSend
<1>1. x \in Byte
  BY <1>c, NextByte
<1>2. /\ Sub(txw, Inc(txr)) = Sub(txw, txr) - 1
      /\ ring = <<x>> \o rest
  BY <1>c, <1>t, Sizes, RingTake
<1>3. Inc(txr) \in Index
  BY <1>t, IncVal DEF Index
<1>4. rest \in Seq(T)
  BY <1>t, <1>3, Sizes, RingElems
<1> HIDE DEF x
<1>5. <<x>> \in Seq(Byte) /\ Len(<<x>>) = 1 /\ 1 <= 1
  BY <1>1, SMTT(30)
<1>6. TypeOut'
  BY <1>c, <1>3, <1>5 DEF TypeOut
<1>7. Unsent = {} /\ Unsent' = {}
  <2>1. \A i : i \notin 1 .. Len(fifo)
    BY <1>c, SMTT(30)
  <2>2. Unsent = {}
    BY <2>1, UnsentIs
  <2> QED
    BY <1>c, <2>2 DEF Unsent
<1>8. OnTheWay = <<>> /\ OnTheWay' = <<>>
  <2>1. OnTheWay' = OnTheWay
    BY <1>c, WayKeeps
  <2> QED
    BY <1>7, <2>1, WayIs
<1>9. OutputInOrder'
  <2> HIDE DEF ring, rest
  <2>1. ((sent \o <<>>) \o <<>>) \o ring = written
    BY <1>8 DEF OutInv, OutputInOrder, ring
  <2>2. ((sent \o <<>>) \o <<x>>) \o rest = ((sent \o <<>>) \o <<>>) \o (<<x>> \o rest)
    BY <1>1, <1>4, <1>t, SMTT(30)
  <2>3. ((sent \o <<>>) \o <<x>>) \o rest = written
    BY <1>2, <2>1, <2>2
  <2> QED
    BY <1>c, <1>8, <2>3 DEF OutputInOrder, rest
<1>10. Sub(txw', txr') <= TXSIZE
  <2>1. Sub(txw, txr) <= TXSIZE /\ Sub(txw, txr) \in 0 .. WRAP - 1
    BY <1>t, SubVal DEF OutInv, Index
  <2> QED
    BY <1>c, <1>2, <2>1, Sizes, SMTT(30) DEF Size
<1> QED
  BY <1>c, <1>5, <1>6, <1>7, <1>9, <1>10 DEF OutInv

(* Something goes behind what the FIFO has. *)
LEMMA FifoAppend ==
  ASSUME TypeOut, NEW x \in Nat, fifo' = Append(fifo, x)
  PROVE  /\ fifo' \in Seq(Nat)
         /\ Unsent' = IF x = EchoMark THEN Unsent ELSE Unsent \union {Len(fifo) + 1}
         /\ \A i \in Unsent : fifo'[i] = fifo[i]
         /\ fifo'[Len(fifo) + 1] = x
<1>t. fifo \in Seq(Nat)
  BY DEF TypeOut
<1>1. /\ fifo' \in Seq(Nat) /\ Len(fifo') = Len(fifo) + 1 /\ Len(fifo) \in Nat
      /\ fifo'[Len(fifo) + 1] = x /\ \A i \in 1 .. Len(fifo) : fifo'[i] = fifo[i]
      /\ DOMAIN fifo' = 1 .. Len(fifo')
  BY <1>t, SMTT(30)
<1>2. \A i : i \in 1 .. Len(fifo) + 1 <=> i \in 1 .. Len(fifo) \/ i = Len(fifo) + 1
  BY <1>1, SMTT(30)
<1>3. \A i : i \in Unsent' <=> i \in 1 .. Len(fifo') /\ fifo'[i] # EchoMark
  BY <1>1 DEF Unsent, EchoMark
<1>4. Len(fifo) + 1 \notin 1 .. Len(fifo)
  BY <1>1, SMTT(30)
<1>5. \A i : i \in Unsent' <=> i \in Unsent \/ (i = Len(fifo) + 1 /\ x # EchoMark)
  BY <1>1, <1>2, <1>3, <1>4, UnsentIs
<1>6. \A i \in Unsent : fifo'[i] = fifo[i]
  BY <1>1, UnsentIs
<1> QED
  BY <1>1, <1>5, <1>6

(* uartstart() writes the byte in hand to THR, behind any echo. *)
LEMMA PutThrStep ==
  ASSUME TypeOut, OutInv, SendPut, UNCHANGED <<written, sent>>
  PROVE  TypeOut' /\ OutInv'
<1>t. fifo \in Seq(Nat) /\ hand \in Seq(Byte) /\ sent \in Seq(Byte)
  BY DEF TypeOut
<1>c. fifo' = fifo \o hand /\ hand' = <<>> /\ UNCHANGED <<txbuf, txr, txw, written, sent>>
  BY DEF SendPut
<1>e. <<>> \in Seq(Byte) /\ Len(<<>>) <= 1
  BY SMTT(30)
<1>1. CASE hand = <<>>
  <2>1. fifo' = fifo
    BY <1>t, <1>c, <1>1, SMTT(30)
  <2> QED
    BY <2>1, <1>1, <1>c DEF TypeOut, OutInv, OutputInOrder, OnTheWay, Unsent
<1>2. CASE hand # <<>>
  <2> DEFINE x == hand[1]
  <2>1. hand = <<x>> /\ x \in Byte
    <3>1. Len(hand) <= 1
      BY DEF OutInv
    <3>0. Len(hand) # 0
      <4>1. <<>> \in Seq(Byte) /\ Len(<<>>) = 0 /\ \A i : i \notin 1 .. 0
        BY SMTT(30)
      <4> QED
        BY <1>t, <1>2, <4>1, SeqEq
    <3>2. Len(hand) = 1 /\ hand[1] \in Byte
      <4>1. Len(hand) \in Nat /\ \A i \in 1 .. Len(hand) : hand[i] \in Byte
        BY <1>t, SMTT(30)
      <4>2. Len(hand) = 1
        BY <3>0, <3>1, <4>1, SMTT(30)
      <4>3. 1 \in 1 .. 1
        BY SMTT(30)
      <4> QED
        BY <4>1, <4>2, <4>3
    <3>3. <<x>> \in Seq(Byte) /\ Len(<<x>>) = 1 /\ <<x>>[1] = x
      BY <3>2, SMTT(30)
    <3>4. \A i \in 1 .. 1 : i = 1
      BY SMTT(30)
    <3>5. \A i \in 1 .. Len(hand) : hand[i] = <<x>>[i]
      BY <3>2, <3>3, <3>4
    <3> QED
      BY <1>t, <3>2, <3>3, <3>5, SeqEq
  <2> HIDE DEF x
  <2>2. x \in Nat /\ x # EchoMark /\ fifo \o <<x>> = Append(fifo, x)
    BY <1>t, <2>1, SMTT(30) DEF Byte, EchoMark
  <2>3. fifo' = Append(fifo, x)
    BY <1>c, <2>1, <2>2
  <2>4. Unsent = {}
    BY <1>2 DEF OutInv
  <2> DEFINE k == Len(fifo) + 1
  <2>5. fifo' \in Seq(Nat) /\ Unsent' = {k} /\ fifo'[k] = x
    BY <2>2, <2>3, <2>4, FifoAppend
  <2> HIDE DEF k
  <2>6. OnTheWay = <<>>
    BY <2>4, WayIs
  <2>7. OnTheWay' = <<x>>
    <3>1. (CHOOSE i \in {k} : TRUE) = k
      OBVIOUS
    <3> QED
      BY <2>5, <3>1 DEF OnTheWay
  <2>8. (sent \o <<x>>) \o <<>> = (sent \o <<>>) \o <<x>>
    BY <1>t, <2>1, SMTT(30)
  <2>9. OutputInOrder'
    BY <1>c, <2>1, <2>6, <2>7, <2>8 DEF OutInv, OutputInOrder
  <2>10. TypeOut'
    BY <1>c, <1>e, <2>5 DEF TypeOut
  <2> QED
    BY <1>c, <1>e, <2>5, <2>9, <2>10 DEF OutInv
<1> QED
  BY <1>1, <1>2

(* An echo goes to the FIFO, before or behind the byte on its way. *)
LEMMA EchoStep ==
  ASSUME TypeOut, OutInv, NEW c \in Cpu, Echo(c)
  PROVE  TypeOut' /\ OutInv'
<1>c. fifo' = Append(fifo, EchoMark) /\ UNCHANGED <<txbuf, txr, txw, hand, written, sent>>
  BY DEF Echo, hist
<1>0. EchoMark \in Nat
  BY SMTT(30) DEF EchoMark
<1>1. fifo' \in Seq(Nat) /\ Unsent' = Unsent /\ \A i \in Unsent : fifo'[i] = fifo[i]
  BY <1>0, <1>c, FifoAppend
<1>2. OnTheWay' = OnTheWay
  <2>1. CASE Unsent = {}
    BY <1>1, <2>1 DEF OnTheWay
  <2>2. CASE Unsent # {}
    <3> DEFINE x == CHOOSE i \in Unsent : TRUE
    <3>1. x \in Unsent
      BY <2>2
    <3>2. OnTheWay = <<fifo[x]>> /\ OnTheWay' = <<fifo'[x]>>
      BY <1>1, <2>2 DEF OnTheWay
    <3> HIDE DEF x
    <3> QED
      BY <1>1, <3>1, <3>2
  <2> QED
    BY <2>1, <2>2
<1>3. TypeOut'
  BY <1>1, <1>c DEF TypeOut
<1> QED
  BY <1>1, <1>2, <1>3, <1>c DEF OutInv, OutputInOrder

(* What the device has sent is the next byte written, or an echo. *)
LEMMA DevSendStep ==
  ASSUME TypeOut, OutInv, DevSend
  PROVE  TypeOut' /\ OutInv'
<1>t. fifo \in Seq(Nat) /\ sent \in Seq(Byte) /\ hand \in Seq(Byte)
  BY DEF TypeOut
<1>c. /\ fifo # <<>> /\ fifo' = Tail(fifo)
      /\ sent' = IF Head(fifo) = EchoMark THEN sent ELSE Append(sent, Head(fifo))
      /\ UNCHANGED <<txbuf, txr, txw, hand, written>>
  BY DEF DevSend
<1>1. /\ Len(fifo) \in Nat /\ Len(fifo) >= 1 /\ Head(fifo) = fifo[1] /\ Head(fifo) \in Nat
      /\ fifo' \in Seq(Nat) /\ Len(fifo') = Len(fifo) - 1 /\ DOMAIN fifo' = 1 .. Len(fifo) - 1
      /\ \A i \in 1 .. Len(fifo) - 1 : fifo'[i] = fifo[i + 1]
  BY <1>c, <1>t, SMTT(30)
<1>2. /\ 1 \in 1 .. Len(fifo)
      /\ \A i \in 1 .. Len(fifo) - 1 : i + 1 \in 1 .. Len(fifo) /\ i + 1 # 1
      /\ \A i \in 1 .. Len(fifo) : i = 1 \/ (i - 1 \in 1 .. Len(fifo) - 1 /\ (i - 1) + 1 = i)
      /\ \A i, j \in 1 .. Len(fifo) - 1 : i + 1 = j + 1 => i = j
  BY <1>1, SMTT(30)
<1>3. \A i : i \in Unsent' <=> i \in 1 .. Len(fifo) - 1 /\ fifo'[i] # EchoMark
  BY <1>1 DEF Unsent, EchoMark
<1>4. \A i \in Unsent' : i \in 1 .. Len(fifo) - 1 /\ i + 1 \in Unsent /\ fifo'[i] = fifo[i + 1]
  BY <1>1, <1>2, <1>3, UnsentIs
<1>5. \A i, j \in Unsent' : i = j
  <2> SUFFICES ASSUME NEW i \in Unsent', NEW j \in Unsent' PROVE i = j
    OBVIOUS
  <2>1. i + 1 = j + 1
    BY <1>4 DEF OutInv
  <2> QED
    BY <1>2, <1>4, <2>1
<1>6. hand' # <<>> => Unsent' = {}
  BY <1>c, <1>4 DEF OutInv
<1>7. CASE Head(fifo) = EchoMark
  <2>1. sent' = sent
    BY <1>7, <1>c
  <2>2. ASSUME NEW i \in Unsent PROVE OnTheWay' = OnTheWay
    <3> DEFINE k == i - 1
    <3>1. i \in 1 .. Len(fifo) /\ i # 1 /\ fifo[i] # EchoMark
      BY <1>1, <1>7, <2>2, UnsentIs
    <3>2. k \in 1 .. Len(fifo) - 1 /\ k + 1 = i
      BY <1>2, <3>1
    <3> HIDE DEF k
    <3>3. fifo'[k] = fifo[i] /\ k \in Unsent'
      BY <1>1, <1>3, <3>1, <3>2
    <3>4. OnTheWay = <<fifo[i]>>
      BY <2>2, WayIs DEF OutInv
    <3>5. OnTheWay' = <<fifo'[k]>>
      <4> DEFINE x == CHOOSE j \in Unsent' : TRUE
      <4>1. x \in Unsent'
        BY <3>3
      <4>2. x = k
        BY <1>5, <3>3, <4>1
      <4>3. OnTheWay' = <<fifo'[x]>>
        BY <3>3 DEF OnTheWay
      <4> HIDE DEF x
      <4> QED
        BY <4>2, <4>3
    <3> QED
      BY <3>3, <3>4, <3>5
  <2>3. ASSUME Unsent = {} PROVE OnTheWay' = OnTheWay
    <3>1. Unsent' = {}
      BY <1>4, <2>3
    <3>2. OnTheWay' = <<>>
      BY <3>1 DEF OnTheWay
    <3> QED
      BY <2>3, <3>2, WayIs
  <2>4. OnTheWay' = OnTheWay
    <3>1. CASE Unsent # {}
      <4>1. PICK i \in Unsent : TRUE
        BY <3>1
      <4> QED
        BY <4>1, <2>2
    <3> QED
      BY <3>1, <2>3
  <2> QED
    BY <2>1, <2>4, <1>c, <1>1, <1>5, <1>6 DEF TypeOut, OutInv, OutputInOrder
<1>8. CASE Head(fifo) # EchoMark
  <2>1. 1 \in Unsent
    BY <1>1, <1>2, <1>8, UnsentIs
  <2>2. Unsent' = {}
    <3>1. \A i \in Unsent' : i + 1 = 1 /\ i + 1 # 1
      BY <1>2, <1>4, <2>1 DEF OutInv
    <3> QED
      BY <3>1
  <2>3. OnTheWay' = <<>>
    BY <2>2 DEF OnTheWay
  <2>4. OnTheWay = <<Head(fifo)>> /\ sent' = Append(sent, Head(fifo))
    BY <1>1, <1>8, <1>c, <2>1, WayIs DEF OutInv
  <2>5. Head(fifo) \in Byte
    BY <1>8, <1>1, SMTT(30) DEF Byte, EchoMark
  <2> DEFINE x == Head(fifo)
  <2> HIDE DEF x
  <2>6. x \in Byte
    BY <2>5 DEF x
  <2>7. Append(sent, x) \o <<>> = sent \o <<x>> /\ Append(sent, x) \in Seq(Byte)
    BY <2>6, <1>t, SMTT(30)
  <2>8. sent' \o OnTheWay' = sent \o OnTheWay /\ sent' \in Seq(Byte)
    BY <2>3, <2>4, <2>7 DEF x
  <2>9. OutputInOrder'
    BY <2>8, <1>c DEF OutInv, OutputInOrder
  <2> QED
    BY <2>8, <2>9, <1>c, <1>1, <1>5, <1>6 DEF TypeOut, OutInv
<1> QED
  BY <1>7, <1>8

(* The transmitter's part of the invariant is preserved, uartstart() taking  *)
(* a byte only when it has none.                                             *)
LEMMA OutStep ==
  ASSUME TypeOut, OutInv, [Next]_vars,
         \A c \in Cpu : WriteStart(c) \/ IntrSend(c) => hand = <<>>
  PROVE  TypeOut' /\ OutInv'
<1>1. UNCHANGED <<txbuf, txr, txw, hand, fifo, written, sent>> => TypeOut' /\ OutInv'
  BY DEF TypeOut, OutInv, OutputInOrder, OnTheWay, Unsent
<1>2. ASSUME NEW c \in Cpu, WriteStart(c) \/ IntrSend(c) PROVE TypeOut' /\ OutInv'
  <2>1. SendTake(c) /\ UNCHANGED <<written, sent>>
    BY <1>2 DEF WriteStart, IntrSend, hist
  <2> QED
    BY <1>2, <2>1, TakeByteStep
<1> QED
  BY <1>1, <1>2, OutTouch, PutStep, PutThrStep, EchoStep, DevSendStep

-----------------------------------------------------------------------------
(* Locks and interrupts.                                                     *)

(* The lock of each call, and the stages at which a handler has each lock. *)
LEMMA LockTable ==
  /\ LockOf["read"] = "cons" /\ LockOf["write"] = "tx" /\ LockOf["sleep"] = "time"
  /\ HHeld["cons"] = {"case", "echo", "wait", "put", "after"}
  /\ HHeld["tx"] = {"send", "wake", "thr"} /\ HHeld["time"] = {"tick"}
  BY SMTT(30) DEF LockOf, HHeld

LEMMA LockOfCall ==
  ASSUME TypeLk, NEW c \in Cpu, call[c] # "none"
  PROVE  LockOf[call[c]] \in Lock
<1>1. call[c] \in {"none", "read", "write", "sleep"}
  BY DEF TypeLk
<1> QED
  BY <1>1, LockTable DEF Lock

(* A handler has a lock at the stages of HBusy. *)
LEMMA HBusyIs == \A s : s \in HBusy <=> \E l \in Lock : s \in HHeld[l]
  BY LockTable DEF HBusy, Lock

(* The stages of uartstart() are among those where a process is busy. *)
LEMMA SendingIs == \A s : s \in Sending => s \in Busy /\ s \in Inside
  BY DEF Busy, Inside

(* How deep the push_off()s are nested where none is nested in another. *)
LEMMA DepthFlat ==
  ASSUME NEW c, pc[c] # "wake", h[c] \notin HNested
  PROVE  Depth(c) = IF pc[c] \in Inside \/ h[c] \in HBusy THEN 1 ELSE 0
  BY DEF Depth

(* CPU d goes on without taking or giving back a lock. *)
GoesOn(d) ==
  /\ pc'[d] \in Inside <=> pc[d] \in Inside
  /\ pc'[d] \in Busy <=> pc[d] \in Busy
  /\ pc[d] \in Busy => call'[d] = call[d]
  /\ pc'[d] \in Inside \union {"acquire", "asleep"} => call'[d] # "none"
  /\ pc'[d] \in Sending => call'[d] = "write"
  /\ pc'[d] = "wake" <=> pc[d] = "wake"
  /\ h'[d] = "none" <=> h[d] = "none"
  /\ h'[d] \in HNested <=> h[d] \in HNested
  /\ \A l \in Lock : h'[d] \in HHeld[l] <=> h[d] \in HHeld[l]

Stays == UNCHANGED locks /\ TypeLk' /\ \A d \in Cpu : GoesOn(d)

(* The other CPUs, of which a wakeup() may make a sleeper runnable. *)
Others(c) ==
  \A d \in Cpu \ {c} :
    /\ UNCHANGED <<h[d], call[d], noff[d], intena[d], sie[d]>>
    /\ pc'[d] = pc[d] \/ (pc[d] = "asleep" /\ pc'[d] = "acquire")

(* A process at the end of its critical section. *)
ProcRelease(c) ==
  /\ pc[c] \in Busy \ {"wake"} /\ h[c] = "none"
  /\ release(c, LockOf[call[c]])
  /\ \E l \in {"user", "acquire"} : Goto(c, l)
  /\ UNCHANGED <<call, h>>

(* A handler at the end of its critical section, and possibly of itself. *)
HandlerRelease(c) ==
  /\ \E l \in Lock : h[c] \in HHeld[l] /\ HRelease(c, l)
  /\ h[c] \notin HNested
  /\ \/ HGoto(c, "get") /\ UNCHANGED sie
     \/ HGoto(c, "none") /\ sie' = [sie EXCEPT ![c] = TRUE]
  /\ \E what : pc' = pc \/ pc' = Wakeup(what)
  /\ UNCHANGED call

(* push_off() and pop_off() under a lock: wakeup() of the writers for its     *)
(* p->lock, and uartputc_sync().                                             *)
ProcNest(c) ==
  /\ pc[c] = "start" /\ h[c] = "none" /\ call[c] = "write"
  /\ push_off(c) /\ Goto(c, "wake")
  /\ UNCHANGED <<lk, call, h>>

ProcUnnest(c) ==
  /\ pc[c] = "wake" /\ h[c] = "none"
  /\ pop_off(c) /\ pc' = [Wakeup("write") EXCEPT ![c] = "thr"]
  /\ UNCHANGED <<lk, call, h>>

HandlerNest(c) ==
  /\ (h[c] = "echo" /\ HGoto(c, "wait")) \/ (h[c] = "send" /\ HGoto(c, "wake"))
  /\ push_off(c)
  /\ UNCHANGED <<lk, call, pc>>

HandlerUnnest(c) ==
  /\ (h[c] = "put" /\ HGoto(c, "after")) \/ (h[c] = "wake" /\ HGoto(c, "thr"))
  /\ pop_off(c)
  /\ \E what : pc' = pc \/ pc' = Wakeup(what)
  /\ UNCHANGED <<lk, call>>

(* A handler that takes its lock. *)
HandlerTake(c) ==
  \/ HTake(c, "cons", "cons", "case") \/ HTake(c, "tx", "tx", "send")
  \/ HTake(c, "clock", "time", "tick")

(* A step of a CPU that leaves the others alone preserves the invariant if   *)
(* it does so for that CPU.                                                  *)
LEMMA LockLocal ==
  ASSUME LockInv, NEW c \in Cpu, Others(c), CpuInv(c)',
         \A l \in Lock : lk'[l] = c <=> Holds(c, l)',
         \A l \in Lock : lk'[l] = lk[l] \/ (lk[l] \in {c, Nil} /\ lk'[l] \in {c, Nil})
  PROVE  LockInv'
<1>1. ASSUME NEW d \in Cpu \ {c} PROVE CpuInv(d)' /\ \A l \in Lock : lk'[l] = d <=> Holds(d, l)'
  <2>1. /\ h'[d] = h[d] /\ call'[d] = call[d] /\ noff'[d] = noff[d]
        /\ intena'[d] = intena[d] /\ sie'[d] = sie[d]
        /\ pc'[d] = pc[d] \/ (pc[d] = "asleep" /\ pc'[d] = "acquire")
    BY <1>1 DEF Others
  <2>2. CpuInv(d) /\ \A l \in Lock : lk[l] = d <=> Holds(d, l)
    BY DEF LockInv
  <2>3. /\ pc'[d] \in Inside <=> pc[d] \in Inside
        /\ pc'[d] \in Busy <=> pc[d] \in Busy
        /\ pc'[d] \in Sending <=> pc[d] \in Sending
        /\ pc'[d] = "wake" <=> pc[d] = "wake"
        /\ pc'[d] \in Inside \union {"acquire", "asleep"} <=> pc[d] \in Inside \union {"acquire", "asleep"}
    BY <2>1 DEF Inside, Busy, Sending
  <2>d. Depth(d)' = Depth(d)
    BY <2>1, <2>3 DEF Depth
  <2>4. CpuInv(d)'
    BY <2>1, <2>2, <2>3, <2>d DEF CpuInv
  <2>5. \A l \in Lock : Holds(d, l)' <=> Holds(d, l)
    BY <2>1, <2>3 DEF Holds
  <2>n. d # Nil /\ d # c
    BY <1>1, TtyAssumption
  <2>6. ASSUME NEW l \in Lock PROVE lk'[l] = d <=> lk[l] = d
    <3>1. lk'[l] = lk[l] \/ (lk[l] \in {c, Nil} /\ lk'[l] \in {c, Nil})
      OBVIOUS
    <3> QED
      BY <3>1, <2>n
  <2> QED
    BY <2>2, <2>4, <2>5, <2>6
<1>2. \A d \in Cpu : CpuInv(d)'
  BY <1>1
<1>3. \A d \in Cpu, l \in Lock : lk'[l] = d <=> Holds(d, l)'
  <2> SUFFICES ASSUME NEW d \in Cpu PROVE \A l \in Lock : lk'[l] = d <=> Holds(d, l)'
    OBVIOUS
  <2> QED
    BY <1>1
<1> QED
  BY <1>2, <1>3 DEF LockInv

(* Between acquire() and release() nothing about locks changes. *)
LEMMA StaysStep ==
  ASSUME LockInv, Stays
  PROVE  LockInv' /\ TypeLk'
<1>u. UNCHANGED <<lk, noff, intena, sie>>
  BY DEF Stays, locks
<1>1. ASSUME NEW d \in Cpu PROVE CpuInv(d)' /\ \A l \in Lock : Holds(d, l)' <=> Holds(d, l)
  <2>1. GoesOn(d) /\ CpuInv(d)
    BY DEF Stays, LockInv
  <2>2. h'[d] \in HBusy <=> h[d] \in HBusy
    BY <2>1, HBusyIs DEF GoesOn
  <2>d. Depth(d)' = Depth(d)
    BY <2>1, <2>2 DEF GoesOn, Depth
  <2>3. CpuInv(d)'
    BY <1>u, <2>1, <2>2, <2>d DEF GoesOn, CpuInv
  <2>4. \A l \in Lock : Holds(d, l)' <=> Holds(d, l)
    BY <2>1 DEF GoesOn, Holds
  <2> QED
    BY <2>3, <2>4
<1> QED
  BY <1>1, <1>u DEF LockInv, Stays

(* acquire() turns interrupts off before it spins. *)
LEMMA PushOffStep ==
  ASSUME TypeLk, LockInv, NEW c \in Cpu, PushOff(c)
  PROVE  TypeLk' /\ LockInv'
<1>t. /\ noff \in [Cpu -> Int] /\ intena \in [Cpu -> BOOLEAN] /\ sie \in [Cpu -> BOOLEAN]
      /\ pc \in [Cpu -> Stage]
  BY DEF TypeLk
<1>i. CpuInv(c) /\ \A l \in Lock : lk[l] = c <=> Holds(c, l)
  BY DEF LockInv
<1>a. /\ pc[c] = "acquire" /\ h[c] = "none"
      /\ UNCHANGED <<lk, call, h>> /\ pc' = [pc EXCEPT ![c] = "spin"]
  BY DEF PushOff, Quiet, Goto
<1>1. noff[c] = 0 /\ sie[c]
  <2>1. Depth(c) = 0
    BY <1>a, DepthFlat DEF Inside, Busy, Sending, HBusy, HNested
  <2> QED
    BY <1>a, <1>i, <2>1 DEF CpuInv
<1>2. /\ noff' = [noff EXCEPT ![c] = 1] /\ intena' = [intena EXCEPT ![c] = sie[c]]
      /\ sie' = [sie EXCEPT ![c] = FALSE]
  BY <1>1, <1>t, SMTT(30) DEF PushOff, push_off
<1>3. TypeLk'
  <2>1. noff' \in [Cpu -> Int]
    BY <1>2, <1>t, SMTT(30)
  <2>2. /\ intena' \in [Cpu -> BOOLEAN] /\ sie' \in [Cpu -> BOOLEAN] /\ pc' \in [Cpu -> Stage]
    BY <1>a, <1>2, <1>t DEF Stage
  <2> QED
    BY <2>1, <2>2, <1>a DEF TypeLk
<1>4. /\ pc'[c] = "spin" /\ h'[c] = "none" /\ call'[c] = call[c] /\ noff'[c] = 1
      /\ intena'[c] = TRUE /\ sie'[c] = FALSE
  BY <1>a, <1>1, <1>2, <1>t
<1>5. Others(c)
  BY <1>a, <1>2, <1>t DEF Others
<1>6. CpuInv(c)'
  <2>1. call[c] # "none"
    BY <1>a, <1>i DEF CpuInv
  <2>2. noff'[c] # 0
    BY <1>4, SMTT(30)
  <2>3. pc'[c] \in Inside /\ pc'[c] \notin Sending /\ pc'[c] # "wake" /\ h'[c] \notin HNested
    BY <1>4 DEF Inside, Sending, HNested
  <2>4. Depth(c)' = 1
    BY <2>3 DEF Depth
  <2> QED
    BY <1>4, <2>1, <2>2, <2>3, <2>4 DEF CpuInv
<1>7. \A l \in Lock : lk'[l] = c <=> Holds(c, l)'
  BY <1>a, <1>4, <1>i DEF Holds, Busy, Sending
<1> QED
  BY <1>3, <1>5, <1>6, <1>7, <1>a, LockLocal

(* The lock is taken with interrupts off. *)
LEMMA TakeLockStep ==
  ASSUME TypeLk, LockInv, NEW c \in Cpu, TakeLock(c)
  PROVE  TypeLk' /\ LockInv'
<1> DEFINE k == LockOf[call[c]]
<1>t. lk \in [Lock -> Cpu \union {Nil}] /\ pc \in [Cpu -> Stage]
  BY DEF TypeLk
<1>i. CpuInv(c) /\ \A l \in Lock : lk[l] = c <=> Holds(c, l)
  BY DEF LockInv
<1>a. /\ pc[c] = "spin" /\ h[c] = "none" /\ lk[k] = Nil /\ lk' = [lk EXCEPT ![k] = c]
      /\ UNCHANGED <<noff, intena, sie, call, h>> /\ pc' = [pc EXCEPT ![c] = "locked"]
  BY DEF TakeLock, Quiet, Goto
<1>1. call[c] # "none" /\ k \in Lock
  BY <1>a, <1>i, LockOfCall DEF CpuInv, Inside
<1> HIDE DEF k
<1>2. TypeLk'
  <2>1. lk' \in [Lock -> Cpu \union {Nil}] /\ pc' \in [Cpu -> Stage]
    BY <1>a, <1>t DEF Stage
  <2> QED
    BY <2>1, <1>a DEF TypeLk
<1>3. /\ pc'[c] = "locked" /\ h'[c] = "none" /\ call'[c] = call[c]
      /\ lk'[k] = c /\ \A l \in Lock : l # k => lk'[l] = lk[l]
  BY <1>a, <1>1, <1>t
<1>4. Others(c)
  BY <1>a, <1>t DEF Others
<1>5. CpuInv(c)'
  <2>1. /\ pc'[c] \in Inside /\ pc'[c] \notin Sending /\ pc'[c] # "wake" /\ pc[c] \in Inside
        /\ pc[c] # "wake"
    BY <1>a, <1>3 DEF Inside, Busy, Sending
  <2>2. Depth(c)' = Depth(c)
    BY <1>a, <1>3, <2>1 DEF Depth
  <2> QED
    BY <1>a, <1>3, <1>i, <2>1, <2>2 DEF CpuInv
<1>6. ASSUME NEW l \in Lock PROVE lk'[l] = c <=> Holds(c, l)'
  <2>1. Holds(c, l)' <=> l = k
    BY <1>3, LockTable DEF Holds, Busy, Lock, k
  <2>2. lk[l] # c
    BY <1>a, <1>i, LockTable DEF Holds, Busy, Sending, Lock
  <2> QED
    BY <2>1, <2>2, <1>3
<1>7. \A l \in Lock : lk'[l] = lk[l] \/ (lk[l] \in {c, Nil} /\ lk'[l] \in {c, Nil})
  BY <1>3, <1>a
<1> QED
  BY <1>2, <1>4, <1>5, <1>6, <1>7, LockLocal

(* sleep() leaves the CPU without a lock and with interrupts on. *)
LEMMA SleepStep ==
  ASSUME TypeLk, LockInv, NEW c \in Cpu, Sleep(c)
  PROVE  TypeLk' /\ LockInv'
<1> DEFINE k == LockOf[call[c]]
<1>t. /\ lk \in [Lock -> Cpu \union {Nil}] /\ pc \in [Cpu -> Stage]
      /\ noff \in [Cpu -> Int] /\ sie \in [Cpu -> BOOLEAN]
  BY DEF TypeLk
<1>i. CpuInv(c) /\ \A l \in Lock : lk[l] = c <=> Holds(c, l)
  BY DEF LockInv
<1>a. /\ pc[c] = "doze" /\ h[c] = "none" /\ lk' = [lk EXCEPT ![k] = Nil]
      /\ noff' = [noff EXCEPT ![c] = 0] /\ sie' = [sie EXCEPT ![c] = TRUE]
      /\ UNCHANGED <<intena, call, h>> /\ pc' = [pc EXCEPT ![c] = "asleep"]
  BY DEF Sleep, Quiet, Goto
<1>1. call[c] # "none" /\ k \in Lock
  BY <1>a, <1>i, LockOfCall DEF CpuInv, Inside, Busy
<1>h. lk[k] = c /\ \A l \in Lock : lk[l] = c => l = k
  BY <1>a, <1>1, <1>i, LockTable DEF Holds, Busy, Lock
<1> HIDE DEF k
<1>2. TypeLk'
  <2>1. lk' \in [Lock -> Cpu \union {Nil}] /\ pc' \in [Cpu -> Stage] /\ sie' \in [Cpu -> BOOLEAN]
    BY <1>a, <1>t DEF Stage
  <2>2. noff' \in [Cpu -> Int]
    BY <1>a, <1>t, SMTT(30)
  <2> QED
    BY <2>1, <2>2, <1>a DEF TypeLk
<1>3. /\ pc'[c] = "asleep" /\ h'[c] = "none" /\ call'[c] = call[c] /\ noff'[c] = 0 /\ sie'[c] = TRUE
      /\ lk'[k] = Nil /\ \A l \in Lock : l # k => lk'[l] = lk[l]
  BY <1>a, <1>1, <1>t
<1>4. Others(c)
  BY <1>a, <1>t DEF Others
<1>5. CpuInv(c)'
  <2>1. /\ pc'[c] \notin Inside /\ pc'[c] \notin Sending /\ pc'[c] # "wake"
        /\ h'[c] \notin HBusy /\ h'[c] \notin HNested
    BY <1>3 DEF Inside, Busy, Sending, HBusy, HNested
  <2>2. Depth(c)' = 0
    BY <2>1 DEF Depth
  <2> QED
    BY <1>1, <1>3, <2>1, <2>2 DEF CpuInv
<1>6. ASSUME NEW l \in Lock PROVE lk'[l] = c <=> Holds(c, l)'
  <2>1. ~ Holds(c, l)'
    BY <1>3, LockTable DEF Holds, Busy, Sending, Lock
  <2>2. lk'[l] # c
    BY <1>h, <1>3, TtyAssumption
  <2> QED
    BY <2>1, <2>2
<1>7. \A l \in Lock : lk'[l] = lk[l] \/ (lk[l] \in {c, Nil} /\ lk'[l] \in {c, Nil})
  BY <1>3, <1>h
<1> QED
  BY <1>2, <1>4, <1>5, <1>6, <1>7, LockLocal

(* release() turns interrupts back on: they were on before acquire(). *)
LEMMA ProcReleaseStep ==
  ASSUME TypeLk, LockInv, NEW c \in Cpu, ProcRelease(c)
  PROVE  TypeLk' /\ LockInv'
<1> DEFINE k == LockOf[call[c]]
<1>t. /\ lk \in [Lock -> Cpu \union {Nil}] /\ pc \in [Cpu -> Stage]
      /\ noff \in [Cpu -> Int] /\ sie \in [Cpu -> BOOLEAN]
  BY DEF TypeLk
<1>i. CpuInv(c) /\ \A l \in Lock : lk[l] = c <=> Holds(c, l)
  BY DEF LockInv
<1>p. PICK l \in {"user", "acquire"} : pc' = [pc EXCEPT ![c] = l]
  BY DEF ProcRelease, Goto
<1>a. /\ pc[c] \in Busy /\ pc[c] # "wake" /\ h[c] = "none" /\ lk' = [lk EXCEPT ![k] = Nil]
      /\ UNCHANGED <<intena, call, h>>
  BY DEF ProcRelease, release, pop_off
<1>1. call[c] # "none" /\ k \in Lock /\ noff[c] = 1 /\ intena[c]
  <2>1. pc[c] \in Inside /\ h[c] \notin HNested
    BY <1>a DEF Inside, HNested
  <2>2. Depth(c) = 1
    BY <1>a, <2>1, DepthFlat
  <2> QED
    BY <1>i, <2>1, <2>2, LockOfCall DEF CpuInv
<1>h. lk[k] = c /\ \A m \in Lock : lk[m] = c => m = k
  BY <1>a, <1>1, <1>i, LockTable DEF Holds, Busy, Lock
<1>2. noff' = [noff EXCEPT ![c] = 0] /\ sie' = [sie EXCEPT ![c] = TRUE]
  BY <1>1, <1>t, SMTT(30) DEF ProcRelease, release, pop_off
<1> HIDE DEF k
<1>3. TypeLk'
  <2>1. lk' \in [Lock -> Cpu \union {Nil}] /\ pc' \in [Cpu -> Stage] /\ sie' \in [Cpu -> BOOLEAN]
    BY <1>a, <1>p, <1>2, <1>t DEF Stage
  <2>2. noff' \in [Cpu -> Int]
    BY <1>2, <1>t, SMTT(30)
  <2> QED
    BY <2>1, <2>2, <1>a DEF TypeLk
<1>4. /\ pc'[c] \in {"user", "acquire"} /\ h'[c] = "none" /\ call'[c] = call[c]
      /\ noff'[c] = 0 /\ sie'[c] = TRUE
      /\ lk'[k] = Nil /\ \A m \in Lock : m # k => lk'[m] = lk[m]
  BY <1>a, <1>p, <1>1, <1>2, <1>t
<1>5. Others(c)
  BY <1>a, <1>p, <1>2, <1>t DEF Others
<1>6. CpuInv(c)'
  <2>1. /\ pc'[c] \notin Inside /\ pc'[c] \notin Sending /\ pc'[c] # "wake"
        /\ h'[c] \notin HBusy /\ h'[c] \notin HNested
    BY <1>4 DEF Inside, Busy, Sending, HBusy, HNested
  <2>2. Depth(c)' = 0
    BY <2>1 DEF Depth
  <2> QED
    BY <1>1, <1>4, <2>1, <2>2 DEF CpuInv
<1>7. ASSUME NEW m \in Lock PROVE lk'[m] = c <=> Holds(c, m)'
  <2>1. ~ Holds(c, m)'
    BY <1>4, LockTable DEF Holds, Busy, Sending, Lock
  <2>2. lk'[m] # c
    BY <1>h, <1>4, TtyAssumption
  <2> QED
    BY <2>1, <2>2
<1>8. \A m \in Lock : lk'[m] = lk[m] \/ (lk[m] \in {c, Nil} /\ lk'[m] \in {c, Nil})
  BY <1>4, <1>h
<1> QED
  BY <1>3, <1>5, <1>6, <1>7, <1>8, LockLocal

(* A trap comes only while interrupts are on, so to a CPU without a lock. *)
LEMMA TrapStep ==
  ASSUME TypeLk, LockInv, NEW c \in Cpu, NEW s \in {"get", "clock"}, Trap(c, s), UNCHANGED <<call, pc>>
  PROVE  TypeLk' /\ LockInv'
<1>t. sie \in [Cpu -> BOOLEAN] /\ h \in [Cpu -> HStage]
  BY DEF TypeLk
<1>i. CpuInv(c) /\ \A l \in Lock : lk[l] = c <=> Holds(c, l)
  BY DEF LockInv
<1>a. /\ sie[c] /\ h[c] = "none" /\ sie' = [sie EXCEPT ![c] = FALSE] /\ h' = [h EXCEPT ![c] = s]
      /\ UNCHANGED <<lk, noff, intena, call, pc>>
  BY DEF Trap
<1>1. noff[c] = 0 /\ pc[c] \notin Inside
  <2>1. noff[c] = 0
    BY <1>a, <1>i DEF CpuInv
  <2>2. pc[c] \in Inside => noff[c] = 1 \/ noff[c] = 2
    BY <1>i DEF CpuInv, Depth
  <2> QED
    BY <2>1, <2>2, SMTT(30)
<1>2. TypeLk'
  <2>1. sie' \in [Cpu -> BOOLEAN] /\ h' \in [Cpu -> HStage]
    BY <1>a, <1>t DEF HStage
  <2> QED
    BY <2>1, <1>a DEF TypeLk
<1>3. h'[c] = s /\ sie'[c] = FALSE /\ s # "none" /\ s \notin HBusy /\ s \notin HNested
  BY <1>a, <1>t DEF HBusy, HNested
<1>4. Others(c)
  BY <1>a, <1>t DEF Others
<1>5. CpuInv(c)'
  <2>1. pc[c] # "wake" /\ pc[c] \notin Sending
    BY <1>1 DEF Inside, Busy, Sending
  <2>2. Depth(c)' = 0
    BY <1>a, <1>1, <1>3, <2>1 DEF Depth
  <2> QED
    BY <1>a, <1>1, <1>3, <1>i, <2>1, <2>2 DEF CpuInv
<1>6. \A l \in Lock : lk'[l] = c <=> Holds(c, l)'
  <2>1. \A l \in Lock : s \notin HHeld[l] /\ h[c] \notin HHeld[l]
    BY <1>a, LockTable DEF Lock
  <2> QED
    BY <2>1, <1>a, <1>3, <1>i DEF Holds
<1> QED
  BY <1>2, <1>4, <1>5, <1>6, <1>a, LockLocal

(* acquire() in a handler. *)
LEMMA HTakeStep ==
  ASSUME TypeLk, LockInv, NEW c \in Cpu,
         NEW s \in {"cons", "tx", "clock"}, NEW k \in Lock, NEW s2 \in HHeld[k] \ HNested,
         HTake(c, s, k, s2)
  PROVE  TypeLk' /\ LockInv'
<1>t. /\ lk \in [Lock -> Cpu \union {Nil}] /\ h \in [Cpu -> HStage] /\ intena \in [Cpu -> BOOLEAN]
      /\ noff \in [Cpu -> Int] /\ sie \in [Cpu -> BOOLEAN]
  BY DEF TypeLk
<1>i. CpuInv(c) /\ \A l \in Lock : lk[l] = c <=> Holds(c, l)
  BY DEF LockInv
<1>a. /\ h[c] = s /\ lk[k] = Nil /\ lk' = [lk EXCEPT ![k] = c] /\ h' = [h EXCEPT ![c] = s2]
      /\ UNCHANGED <<call, pc>>
  BY DEF HTake, HGoto, thread
<1>s. /\ s2 \in HBusy /\ s2 # "none" /\ s2 \in HStage /\ s2 \notin HNested
      /\ s # "none" /\ s \notin HBusy /\ s \notin HNested
  <2>1. s2 \in HBusy /\ s2 \notin HNested
    BY HBusyIs
  <2>2. s2 # "none" /\ s2 \in HStage
    BY <2>1 DEF HStage, HBusy
  <2>3. s # "none" /\ s \notin HBusy /\ s \notin HNested
    BY DEF HBusy, HNested
  <2> QED
    BY <2>1, <2>2, <2>3
<1>w. pc[c] \notin Inside => pc[c] # "wake" /\ pc[c] \notin Sending
  BY DEF Inside, Busy, Sending
<1>1. pc[c] \notin Inside /\ ~ sie[c] /\ noff[c] = 0
  <2>1. pc[c] \notin Inside /\ ~ sie[c]
    BY <1>a, <1>s, <1>i DEF CpuInv
  <2>2. Depth(c) = 0
    BY <1>a, <1>s, <1>w, <2>1, DepthFlat
  <2> QED
    BY <1>i, <2>1, <2>2 DEF CpuInv
<1>2. /\ noff' = [noff EXCEPT ![c] = 1] /\ intena' = [intena EXCEPT ![c] = sie[c]]
      /\ sie' = [sie EXCEPT ![c] = FALSE]
  BY <1>1, <1>t, SMTT(30) DEF HTake, push_off
<1>3. TypeLk'
  <2>1. noff' \in [Cpu -> Int]
    BY <1>2, <1>t, SMTT(30)
  <2>2. /\ intena' \in [Cpu -> BOOLEAN] /\ sie' \in [Cpu -> BOOLEAN] /\ h' \in [Cpu -> HStage]
        /\ lk' \in [Lock -> Cpu \union {Nil}]
    BY <1>a, <1>s, <1>2, <1>t
  <2> QED
    BY <2>1, <2>2, <1>a DEF TypeLk
<1>4. /\ h'[c] = s2 /\ noff'[c] = 1 /\ sie'[c] = FALSE
      /\ lk'[k] = c /\ \A l \in Lock : l # k => lk'[l] = lk[l]
  BY <1>a, <1>2, <1>t
<1>5. Others(c)
  BY <1>a, <1>2, <1>t DEF Others
<1>6. CpuInv(c)'
  <2>1. Depth(c)' = 1
    BY <1>a, <1>s, <1>w, <1>1, <1>4 DEF Depth
  <2> QED
    BY <1>a, <1>s, <1>w, <1>1, <1>4, <1>i, <2>1 DEF CpuInv
<1>b. pc[c] \notin Busy
  BY <1>1 DEF Inside
<1>7. ASSUME NEW l \in Lock PROVE lk'[l] = c <=> Holds(c, l)'
  <2>1. s2 \in HHeld[l] <=> l = k
    BY LockTable DEF Lock
  <2>2. Holds(c, l)' <=> l = k
    BY <2>1, <1>a, <1>b, <1>4 DEF Holds
  <2>3. h[c] \notin HHeld[l]
    BY <1>a, <1>s, HBusyIs
  <2>4. lk[l] # c
    BY <1>b, <1>i, <2>3 DEF Holds
  <2> QED
    BY <2>2, <2>4, <1>4
<1>8. \A l \in Lock : lk'[l] = lk[l] \/ (lk[l] \in {c, Nil} /\ lk'[l] \in {c, Nil})
  BY <1>4, <1>a
<1> QED
  BY <1>3, <1>5, <1>6, <1>7, <1>8, LockLocal

(* release() in a handler, which had interrupts off before, and the return   *)
(* from the trap.                                                            *)
LEMMA HandlerReleaseStep ==
  ASSUME TypeLk, LockInv, NEW c \in Cpu, HandlerRelease(c)
  PROVE  TypeLk' /\ LockInv'
<1>t. /\ lk \in [Lock -> Cpu \union {Nil}] /\ h \in [Cpu -> HStage] /\ pc \in [Cpu -> Stage]
      /\ noff \in [Cpu -> Int] /\ sie \in [Cpu -> BOOLEAN]
  BY DEF TypeLk
<1>i. CpuInv(c) /\ \A l \in Lock : lk[l] = c <=> Holds(c, l)
  BY DEF LockInv
<1>k. PICK k \in Lock : h[c] \in HHeld[k] /\ HRelease(c, k)
  BY DEF HandlerRelease
<1>a. /\ lk' = [lk EXCEPT ![k] = Nil] /\ noff' = [noff EXCEPT ![c] = @ - 1]
      /\ UNCHANGED <<intena, call>>
  BY <1>k DEF HRelease, HandlerRelease
<1>s. h[c] \in HBusy /\ h[c] # "none"
  BY <1>k, HBusyIs DEF HBusy
<1>1. pc[c] \notin Inside /\ ~ sie[c] /\ noff[c] = 1
  <2>1. pc[c] \notin Inside /\ ~ sie[c]
    BY <1>s, <1>i DEF CpuInv
  <2>2. pc[c] # "wake" /\ h[c] \notin HNested
    BY <2>1 DEF Inside, Busy, Sending, HandlerRelease
  <2>3. Depth(c) = 1
    BY <1>s, <2>2, DepthFlat
  <2> QED
    BY <1>i, <2>1, <2>3 DEF CpuInv
<1>2. noff' = [noff EXCEPT ![c] = 0]
  BY <1>1, <1>a, <1>t, SMTT(30)
<1>p. \A d \in Cpu : pc'[d] = pc[d] \/ (pc[d] = "asleep" /\ pc'[d] = "acquire")
  BY DEF HandlerRelease, Wakeup
<1>q. pc' \in [Cpu -> Stage]
  BY <1>t DEF HandlerRelease, Wakeup, Stage
<1>b. pc[c] \notin Busy /\ pc'[c] \notin Inside /\ pc'[c] \notin Busy
  BY <1>1, <1>p DEF Inside, Busy, Sending
<1>3. /\ h' \in [Cpu -> HStage] /\ sie' \in [Cpu -> BOOLEAN]
      /\ h'[c] \in {"get", "none"} /\ (sie'[c] <=> h'[c] = "none")
      /\ \A d \in Cpu \ {c} : h'[d] = h[d] /\ sie'[d] = sie[d]
  BY <1>t, <1>1 DEF HandlerRelease, HGoto, HStage
<1>4. TypeLk'
  <2>1. noff' \in [Cpu -> Int]
    BY <1>2, <1>t, SMTT(30)
  <2>2. lk' \in [Lock -> Cpu \union {Nil}]
    BY <1>a, <1>t
  <2> QED
    BY <2>1, <2>2, <1>a, <1>3, <1>q DEF TypeLk
<1>5. noff'[c] = 0 /\ lk'[k] = Nil /\ \A l \in Lock : l # k => lk'[l] = lk[l]
  BY <1>a, <1>2, <1>t
<1>6. Others(c)
  BY <1>a, <1>2, <1>3, <1>p, <1>t DEF Others
<1>7. CpuInv(c)'
  <2>1. h'[c] \notin HBusy
    BY <1>3 DEF HBusy
  <2>2. pc'[c] \in Inside \union {"acquire", "asleep"} => call'[c] # "none"
    BY <1>b, <1>p, <1>i, <1>a DEF CpuInv
  <2>3. pc'[c] \notin Sending /\ pc'[c] # "wake" /\ h'[c] \notin HNested
    BY <1>3, <1>b DEF Busy, Sending, HNested
  <2>4. Depth(c)' = 0
    BY <1>b, <2>1, <2>3 DEF Depth
  <2> QED
    BY <1>3, <1>5, <1>b, <2>1, <2>2, <2>3, <2>4 DEF CpuInv
<1>h. \A l \in Lock : lk[l] = c <=> l = k
  BY <1>b, <1>i, <1>k, LockTable DEF Holds, Lock
<1>8. ASSUME NEW l \in Lock PROVE lk'[l] = c <=> Holds(c, l)'
  <2>1. ~ Holds(c, l)'
    BY <1>3, <1>b, LockTable DEF Holds, Lock
  <2>2. lk'[l] # c
    BY <1>h, <1>5, TtyAssumption
  <2> QED
    BY <2>1, <2>2
<1>9. \A l \in Lock : lk'[l] = lk[l] \/ (lk[l] \in {c, Nil} /\ lk'[l] \in {c, Nil})
  BY <1>5, <1>h
<1> QED
  BY <1>4, <1>6, <1>7, <1>8, <1>9, LockLocal

(* Waking sleepers makes them runnable. *)
LEMMA WakeupIs ==
  ASSUME TypeLk, NEW what
  PROVE  /\ Wakeup(what) \in [Cpu -> Stage]
         /\ \A d \in Cpu : \/ Wakeup(what)[d] = pc[d] /\ ~ (pc[d] = "asleep" /\ call[d] = what)
                           \/ pc[d] = "asleep" /\ call[d] = what /\ Wakeup(what)[d] = "acquire"
  BY DEF TypeLk, Wakeup, Stage

(* A push_off() or pop_off() inside another leaves interrupts off. *)
LEMMA PushNest ==
  ASSUME TypeLk, NEW c \in Cpu, push_off(c), noff[c] = 1
  PROVE  /\ noff' \in [Cpu -> Int] /\ noff'[c] = 2 /\ sie' \in [Cpu -> BOOLEAN] /\ sie'[c] = FALSE
         /\ \A d \in Cpu \ {c} : noff'[d] = noff[d] /\ sie'[d] = sie[d]
         /\ intena' = intena
<1>t. noff \in [Cpu -> Int] /\ sie \in [Cpu -> BOOLEAN]
  BY DEF TypeLk
<1>1. noff' = [noff EXCEPT ![c] = 2] /\ noff[c] # 0 /\ 2 \in Int
  BY <1>t, SMTT(30) DEF push_off
<1>2. sie' = [sie EXCEPT ![c] = FALSE] /\ intena' = intena
  BY <1>1 DEF push_off
<1> QED
  BY <1>t, <1>1, <1>2

LEMMA PopNest ==
  ASSUME TypeLk, NEW c \in Cpu, pop_off(c), noff[c] = 2
  PROVE  /\ noff' \in [Cpu -> Int] /\ noff'[c] = 1
         /\ \A d \in Cpu \ {c} : noff'[d] = noff[d]
         /\ intena' = intena /\ sie' = sie
<1>t. noff \in [Cpu -> Int]
  BY DEF TypeLk
<1>1. noff' = [noff EXCEPT ![c] = 1] /\ noff[c] # 1 /\ 1 \in Int
  BY <1>t, SMTT(30) DEF pop_off
<1>2. sie' = sie /\ intena' = intena
  BY <1>1 DEF pop_off
<1> QED
  BY <1>t, <1>1, <1>2

(* Such a step of CPU c, which keeps its lock. *)
LEMMA NestLocal ==
  ASSUME TypeLk, LockInv, NEW c \in Cpu, Others(c), UNCHANGED <<lk, call, intena>>,
         noff'[c] = Depth(c)', noff'[c] \in {1, 2}, ~ sie'[c],
         pc'[c] \in Inside <=> pc[c] \in Inside, pc'[c] \in Busy <=> pc[c] \in Busy,
         pc'[c] \in Sending => call[c] = "write",
         pc'[c] \in {"acquire", "asleep"} => call[c] # "none",
         h'[c] = "none" <=> h[c] = "none", \A l \in Lock : h'[c] \in HHeld[l] <=> h[c] \in HHeld[l]
  PROVE  LockInv'
<1>i. CpuInv(c) /\ \A l \in Lock : lk[l] = c <=> Holds(c, l)
  BY DEF LockInv
<1>1. noff'[c] # 0
  BY SMTT(30)
<1>2. CpuInv(c)'
  BY <1>1, <1>i DEF CpuInv
<1>3. \A l \in Lock : lk'[l] = c <=> Holds(c, l)'
  BY <1>i DEF Holds
<1> QED
  BY <1>2, <1>3, LockLocal

(* uartstart(), called by a process, enters and leaves wakeup(). *)
LEMMA ProcNestStep ==
  ASSUME TypeLk, LockInv, NEW c \in Cpu, ProcNest(c) \/ ProcUnnest(c)
  PROVE  TypeLk' /\ LockInv'
<1>t. pc \in [Cpu -> Stage]
  BY DEF TypeLk
<1>i. CpuInv(c)
  BY DEF LockInv
<1>s. /\ \A s \in {"start", "wake", "thr"} : s \in Inside /\ s \in Busy /\ s \in Sending
      /\ "thr" \notin {"acquire", "asleep"} /\ "wake" \notin {"acquire", "asleep"}
      /\ "none" \notin HNested /\ "none" \notin HBusy
  BY DEF Inside, Busy, Sending, HNested, HBusy
<1>1. ASSUME ProcNest(c) PROVE TypeLk' /\ LockInv'
  <2>1. /\ pc[c] = "start" /\ h[c] = "none" /\ call[c] = "write" /\ push_off(c)
        /\ pc' = [pc EXCEPT ![c] = "wake"] /\ UNCHANGED <<lk, call, h>>
    BY <1>1 DEF ProcNest, Goto
  <2>2. noff[c] = 1
    <3>1. Depth(c) = 1
      BY <2>1, <1>s, DepthFlat
    <3> QED
      BY <1>i, <3>1 DEF CpuInv
  <2>3. /\ noff' \in [Cpu -> Int] /\ noff'[c] = 2 /\ sie' \in [Cpu -> BOOLEAN] /\ sie'[c] = FALSE
        /\ \A d \in Cpu \ {c} : noff'[d] = noff[d] /\ sie'[d] = sie[d]
        /\ intena' = intena
    BY <2>1, <2>2, PushNest
  <2>4. pc' \in [Cpu -> Stage] /\ pc'[c] = "wake" /\ \A d \in Cpu \ {c} : pc'[d] = pc[d]
    BY <1>t, <2>1 DEF Stage
  <2>5. TypeLk'
    BY <2>1, <2>3, <2>4 DEF TypeLk
  <2>6. Others(c)
    BY <2>1, <2>3, <2>4 DEF Others
  <2>7. noff'[c] = Depth(c)'
    BY <2>3, <2>4 DEF Depth
  <2> QED
    BY <2>1, <2>3, <2>4, <2>5, <2>6, <2>7, <1>s, NestLocal
<1>2. ASSUME ProcUnnest(c) PROVE TypeLk' /\ LockInv'
  <2>1. /\ pc[c] = "wake" /\ h[c] = "none" /\ pop_off(c)
        /\ pc' = [Wakeup("write") EXCEPT ![c] = "thr"] /\ UNCHANGED <<lk, call, h>>
    BY <1>2 DEF ProcUnnest
  <2>2. noff[c] = 2 /\ call[c] = "write" /\ ~ sie[c]
    <3>1. Depth(c) = 2
      BY <2>1 DEF Depth
    <3>2. noff[c] = 2 /\ noff[c] # 0
      BY <1>i, <3>1, SMTT(30) DEF CpuInv
    <3> QED
      BY <1>i, <1>s, <2>1, <3>2 DEF CpuInv
  <2>3. /\ noff' \in [Cpu -> Int] /\ noff'[c] = 1
        /\ \A d \in Cpu \ {c} : noff'[d] = noff[d]
        /\ intena' = intena /\ sie' = sie
    BY <2>1, <2>2, PopNest
  <2>4. /\ pc' \in [Cpu -> Stage] /\ pc'[c] = "thr"
        /\ \A d \in Cpu \ {c} : pc'[d] = pc[d] \/ (pc[d] = "asleep" /\ pc'[d] = "acquire")
    <3>1. Wakeup("write") \in [Cpu -> Stage] /\ "thr" \in Stage
      BY WakeupIs DEF Stage
    <3>2. \A d \in Cpu \ {c} : pc'[d] = Wakeup("write")[d]
      BY <2>1, <3>1
    <3>3. \A d \in Cpu : Wakeup("write")[d] = pc[d] \/ (pc[d] = "asleep" /\ Wakeup("write")[d] = "acquire")
      BY DEF Wakeup
    <3>4. pc' \in [Cpu -> Stage] /\ pc'[c] = "thr"
      BY <2>1, <3>1
    <3> QED
      BY <3>2, <3>3, <3>4
  <2>5. TypeLk'
    BY <2>1, <2>3, <2>4 DEF TypeLk
  <2>6. Others(c)
    BY <2>1, <2>3, <2>4 DEF Others
  <2>7. noff'[c] = Depth(c)'
    BY <1>s, <2>1, <2>3, <2>4 DEF Depth
  <2> QED
    BY <2>1, <2>2, <2>3, <2>4, <2>5, <2>6, <2>7, <1>s, NestLocal
<1> QED
  BY <1>1, <1>2

(* A handler enters and leaves wakeup() or uartputc_sync(). *)
LEMMA HandlerNestStep ==
  ASSUME TypeLk, LockInv, NEW c \in Cpu, HandlerNest(c) \/ HandlerUnnest(c)
  PROVE  TypeLk' /\ LockInv'
<1>t. h \in [Cpu -> HStage] /\ pc \in [Cpu -> Stage]
  BY DEF TypeLk
<1>i. CpuInv(c)
  BY DEF LockInv
<1>s. /\ \A s \in {"echo", "send", "after", "thr"} : s \in HBusy /\ s \notin HNested
      /\ \A s \in {"wait", "wake", "put"} : s \in HBusy /\ s \in HNested
      /\ \A s \in {"echo", "send", "after", "thr", "wait", "wake", "put"} : s # "none" /\ s \in HStage
  BY DEF HNested, HBusy, HStage
<1>l. ASSUME NEW l \in Lock
      PROVE  /\ "wait" \in HHeld[l] <=> "echo" \in HHeld[l]
             /\ "after" \in HHeld[l] <=> "put" \in HHeld[l]
             /\ "wake" \in HHeld[l] <=> "send" \in HHeld[l]
             /\ "thr" \in HHeld[l] <=> "wake" \in HHeld[l]
  BY LockTable DEF Lock
<1>w. pc[c] \notin Inside => pc[c] # "wake" /\ pc[c] \notin Sending
  BY DEF Inside, Busy, Sending
<1>b. pc[c] \notin Inside => pc[c] \notin Busy
  BY DEF Inside
<1>c. pc[c] \in {"acquire", "asleep"} => call[c] # "none"
  BY <1>i DEF CpuInv
<1>1. ASSUME HandlerNest(c) PROVE TypeLk' /\ LockInv'
  <2>0. PICK s \in {"wait", "wake"} :
          /\ h' = [h EXCEPT ![c] = s] /\ (h[c] = "echo" \/ h[c] = "send")
          /\ \A l \in Lock : s \in HHeld[l] <=> h[c] \in HHeld[l]
    BY <1>1, <1>l DEF HandlerNest, HGoto
  <2>1. push_off(c) /\ UNCHANGED <<lk, call, pc>>
    BY <1>1 DEF HandlerNest
  <2>p. pc[c] \notin Inside
    BY <1>i, <1>s, <2>0 DEF CpuInv
  <2>2. noff[c] = 1
    <3>1. Depth(c) = 1
      BY <2>0, <2>p, <1>s, <1>w, DepthFlat
    <3> QED
      BY <1>i, <3>1 DEF CpuInv
  <2>3. /\ noff' \in [Cpu -> Int] /\ noff'[c] = 2 /\ sie' \in [Cpu -> BOOLEAN] /\ sie'[c] = FALSE
        /\ \A d \in Cpu \ {c} : noff'[d] = noff[d] /\ sie'[d] = sie[d]
        /\ intena' = intena
    BY <2>1, <2>2, PushNest
  <2>4. h' \in [Cpu -> HStage] /\ h'[c] = s /\ \A d \in Cpu \ {c} : h'[d] = h[d]
    BY <1>t, <1>s, <2>0
  <2>5. TypeLk'
    BY <2>1, <2>3, <2>4 DEF TypeLk
  <2>6. Others(c)
    BY <2>1, <2>3, <2>4 DEF Others
  <2>7. noff'[c] = Depth(c)'
    BY <1>s, <2>3, <2>4 DEF Depth
  <2> QED
    BY <2>0, <2>p, <2>1, <2>3, <2>4, <2>5, <2>6, <2>7, <1>s, <1>w, <1>b, <1>c, NestLocal
<1>2. ASSUME HandlerUnnest(c) PROVE TypeLk' /\ LockInv'
  <2>0. PICK s \in {"after", "thr"} :
          /\ h' = [h EXCEPT ![c] = s] /\ (h[c] = "put" \/ h[c] = "wake")
          /\ \A l \in Lock : s \in HHeld[l] <=> h[c] \in HHeld[l]
    BY <1>2, <1>l DEF HandlerUnnest, HGoto
  <2>1. pop_off(c) /\ UNCHANGED <<lk, call>>
    BY <1>2 DEF HandlerUnnest
  <2>p. pc[c] \notin Inside /\ ~ sie[c]
    BY <1>i, <1>s, <2>0 DEF CpuInv
  <2>2. noff[c] = 2
    <3>1. Depth(c) = 2
      BY <2>0, <1>s DEF Depth
    <3> QED
      BY <1>i, <3>1 DEF CpuInv
  <2>3. /\ noff' \in [Cpu -> Int] /\ noff'[c] = 1
        /\ \A d \in Cpu \ {c} : noff'[d] = noff[d]
        /\ intena' = intena /\ sie' = sie
    BY <2>1, <2>2, PopNest
  <2>4. h' \in [Cpu -> HStage] /\ h'[c] = s /\ \A d \in Cpu \ {c} : h'[d] = h[d]
    BY <1>t, <1>s, <2>0
  <2>8. /\ pc' \in [Cpu -> Stage]
        /\ \A d \in Cpu : pc'[d] = pc[d] \/ (pc[d] = "asleep" /\ pc'[d] = "acquire")
    <3>1. PICK what : pc' = pc \/ pc' = Wakeup(what)
      BY <1>2 DEF HandlerUnnest
    <3> QED
      BY <1>t, <3>1 DEF Wakeup, Stage
  <2>9. /\ pc'[c] \notin Inside /\ pc'[c] # "wake" /\ pc'[c] \notin Sending /\ pc'[c] \notin Busy
        /\ pc'[c] \in {"acquire", "asleep"} => call[c] # "none"
    BY <2>p, <2>8, <1>c DEF Inside, Busy, Sending
  <2>5. TypeLk'
    BY <2>1, <2>3, <2>4, <2>8 DEF TypeLk
  <2>6. Others(c)
    BY <2>1, <2>3, <2>4, <2>8 DEF Others
  <2>7. noff'[c] = Depth(c)'
    BY <1>s, <2>3, <2>4, <2>9 DEF Depth
  <2> QED
    BY <2>0, <2>p, <2>1, <2>3, <2>4, <2>5, <2>6, <2>7, <2>9, <1>s, <1>b, NestLocal
<1> QED
  BY <1>1, <1>2

(* What a step does to the locks: it stays out of the way, takes a lock,     *)
(* gives one back, nests another push_off() in it, or a trap begins.         *)
LockMove(c) ==
  \/ PushOff(c) \/ TakeLock(c) \/ Sleep(c) \/ ProcRelease(c)
  \/ \E s \in {"get", "clock"} : Trap(c, s) /\ UNCHANGED <<call, pc>>
  \/ HandlerTake(c) \/ HandlerRelease(c)
  \/ ProcNest(c) \/ ProcUnnest(c) \/ HandlerNest(c) \/ HandlerUnnest(c)

(* A process that changes from stage to stage without touching a lock. *)
LEMMA StaysProc ==
  ASSUME TypeLk, LockInv, NEW c \in Cpu, NEW s \in Stage, pc' = [pc EXCEPT ![c] = s],
         UNCHANGED <<locks, h, call>>,
         s \in Inside <=> pc[c] \in Inside, s \in Busy <=> pc[c] \in Busy,
         s # "wake", pc[c] # "wake", s \in Sending => call[c] = "write",
         s \in {"acquire", "asleep"} => call[c] # "none"
  PROVE  Stays
<1>t. pc \in [Cpu -> Stage]
  BY DEF TypeLk
<1>1. TypeLk'
  BY <1>t DEF TypeLk, locks
<1>2. ASSUME NEW d \in Cpu PROVE GoesOn(d)
  <2>1. CpuInv(d)
    BY DEF LockInv
  <2>2. CASE d = c
    <3>1. pc'[d] = s
      BY <2>2, <1>t
    <3> QED
      BY <3>1, <2>1, <2>2 DEF GoesOn, CpuInv
  <2>3. CASE d # c
    <3>1. pc'[d] = pc[d]
      BY <2>3, <1>t
    <3> QED
      BY <3>1, <2>1 DEF GoesOn, CpuInv
  <2> QED
    BY <2>2, <2>3
<1> QED
  BY <1>1, <1>2 DEF Stays

(* A step in which nobody changes stage, but sleepers may be woken. *)
LEMMA StaysWake ==
  ASSUME TypeLk, LockInv, UNCHANGED <<locks, h, call>>, pc' \in [Cpu -> Stage],
         \A d \in Cpu : pc'[d] = pc[d] \/ (pc[d] = "asleep" /\ pc'[d] = "acquire")
  PROVE  Stays
<1>1. TypeLk'
  BY DEF TypeLk, locks
<1>2. ASSUME NEW d \in Cpu PROVE GoesOn(d)
  <2>1. CpuInv(d) /\ (pc'[d] = pc[d] \/ (pc[d] = "asleep" /\ pc'[d] = "acquire"))
    BY DEF LockInv
  <2>2. /\ pc'[d] \in Inside <=> pc[d] \in Inside
        /\ pc'[d] \in Busy <=> pc[d] \in Busy
        /\ pc'[d] \in Sending => pc[d] \in Sending
        /\ pc'[d] = "wake" <=> pc[d] = "wake"
    BY <2>1 DEF Inside, Busy, Sending
  <2>3. pc'[d] \in Inside \union {"acquire", "asleep"} => call[d] # "none"
    BY <2>1, <2>2 DEF CpuInv
  <2> QED
    BY <2>1, <2>2, <2>3 DEF GoesOn, CpuInv
<1> QED
  BY <1>1, <1>2 DEF Stays

(* A handler that changes from stage to stage without touching a lock. *)
LEMMA StaysHandler ==
  ASSUME TypeLk, LockInv, NEW c \in Cpu, NEW s \in HStage, h' = [h EXCEPT ![c] = s],
         UNCHANGED <<locks, pc, call>>, s # "none", h[c] # "none", s \in HNested <=> h[c] \in HNested,
         \A l \in Lock : s \in HHeld[l] <=> h[c] \in HHeld[l]
  PROVE  Stays
<1>t. h \in [Cpu -> HStage]
  BY DEF TypeLk
<1>1. TypeLk'
  BY <1>t DEF TypeLk, locks
<1>2. ASSUME NEW d \in Cpu PROVE GoesOn(d)
  <2>1. CpuInv(d)
    BY DEF LockInv
  <2>2. CASE d = c
    <3>1. h'[d] = s
      BY <2>2, <1>t
    <3> QED
      BY <3>1, <2>1, <2>2 DEF GoesOn, CpuInv
  <2>3. CASE d # c
    <3>1. h'[d] = h[d]
      BY <2>3, <1>t
    <3> QED
      BY <3>1, <2>1 DEF GoesOn, CpuInv
  <2> QED
    BY <2>2, <2>3
<1> QED
  BY <1>1, <1>2 DEF Stays

(* A step that only wakes leaves the locks alone. *)
LEMMA StaysWakeup ==
  ASSUME TypeLk, LockInv, NEW what, pc' = Wakeup(what), UNCHANGED <<locks, h, call>>
  PROVE  Stays
<1>1. pc' \in [Cpu -> Stage]
  BY WakeupIs
<1>2. \A d \in Cpu : pc'[d] = pc[d] \/ (pc[d] = "asleep" /\ pc'[d] = "acquire")
  BY DEF Wakeup
<1> QED
  BY <1>1, <1>2, StaysWake

(* The steps of processes. *)
LEMMA LockProcess ==
  ASSUME TypeLk, LockInv, TypeEnv, NEW c \in Cpu, Process(c)
  PROVE  Stays \/ LockMove(c)
<1>t. pc \in [Cpu -> Stage] /\ call \in [Cpu -> {"none", "read", "write", "sleep"}]
  BY DEF TypeLk
<1>s. /\ "start" \in Stage /\ "user" \in Stage /\ "exited" \in Stage /\ "doze" \in Stage
      /\ "locked" \in Inside /\ "locked" \in Busy /\ "start" \in Busy /\ "start" \in Inside
      /\ "doze" \in Busy /\ "doze" \in Inside /\ "thr" \in Busy /\ "thr" \in Inside
      /\ "locked" \notin Sending /\ "doze" \notin Sending /\ "user" \notin Sending
      /\ "exited" \notin Sending /\ "acquire" \notin Sending
      /\ "user" \notin Inside /\ "exited" \notin Inside /\ "user" \notin Busy /\ "exited" \notin Busy
      /\ "acquire" \notin Inside /\ "acquire" \notin Busy
  BY DEF Stage, Inside, Busy, Sending
<1>d. ASSUME pc[c] = "locked", h[c] = "none", Goto(c, "doze"), UNCHANGED <<locks, h, call>> PROVE Stays
  BY <1>d, <1>s, StaysProc DEF Goto
<1>1. ASSUME Enter(c) PROVE Stays
  <2>1. /\ pc[c] = "user" /\ pc' = [pc EXCEPT ![c] = "acquire"] /\ UNCHANGED <<locks, h>>
        /\ call' = [call EXCEPT ![c] = Head(todo.calls[c])[1]] /\ todo.calls[c] # <<>>
    BY <1>1 DEF Enter, Goto, Quiet
  <2>2. Head(todo.calls[c])[1] \in {"read", "write", "sleep"}
    <3>1. todo.calls[c] \in Seq(Calls)
      BY DEF TypeEnv
    <3>2. Head(todo.calls[c]) \in Calls
      BY <2>1, <3>1, SMTT(30)
    <3> QED
      BY <3>2, SMTT(30) DEF Calls
  <2> DEFINE what == Head(todo.calls[c])[1]
  <2> HIDE DEF what
  <2>3. what \in {"read", "write", "sleep"} /\ call' = [call EXCEPT ![c] = what]
    BY <2>1, <2>2 DEF what
  <2>4. /\ pc'[c] = "acquire" /\ call'[c] = what /\ what # "none"
        /\ \A d \in Cpu \ {c} : pc'[d] = pc[d] /\ call'[d] = call[d]
        /\ pc' \in [Cpu -> Stage] /\ call' \in [Cpu -> {"none", "read", "write", "sleep"}]
    BY <1>t, <2>1, <2>3 DEF Stage
  <2>5. TypeLk'
    BY <2>1, <2>4 DEF TypeLk, locks
  <2>6. ASSUME NEW d \in Cpu PROVE GoesOn(d)
    <3>1. CpuInv(d)
      BY DEF LockInv
    <3>2. CASE d = c
      BY <3>2, <2>1, <2>4, <1>s DEF GoesOn
    <3>3. CASE d # c
      BY <3>1, <3>3, <2>1, <2>4 DEF GoesOn, CpuInv
    <3> QED
      BY <3>2, <3>3
  <2> QED
    BY <2>1, <2>5, <2>6 DEF Stays
<1>2. ASSUME Exit(c) PROVE Stays
  BY <1>2, <1>s, StaysProc DEF Exit, Goto, Quiet
<1>3. ASSUME ReadEmpty(c) PROVE Stays \/ ProcRelease(c)
  <2>1. /\ call[c] = "read" /\ pc[c] = "locked" /\ h[c] = "none" /\ UNCHANGED <<h, call>>
    BY <1>3 DEF ReadEmpty, At, Quiet
  <2>2. \/ Goto(c, "doze") /\ UNCHANGED locks
        \/ release(c, "cons") /\ Goto(c, "user")
    BY <1>3 DEF ReadEmpty
  <2> QED
    BY <1>d, <2>1, <2>2, <1>s, LockTable DEF ProcRelease
<1>4. ASSUME ReadByte(c) PROVE Stays \/ ProcRelease(c)
  <2>1. /\ call[c] = "read" /\ pc[c] = "locked" /\ h[c] = "none" /\ UNCHANGED <<h, call>>
    BY <1>4 DEF ReadByte, At, Quiet
  <2>2. \/ UNCHANGED <<locks, pc>>
        \/ release(c, "cons") /\ Goto(c, "user")
    BY <1>4 DEF ReadByte
  <2>3. UNCHANGED <<locks, pc>> => Stays
    BY <2>1, <1>t, StaysWake
  <2> QED
    BY <2>1, <2>2, <2>3, <1>s, LockTable DEF ProcRelease
<1>5. ASSUME WriteFull(c) PROVE Stays
  BY <1>5, <1>d DEF WriteFull, At, Quiet
<1>6. ASSUME WritePut(c) PROVE Stays
  BY <1>6, <1>s, StaysProc DEF WritePut, Goto, Quiet, At
<1>7. ASSUME WriteStart(c) PROVE ProcNest(c)
  BY <1>7 DEF WriteStart, SendTake, At, Quiet, ProcNest
<1>11. ASSUME WriteWake(c) PROVE ProcUnnest(c)
  BY <1>11 DEF WriteWake, At, Quiet, ProcUnnest
<1>12. ASSUME WriteThr(c) PROVE Stays
  <2>1. /\ call[c] = "write" /\ pc[c] = "thr" /\ pc' = [pc EXCEPT ![c] = "start"]
        /\ UNCHANGED <<locks, h, call>>
    BY <1>12 DEF WriteThr, SendPut, At, Quiet, Goto
  <2> QED
    BY <2>1, <1>s, StaysProc
<1>8. ASSUME WriteDone(c) PROVE ProcRelease(c)
  <2>1. /\ call[c] = "write" /\ pc[c] = "start" /\ h[c] = "none" /\ UNCHANGED <<h, call>>
        /\ release(c, "tx")
        /\ Goto(c, "user") \/ Goto(c, "acquire")
    BY <1>8 DEF WriteDone, At, Quiet
  <2> QED
    BY <2>1, <1>s, LockTable DEF ProcRelease
<1>9. ASSUME SleepStart(c) PROVE Stays
  <2>1. UNCHANGED <<locks, h, call, pc>>
    BY <1>9 DEF SleepStart, Quiet
  <2> QED
    BY <2>1, <1>t, StaysWake
<1>10. ASSUME SleepTest(c) PROVE Stays \/ ProcRelease(c)
  <2>1. /\ call[c] = "sleep" /\ pc[c] = "locked" /\ h[c] = "none" /\ UNCHANGED <<h, call>>
    BY <1>10 DEF SleepTest, At, Quiet
  <2>2. \/ Goto(c, "doze") /\ UNCHANGED locks
        \/ release(c, "time") /\ Goto(c, "user")
    BY <1>10 DEF SleepTest
  <2> QED
    BY <1>d, <2>1, <2>2, <1>s, LockTable DEF ProcRelease
<1> QED
  BY <1>1, <1>2, <1>3, <1>4, <1>5, <1>6, <1>7, <1>8, <1>9, <1>10, <1>11, <1>12 DEF Process, LockMove

(* The steps of handlers. *)
LEMMA LockHandler ==
  ASSUME TypeLk, LockInv, NEW c \in Cpu, Handler(c)
  PROVE  Stays \/ LockMove(c)
<1>t. pc \in [Cpu -> Stage] /\ h \in [Cpu -> HStage]
  BY DEF TypeLk
<1>s. /\ \A s \in {"get", "cons", "tx", "echo", "put", "case", "send"} : s \in HStage /\ s # "none"
      /\ \A s \in {"get", "cons", "tx", "case", "echo", "after", "send", "thr", "tick"} :
           s \notin HNested /\ s # "none"
      /\ "wait" \in HNested /\ "put" \in HNested /\ "wait" # "none"
  BY DEF HStage, HNested
<1>h. /\ \A l \in Lock : "get" \notin HHeld[l] /\ "cons" \notin HHeld[l] /\ "tx" \notin HHeld[l]
      /\ \A l \in Lock : /\ "echo" \in HHeld[l] <=> "case" \in HHeld[l]
                         /\ "put" \in HHeld[l] <=> "wait" \in HHeld[l]
                         /\ "case" \in HHeld[l] <=> "after" \in HHeld[l]
                         /\ "send" \in HHeld[l] <=> "thr" \in HHeld[l]
      /\ "case" \in HHeld["cons"] /\ "after" \in HHeld["cons"] /\ "send" \in HHeld["tx"]
      /\ "tick" \in HHeld["time"] /\ "cons" \in Lock /\ "tx" \in Lock /\ "time" \in Lock
  <2>1. "case" \in HHeld["cons"] /\ "after" \in HHeld["cons"] /\ "send" \in HHeld["tx"]
    BY LockTable
  <2>2. "tick" \in HHeld["time"] /\ "cons" \in Lock /\ "tx" \in Lock /\ "time" \in Lock
    BY LockTable DEF Lock
  <2>3. ASSUME NEW l \in Lock
        PROVE  /\ "get" \notin HHeld[l] /\ "cons" \notin HHeld[l] /\ "tx" \notin HHeld[l]
               /\ "echo" \in HHeld[l] <=> "case" \in HHeld[l]
               /\ "put" \in HHeld[l] <=> "wait" \in HHeld[l]
               /\ "case" \in HHeld[l] <=> "after" \in HHeld[l]
               /\ "send" \in HHeld[l] <=> "thr" \in HHeld[l]
    <3>1. \/ HHeld[l] = {"case", "echo", "wait", "put", "after"}
          \/ HHeld[l] = {"send", "wake", "thr"} \/ HHeld[l] = {"tick"}
      BY LockTable DEF Lock
    <3>2. CASE HHeld[l] = {"case", "echo", "wait", "put", "after"}
      BY <3>2
    <3>3. CASE HHeld[l] = {"send", "wake", "thr"} \/ HHeld[l] = {"tick"}
      BY <3>3
    <3> QED
      BY <3>1, <3>2, <3>3
  <2> QED
    BY <2>1, <2>2, <2>3
<1>u. ASSUME NEW a, NEW b, h[c] = a, a # "none", b # "none", b \in HStage, HGoto(c, b),
             b \in HNested <=> a \in HNested,
             \A l \in Lock : b \in HHeld[l] <=> a \in HHeld[l], UNCHANGED <<locks, pc, call>>
      PROVE  Stays
  BY <1>u, StaysHandler DEF HGoto
<1>1. ASSUME IntrGet(c) PROVE Stays
  <2>1. h[c] = "get" /\ (HGoto(c, "tx") \/ HGoto(c, "cons")) /\ UNCHANGED <<locks, pc, call>>
    BY <1>1 DEF IntrGet, thread
  <2> QED
    BY <2>1, <1>s, <1>h, <1>u
<1>2. ASSUME IntrCase(c) PROVE Stays \/ HandlerRelease(c)
  <2>1. h[c] = "case" /\ UNCHANGED <<pc, call>>
    BY <1>2 DEF IntrCase, thread
  <2>2. \/ HGoto(c, "echo") /\ UNCHANGED locks
        \/ HRelease(c, "cons") /\ HGoto(c, "get") /\ UNCHANGED sie
    BY <1>2 DEF IntrCase
  <2>3. HGoto(c, "echo") /\ UNCHANGED locks => Stays
    BY <2>1, <1>s, <1>h, <1>u
  <2> QED
    BY <2>1, <2>2, <2>3, <1>s, <1>h DEF HandlerRelease
<1>3. ASSUME EchoWait(c) PROVE Stays
  <2>1. h[c] = "wait" /\ HGoto(c, "put") /\ UNCHANGED <<locks, pc, call>>
    BY <1>3 DEF EchoWait, thread
  <2> QED
    BY <2>1, <1>s, <1>h, <1>u
<1>4. ASSUME IntrErase(c) PROVE Stays \/ HandlerRelease(c)
  <2>1. h[c] = "after" /\ UNCHANGED <<pc, call>>
    BY <1>4 DEF IntrErase, thread
  <2>2. \/ HGoto(c, "case") /\ UNCHANGED locks
        \/ HRelease(c, "cons") /\ HGoto(c, "get") /\ UNCHANGED sie
    BY <1>4 DEF IntrErase
  <2>3. HGoto(c, "case") /\ UNCHANGED locks => Stays
    BY <2>1, <1>s, <1>h, <1>u
  <2> QED
    BY <2>1, <2>2, <2>3, <1>s, <1>h DEF HandlerRelease
<1>5. ASSUME IntrStore(c) PROVE HandlerRelease(c)
  <2>1. h[c] = "after" /\ HRelease(c, "cons") /\ HGoto(c, "get") /\ UNCHANGED <<sie, call>>
    BY <1>5 DEF IntrStore
  <2>2. pc' = Wakeup("read") \/ pc' = pc
    BY <1>5 DEF IntrStore
  <2> QED
    BY <2>1, <2>2, <1>s, <1>h DEF HandlerRelease
<1>6. ASSUME EchoOff(c) \/ IntrSend(c) PROVE HandlerNest(c)
  BY <1>6 DEF EchoOff, IntrSend, SendTake, HandlerNest, thread
<1>7. ASSUME Echo(c) \/ IntrWake(c) PROVE HandlerUnnest(c)
  BY <1>7 DEF Echo, IntrWake, HandlerUnnest, thread
<1>8. ASSUME IntrThr(c) PROVE Stays
  <2>1. h[c] = "thr" /\ HGoto(c, "send") /\ UNCHANGED <<locks, pc, call>>
    BY <1>8 DEF IntrThr, SendPut, thread
  <2> QED
    BY <2>1, <1>s, <1>h, <1>u
<1>9. ASSUME IntrDone(c) PROVE HandlerRelease(c)
  <2>1. /\ h[c] = "send" /\ HRelease(c, "tx") /\ HGoto(c, "none") /\ sie' = [sie EXCEPT ![c] = TRUE]
        /\ UNCHANGED <<pc, call>>
    BY <1>9 DEF IntrDone, thread
  <2> QED
    BY <2>1, <1>s, <1>h DEF HandlerRelease
<1>10. ASSUME Tick(c) PROVE HandlerRelease(c)
  <2>1. /\ h[c] = "tick" /\ HRelease(c, "time") /\ HGoto(c, "none") /\ sie' = [sie EXCEPT ![c] = TRUE]
        /\ pc' = Wakeup("sleep") /\ UNCHANGED call
    BY <1>10 DEF Tick
  <2> QED
    BY <2>1, <1>s, <1>h DEF HandlerRelease
<1> QED
  BY <1>1, <1>2, <1>3, <1>4, <1>5, <1>6, <1>7, <1>8, <1>9, <1>10 DEF Handler, LockMove, HandlerTake

(* Every step, to the locks. *)
LEMMA LockTouch ==
  ASSUME TypeLk, LockInv, TypeEnv, [Next]_vars
  PROVE  Stays \/ \E c \in Cpu : LockMove(c)
<1>t. pc \in [Cpu -> Stage]
  BY DEF TypeLk
<1>1. ASSUME NEW c \in Cpu, UartIntr(c) PROVE LockMove(c)
  BY <1>1 DEF UartIntr, LockMove, thread
<1>2. ASSUME NEW c \in Cpu, ClockIntr(c) PROVE LockMove(c)
  BY <1>2 DEF ClockIntr, LockMove, thread
<1>3. ASSUME NEW c \in Cpu, Kill(c) PROVE Stays
  <2>1. UNCHANGED <<locks, h, call>>
    BY <1>3 DEF Kill
  <2>2. /\ pc' \in [Cpu -> Stage]
        /\ \A d \in Cpu : pc'[d] = pc[d] \/ (pc[d] = "asleep" /\ pc'[d] = "acquire")
    BY <1>3, <1>t DEF Kill, Stage
  <2> QED
    BY <2>1, <2>2, StaysWake
<1>4. Type \/ DevSend \/ UNCHANGED vars => UNCHANGED <<locks, h, call, pc>>
  BY DEF Type, DevSend, vars, thread
<1>5. UNCHANGED <<locks, h, call, pc>> => Stays
  BY <1>t, StaysWake
<1> QED
  BY <1>1, <1>2, <1>3, <1>4, <1>5, LockProcess, LockHandler DEF Next

(* The locks' part of the invariant is preserved. *)
LEMMA LockStep ==
  ASSUME TypeLk, LockInv, TypeEnv, [Next]_vars
  PROVE  TypeLk' /\ LockInv'
<1>1. ASSUME NEW c \in Cpu, HandlerTake(c) PROVE TypeLk' /\ LockInv'
  <2>1. /\ "cons" \in Lock /\ "tx" \in Lock /\ "time" \in Lock
        /\ "case" \in HHeld["cons"] \ HNested /\ "send" \in HHeld["tx"] \ HNested
        /\ "tick" \in HHeld["time"] \ HNested
    BY LockTable DEF Lock, HNested
  <2> QED
    BY <1>1, <2>1, HTakeStep DEF HandlerTake
<1>2. ASSUME NEW c \in Cpu, LockMove(c) PROVE TypeLk' /\ LockInv'
  BY <1>1, <1>2, PushOffStep, TakeLockStep, SleepStep, ProcReleaseStep, TrapStep, HandlerReleaseStep,
     ProcNestStep, HandlerNestStep DEF LockMove
<1> QED
  BY <1>2, LockTouch, StaysStep

-----------------------------------------------------------------------------
(* The clock and sys_sleep().                                                *)

(* Who touches the counts of the calls and the ticks. *)
LEMMA TimeTouch ==
  ASSUME [Next]_vars
  PROVE  \/ UNCHANGED <<call, n, from, ticks, elapsed>>
         \/ \E c \in Cpu : Enter(c) \/ SleepStart(c) \/ Tick(c)
         \/ \E c \in Cpu : UNCHANGED <<call, from, ticks, elapsed>> /\ n' = [n EXCEPT ![c] = @ - 1]
<1> DEFINE Same == UNCHANGED <<call, n, from, ticks, elapsed>>
           Less(c) == UNCHANGED <<call, from, ticks, elapsed>> /\ n' = [n EXCEPT ![c] = @ - 1]
<1>1. ASSUME NEW c \in Cpu, Process(c) PROVE Same \/ Enter(c) \/ SleepStart(c) \/ Less(c)
  <2>1. Exit(c) \/ PushOff(c) \/ TakeLock(c) \/ Sleep(c) => Same
    BY DEF Exit, PushOff, TakeLock, Sleep, clock
  <2>2. ReadEmpty(c) \/ WriteFull(c) \/ SleepTest(c) => Same
    BY DEF ReadEmpty, WriteFull, SleepTest, clock
  <2>3. WritePut(c) \/ WriteStart(c) \/ WriteWake(c) \/ WriteThr(c) => Same
    BY DEF WritePut, WriteStart, WriteWake, WriteThr, clock
  <2>4. WriteDone(c) => Less(c)
    BY DEF WriteDone, clock
  <2>5. ReadByte(c) => Same \/ Less(c)
    BY DEF ReadByte, clock
  <2> QED
    BY <1>1, <2>1, <2>2, <2>3, <2>4, <2>5 DEF Process
<1>2. ASSUME NEW c \in Cpu, Handler(c) PROVE Same \/ Tick(c)
  <2>1. ASSUME NEW a, NEW l, NEW b, HTake(c, a, l, b) PROVE Same
    BY <2>1 DEF HTake, thread, clock
  <2>2. IntrGet(c) \/ IntrCase(c) \/ EchoOff(c) \/ EchoWait(c) \/ Echo(c) => Same
    BY DEF IntrGet, IntrCase, EchoOff, EchoWait, Echo, thread, clock
  <2>3. IntrErase(c) \/ IntrDone(c) \/ IntrSend(c) \/ IntrThr(c) => Same
    BY DEF IntrErase, IntrDone, IntrSend, IntrThr, thread, clock
  <2>4. IntrStore(c) \/ IntrWake(c) => Same
    BY DEF IntrStore, IntrWake, clock
  <2> QED
    BY <1>2, <2>1, <2>2, <2>3, <2>4 DEF Handler
<1>3. ASSUME NEW c \in Cpu, UartIntr(c) \/ ClockIntr(c) \/ Kill(c) PROVE Same
  BY <1>3 DEF UartIntr, ClockIntr, Kill, thread, clock
<1>4. Type \/ DevSend => Same
  BY DEF Type, DevSend, thread, clock
<1>5. UNCHANGED vars => Same
  BY DEF vars, thread, clock
<1> QED
  BY <1>1, <1>2, <1>3, <1>4, <1>5 DEF Next

(* A system call begins: sys_sleep() has not read ticks0 yet. *)
LEMMA EnterTime ==
  ASSUME TypeTime, TypeEnv, TypeLk, TimeInv, NEW c \in Cpu, Enter(c)
  PROVE  TypeTime' /\ TimeInv'
<1> DEFINE what == Head(todo.calls[c])[1]
           k == Head(todo.calls[c])[2]
           f == IF what = "read" THEN k ELSE Unset
<1>t. /\ n \in [Cpu -> Int] /\ from \in [Cpu -> 0 .. WRAP] /\ ticks \in Index
      /\ elapsed \in [Cpu -> Nat] /\ call \in [Cpu -> {"none", "read", "write", "sleep"}]
  BY DEF TypeTime, TypeLk
<1>a. /\ call' = [call EXCEPT ![c] = what] /\ n' = [n EXCEPT ![c] = k]
      /\ from' = [from EXCEPT ![c] = f] /\ elapsed' = [elapsed EXCEPT ![c] = 0]
      /\ ticks' = ticks /\ todo.calls[c] # <<>>
  BY DEF Enter
<1>1. k \in 1 .. WRAP - 1
  <2>1. todo.calls[c] \in Seq(Calls)
    BY DEF TypeEnv
  <2>2. Head(todo.calls[c]) \in Calls
    BY <1>a, <2>1, SMTT(30)
  <2> QED
    BY <2>2, SMTT(30) DEF Calls
<1> HIDE DEF what, k
<1>2. k \in Int /\ f \in 0 .. WRAP /\ 0 \in Nat
  BY <1>1, Sizes, SMTT(30) DEF Unset
<1>3. what # "read" => f = Unset
  OBVIOUS
<1> HIDE DEF f
<1>4. TypeTime'
  BY <1>2, <1>a, <1>t DEF TypeTime
<1>5. ASSUME NEW d \in Cpu, call'[d] = "sleep", from'[d] # Unset PROVE Sub(ticks', from'[d]) <= elapsed'[d]
  <2>1. d # c
    BY <1>3, <1>5, <1>a, <1>t
  <2>2. call'[d] = call[d] /\ from'[d] = from[d] /\ elapsed'[d] = elapsed[d]
    BY <2>1, <1>a, <1>t
  <2> QED
    BY <2>2, <1>5, <1>a DEF TimeInv
<1> QED
  BY <1>4, <1>5 DEF TimeInv

(* ticks0 is read: no ticks have passed. *)
LEMMA SleepStartTime ==
  ASSUME TypeTime, TimeInv, NEW c \in Cpu, SleepStart(c)
  PROVE  TypeTime' /\ TimeInv'
<1>t. from \in [Cpu -> 0 .. WRAP] /\ ticks \in Index /\ elapsed \in [Cpu -> Nat]
  BY DEF TypeTime
<1>a. from' = [from EXCEPT ![c] = ticks] /\ UNCHANGED <<call, n, ticks, elapsed>>
  BY DEF SleepStart, clock
<1>1. ticks \in 0 .. WRAP
  BY <1>t, Sizes, SMTT(30) DEF Index
<1>2. TypeTime'
  BY <1>1, <1>a DEF TypeTime
<1>3. Sub(ticks, ticks) <= elapsed[c]
  <2>1. Sub(ticks, ticks) = IF ticks >= ticks THEN ticks - ticks ELSE ticks - ticks + WRAP
    BY <1>t, SubVal DEF Index
  <2>2. elapsed[c] \in Nat
    BY <1>t
  <2> QED
    BY <1>t, <2>1, <2>2, Sizes, SMTT(30) DEF Index
<1>4. ASSUME NEW d \in Cpu, call'[d] = "sleep", from'[d] # Unset PROVE Sub(ticks', from'[d]) <= elapsed'[d]
  <2>1. CASE d = c
    BY <2>1, <1>a, <1>t, <1>3
  <2>2. CASE d # c
    <3>1. from'[d] = from[d]
      BY <2>2, <1>a, <1>t
    <3> QED
      BY <3>1, <1>4, <1>a DEF TimeInv
  <2> QED
    BY <2>1, <2>2
<1> QED
  BY <1>2, <1>4 DEF TimeInv

(* A tick adds one to both. *)
LEMMA TickTime ==
  ASSUME TypeTime, TimeInv, NEW c \in Cpu, Tick(c)
  PROVE  TypeTime' /\ TimeInv'
<1>t. from \in [Cpu -> 0 .. WRAP] /\ ticks \in Index /\ elapsed \in [Cpu -> Nat]
  BY DEF TypeTime
<1>a. /\ ticks' = Inc(ticks) /\ UNCHANGED <<call, n, from>>
      /\ elapsed' = [d \in Cpu |-> IF from[d] = Unset THEN 0 ELSE elapsed[d] + 1]
  BY DEF Tick
<1>1. Inc(ticks) \in Index
  BY <1>t, IncVal DEF Index
<1>2. elapsed' \in [Cpu -> Nat]
  BY <1>a, <1>t, SMTT(30)
<1>3. TypeTime'
  BY <1>1, <1>2, <1>a DEF TypeTime
<1>4. ASSUME NEW d \in Cpu, call[d] = "sleep", from[d] # Unset PROVE Sub(Inc(ticks), from[d]) <= elapsed'[d]
  <2>1. from[d] \in 0 .. WRAP - 1
    <3>1. from[d] \in 0 .. WRAP
      BY <1>t
    <3> QED
      BY <3>1, <1>4, Sizes, SMTT(30) DEF Unset
  <2>2. elapsed[d] \in Nat /\ elapsed'[d] = elapsed[d] + 1
    BY <1>4, <1>a, <1>t
  <2>3. Sub(ticks, from[d]) <= elapsed[d]
    BY <1>4 DEF TimeInv
  <2>4. Sub(ticks, from[d]) \in 0 .. WRAP - 1
    BY <2>1, <1>t, SubVal DEF Index
  <2>5. CASE Sub(ticks, from[d]) < WRAP - 1
    <3>1. Sub(Inc(ticks), from[d]) = Sub(ticks, from[d]) + 1
      BY <2>5, <2>1, <1>t, SubInc DEF Index
    <3> QED
      BY <3>1, <2>2, <2>3, <2>4, SMTT(30)
  <2>6. CASE Sub(ticks, from[d]) = WRAP - 1
    <3>1. Sub(Inc(ticks), from[d]) \in 0 .. WRAP - 1
      BY <2>1, <1>1, SubVal DEF Index
    <3> QED
      BY <3>1, <2>6, <2>2, <2>3, Sizes, SMTT(30)
  <2> QED
    BY <2>4, <2>5, <2>6, Sizes, SMTT(30)
<1> QED
  BY <1>3, <1>4, <1>a DEF TimeInv

(* The clock's part of the invariant is preserved. *)
LEMMA TimeStep ==
  ASSUME TypeTime, TypeEnv, TypeLk, TimeInv, [Next]_vars
  PROVE  TypeTime' /\ TimeInv'
<1>1. UNCHANGED <<call, n, from, ticks, elapsed>> => TypeTime' /\ TimeInv'
  BY DEF TypeTime, TimeInv
<1>2. ASSUME NEW c \in Cpu, UNCHANGED <<call, from, ticks, elapsed>>, n' = [n EXCEPT ![c] = @ - 1]
      PROVE  TypeTime' /\ TimeInv'
  <2>1. n \in [Cpu -> Int]
    BY DEF TypeTime
  <2>2. n' \in [Cpu -> Int]
    BY <2>1, <1>2, SMTT(30)
  <2> QED
    BY <2>2, <1>2 DEF TypeTime, TimeInv
<1> QED
  BY <1>1, <1>2, TimeTouch, EnterTime, SleepStartTime, TickTime

-----------------------------------------------------------------------------
(* Sleep and wakeup.                                                         *)

Drowsy == {"doze", "asleep"}

(* Nothing that a sleeper waits for changes, and nobody new goes to sleep. *)
SleepSame ==
  /\ UNCHANGED <<r, w, txr, txw, ticks>> /\ (Waking => Waking')
  /\ \A d \in Cpu : pc'[d] \in Drowsy =>
       pc[d] \in Drowsy /\ call'[d] = call[d] /\ n'[d] = n[d] /\ from'[d] = from[d]

LEMMA SleepFrame == ASSUME SleepInv, SleepSame PROVE SleepInv'
<1> SUFFICES ASSUME NEW d \in Cpu, pc'[d] \in Drowsy PROVE Waits(d)'
  BY DEF SleepInv, Drowsy
<1>1. /\ pc[d] \in Drowsy /\ call'[d] = call[d] /\ n'[d] = n[d] /\ from'[d] = from[d]
      /\ UNCHANGED <<r, w, txr, txw, ticks>> /\ (Waking => Waking')
  BY DEF SleepSame
<1>2. Waits(d)
  BY <1>1 DEF SleepInv, Drowsy
<1> QED
  BY <1>1, <1>2 DEF Waits, TxFull, TooEarly

(* A lock has one holder. *)
LEMMA OneHolder ==
  ASSUME LockInv, NEW c \in Cpu, NEW d \in Cpu, NEW l \in Lock, Holds(c, l), Holds(d, l)
  PROVE  c = d
<1>1. lk[l] = c
  BY DEF LockInv
<1>2. lk[l] = d
  BY DEF LockInv
<1> QED
  BY <1>1, <1>2

(* Whoever works under the lock of a call finds nobody about to sleep in it: *)
(* the sleeper-to-be would have the lock.                                    *)
LEMMA NobodyDozes ==
  ASSUME LockInv, TypeLk, NEW c \in Cpu, NEW d \in Cpu, call[d] # "none",
         Holds(c, LockOf[call[d]]), pc[c] # "doze" \/ h[c] # "none"
  PROVE  pc[d] # "doze"
<1> SUFFICES ASSUME pc[d] = "doze" PROVE FALSE
  OBVIOUS
<1>1. LockOf[call[d]] \in Lock
  BY LockOfCall
<1>2. Holds(d, LockOf[call[d]])
  BY DEF Holds, Busy
<1>3. c = d
  BY <1>1, <1>2, OneHolder
<1>4. CpuInv(d)
  BY DEF LockInv
<1> QED
  BY <1>3, <1>4 DEF CpuInv, Inside, Busy

(* Whoever has uart_tx_lock and is not in the middle of uartstart() finds    *)
(* nobody else there.                                                        *)
LEMMA NobodySends ==
  ASSUME LockInv, NEW c \in Cpu,
         \/ h[c] = "none" /\ call[c] = "write" /\ pc[c] \in {"locked", "start"}
         \/ h[c] = "send"
  PROVE  ~ InHand /\ ~ Waking
<1>0. "tx" \in Lock /\ LockOf["write"] = "tx" /\ \A s \in {"send", "wake", "thr"} : s \in HHeld["tx"]
  BY LockTable DEF Lock
<1>1. Holds(c, "tx") /\ h[c] \notin {"wake", "thr"}
  BY <1>0 DEF Holds, Busy, Sending
<1>2. ASSUME NEW d \in Cpu, pc[d] \in {"wake", "thr"} \/ h[d] \in {"wake", "thr"} PROVE FALSE
  <2>1. CpuInv(d)
    BY DEF LockInv
  <2>2. Holds(d, "tx")
    <3>1. CASE h[d] \in {"wake", "thr"}
      BY <3>1, <1>0 DEF Holds
    <3>2. CASE pc[d] \in {"wake", "thr"}
      <4>1. pc[d] \in Sending /\ pc[d] \in Busy
        BY <3>2 DEF Sending, Busy
      <4>2. call[d] = "write"
        BY <2>1, <4>1 DEF CpuInv
      <4> QED
        BY <4>1, <4>2, <1>0 DEF Holds
    <3> QED
      BY <1>2, <3>1, <3>2
  <2>3. c = d
    BY <1>0, <1>1, <2>2, OneHolder
  <2>4. pc[c] \in {"wake", "thr"}
    BY <1>1, <1>2, <2>3
  <2>5. h[c] = "send" /\ pc[c] \in Inside
    BY <2>4 DEF Inside, Busy, Sending
  <2> QED
    BY <2>1, <2>3, <2>5 DEF CpuInv
<1> QED
  BY <1>2 DEF InHand, Waking

(* A step that wakes the sleepers of a call, under the lock of that call.    *)
LEMMA WakeStep ==
  ASSUME SleepInv, LockInv, TypeLk, NEW c \in Cpu, NEW what \in {"read", "write", "sleep"},
         Holds(c, LockOf[what]), pc[c] # "doze" \/ h[c] # "none",
         \A d \in Cpu : pc'[d] \in Drowsy => pc'[d] = pc[d] /\ ~ (pc[d] = "asleep" /\ call[d] = what),
         UNCHANGED <<call, n, from>>,
         what # "read" => UNCHANGED <<r, w>>,
         what # "write" => UNCHANGED <<txr, txw>> /\ (Waking => Waking'),
         what # "sleep" => UNCHANGED ticks
  PROVE  SleepInv'
<1> SUFFICES ASSUME NEW d \in Cpu, pc'[d] \in Drowsy PROVE Waits(d)'
  BY DEF SleepInv, Drowsy
<1>1. pc'[d] = pc[d] /\ ~ (pc[d] = "asleep" /\ call[d] = what)
  OBVIOUS
<1>2. Waits(d)
  BY <1>1 DEF SleepInv, Drowsy
<1>3. call[d] # what
  BY <1>1, NobodyDozes DEF Drowsy
<1> QED
  BY <1>2, <1>3 DEF Waits, TxFull, TooEarly

(* A byte is taken out of the transmit buffer: the wakeup() is to come. *)
LEMMA TakenStep ==
  ASSUME SleepInv, Waking', UNCHANGED <<call, n, from, r, w, ticks>>,
         \A d \in Cpu : pc'[d] \in Drowsy => pc[d] \in Drowsy
  PROVE  SleepInv'
<1> SUFFICES ASSUME NEW d \in Cpu, pc'[d] \in Drowsy PROVE Waits(d)'
  BY DEF SleepInv, Drowsy
<1>1. Waits(d)
  BY DEF SleepInv, Drowsy
<1> QED
  BY <1>1 DEF Waits, TooEarly

(* A step that takes what is there: nobody sleeps for it. *)
LEMMA TakeStep ==
  ASSUME SleepInv, NEW c \in Cpu, NEW what \in {"read", "write"},
         what = "read" => r # w, what = "write" => ~ TxFull /\ ~ Waking, Waking => Waking',
         \A d \in Cpu : pc'[d] \in Drowsy =>
           pc[d] \in Drowsy /\ call'[d] = call[d] /\ n'[d] = n[d] /\ from'[d] = from[d],
         what # "read" => UNCHANGED <<r, w>>, what # "write" => UNCHANGED <<txr, txw>>,
         UNCHANGED ticks
  PROVE  SleepInv'
<1> SUFFICES ASSUME NEW d \in Cpu, pc'[d] \in Drowsy PROVE Waits(d)'
  BY DEF SleepInv, Drowsy
<1>1. pc[d] \in Drowsy /\ call'[d] = call[d] /\ n'[d] = n[d] /\ from'[d] = from[d]
  OBVIOUS
<1>2. Waits(d)
  BY <1>1 DEF SleepInv, Drowsy
<1>3. call[d] # what
  BY <1>2 DEF Waits
<1> QED
  BY <1>1, <1>2, <1>3 DEF Waits, TxFull, TooEarly

(* A process decides to sleep. *)
LEMMA DozeStep ==
  ASSUME SleepInv, TypeLk, NEW c \in Cpu, Waits(c), Goto(c, "doze"), Waking => Waking',
         UNCHANGED <<call, n, from, r, w, txr, txw, ticks>>
  PROVE  SleepInv'
<1>t. pc \in [Cpu -> Stage]
  BY DEF TypeLk
<1> SUFFICES ASSUME NEW d \in Cpu, pc'[d] \in Drowsy PROVE Waits(d)'
  BY DEF SleepInv, Drowsy
<1>1. Waits(d)
  BY <1>t DEF Goto, SleepInv, Drowsy
<1> QED
  BY <1>1 DEF Waits, TxFull, TooEarly

(* The steps of processes, to the sleepers. *)
LEMMA SleepProcess ==
  ASSUME SleepInv, LockInv, TypeLk, TypeTime, TypeEnv, NEW c \in Cpu, Process(c), ~ WriteWake(c),
         Waking => Waking'
  PROVE  SleepInv'
<1>t. /\ pc \in [Cpu -> Stage] /\ n \in [Cpu -> Int] /\ from \in [Cpu -> 0 .. WRAP]
      /\ call \in [Cpu -> {"none", "read", "write", "sleep"}]
  BY DEF TypeLk, TypeTime
<1>g. ASSUME NEW s, s \notin Drowsy, Goto(c, s), UNCHANGED <<r, w, txr, txw, ticks>>,
             \A d \in Cpu \ {c} : call'[d] = call[d] /\ n'[d] = n[d] /\ from'[d] = from[d]
      PROVE  SleepInv'
  <2>1. \A d \in Cpu : pc'[d] \in Drowsy => d # c /\ pc'[d] = pc[d]
    BY <1>g, <1>t DEF Goto
  <2> QED
    BY <1>g, <2>1, SleepFrame DEF SleepSame
<1>d. "user" \notin Drowsy /\ "acquire" \notin Drowsy /\ "spin" \notin Drowsy /\ "locked" \notin Drowsy
      /\ "start" \notin Drowsy /\ "wake" \notin Drowsy /\ "exited" \notin Drowsy
  BY DEF Drowsy
<1>1. ASSUME Enter(c) PROVE SleepInv'
  <2>1. Goto(c, "acquire") /\ UNCHANGED <<r, w, txr, txw, ticks>>
    BY <1>1 DEF Enter, cons, uart
  <2>2. \A d \in Cpu \ {c} : call'[d] = call[d] /\ n'[d] = n[d] /\ from'[d] = from[d]
    BY <1>1, <1>t DEF Enter
  <2> QED
    BY <2>1, <2>2, <1>d, <1>g
<1>2. ASSUME Exit(c) PROVE SleepInv'
  BY <1>2, <1>d, <1>g DEF Exit, cons, uart, clock
<1>3. ASSUME PushOff(c) PROVE SleepInv'
  BY <1>3, <1>d, <1>g DEF PushOff, cons, uart, clock
<1>4. ASSUME TakeLock(c) PROVE SleepInv'
  BY <1>4, <1>d, <1>g DEF TakeLock, cons, uart, clock
<1>5. ASSUME Sleep(c) PROVE SleepInv'
  <2>1. \A d \in Cpu : pc'[d] \in Drowsy => pc[d] \in Drowsy
    BY <1>5, <1>t DEF Sleep, Goto, Drowsy
  <2> QED
    BY <1>5, <2>1, SleepFrame DEF Sleep, SleepSame, cons, uart, clock
<1>6. ASSUME ReadEmpty(c) PROVE SleepInv'
  <2>1. /\ call[c] = "read" /\ r = w /\ (Goto(c, "user") \/ Goto(c, "doze"))
        /\ UNCHANGED <<call, n, from, r, w, txr, txw, ticks>>
    BY <1>6 DEF ReadEmpty, At, cons, uart, clock
  <2>2. Waits(c)
    BY <2>1 DEF Waits
  <2> QED
    BY <2>1, <2>2, <1>d, <1>g, DozeStep
<1>7. ASSUME ReadByte(c) PROVE SleepInv'
  <2>1. /\ pc[c] = "locked" /\ r # w /\ (Goto(c, "user") \/ pc' = pc)
        /\ UNCHANGED <<call, from, w, txr, txw, ticks>>
    BY <1>7 DEF ReadByte, At, uart, clock
  <2>2. \A d \in Cpu \ {c} : n'[d] = n[d]
    BY <1>7, <1>t DEF ReadByte
  <2>3. \A d \in Cpu : pc'[d] \in Drowsy => d # c /\ pc'[d] = pc[d]
    BY <2>1, <1>t, <1>d DEF Goto
  <2>4. \A d \in Cpu : pc'[d] \in Drowsy =>
          pc[d] \in Drowsy /\ call'[d] = call[d] /\ n'[d] = n[d] /\ from'[d] = from[d]
    BY <2>1, <2>2, <2>3
  <2> QED
    BY <2>1, <2>4, TakeStep
<1>8. ASSUME WriteFull(c) PROVE SleepInv'
  <2>1. /\ call[c] = "write" /\ TxFull /\ Goto(c, "doze")
        /\ UNCHANGED <<call, n, from, r, w, txr, txw, ticks>>
    BY <1>8 DEF WriteFull, At, cons, uart, clock
  <2>2. Waits(c)
    BY <2>1 DEF Waits
  <2> QED
    BY <2>1, <2>2, DozeStep
<1>9. ASSUME WritePut(c) PROVE SleepInv'
  <2>1. /\ ~ TxFull /\ Goto(c, "start") /\ UNCHANGED <<call, n, from, r, w, ticks>>
    BY <1>9 DEF WritePut, cons, clock
  <2>4. ~ Waking
    BY <1>9, NobodySends DEF WritePut, At
  <2>2. \A d \in Cpu : pc'[d] \in Drowsy => pc'[d] = pc[d]
    BY <2>1, <1>t, <1>d DEF Goto
  <2>3. \A d \in Cpu : pc'[d] \in Drowsy =>
          pc[d] \in Drowsy /\ call'[d] = call[d] /\ n'[d] = n[d] /\ from'[d] = from[d]
    BY <2>1, <2>2
  <2> QED
    BY <2>1, <2>3, <2>4, TakeStep
<1>10. ASSUME WriteStart(c) PROVE SleepInv'
  <2>1. Goto(c, "wake") /\ UNCHANGED <<call, n, from, r, w, ticks>>
    BY <1>10 DEF WriteStart, cons, clock
  <2>2. pc'[c] = "wake" /\ \A d \in Cpu : pc'[d] \in Drowsy => pc[d] \in Drowsy
    BY <2>1, <1>t, <1>d DEF Goto
  <2>3. Waking'
    BY <2>2 DEF Waking
  <2> QED
    BY <2>1, <2>2, <2>3, TakenStep
<1>14. ASSUME WriteThr(c) PROVE SleepInv'
  BY <1>14, <1>d, <1>g DEF WriteThr, SendPut, cons, clock
<1>11. ASSUME WriteDone(c) PROVE SleepInv'
  <2>1. (Goto(c, "user") \/ Goto(c, "acquire")) /\ UNCHANGED <<call, from, r, w, txr, txw, ticks>>
    BY <1>11 DEF WriteDone, SendEnd, cons, clock
  <2>2. \A d \in Cpu \ {c} : n'[d] = n[d]
    BY <1>11, <1>t DEF WriteDone
  <2> QED
    BY <2>1, <2>2, <1>d, <1>g
<1>12. ASSUME SleepStart(c) PROVE SleepInv'
  <2>1. /\ pc[c] = "locked" /\ UNCHANGED <<pc, call, n, r, w, txr, txw, ticks>>
    BY <1>12 DEF SleepStart, At, cons, uart, clock
  <2>2. \A d \in Cpu \ {c} : from'[d] = from[d]
    BY <1>12, <1>t DEF SleepStart
  <2> QED
    BY <2>1, <2>2, <1>d, SleepFrame DEF SleepSame
<1>13. ASSUME SleepTest(c) PROVE SleepInv'
  <2>1. /\ call[c] = "sleep" /\ (Goto(c, "user") \/ (TooEarly(c) /\ Goto(c, "doze")))
        /\ UNCHANGED <<call, n, from, r, w, txr, txw, ticks>>
    BY <1>13 DEF SleepTest, At, cons, uart, clock
  <2>2. TooEarly(c) => Waits(c)
    BY <2>1 DEF Waits
  <2> QED
    BY <2>1, <2>2, <1>d, <1>g, DozeStep
<1> QED
  BY <1>1, <1>2, <1>3, <1>4, <1>5, <1>6, <1>7, <1>8, <1>9, <1>10, <1>11, <1>12, <1>13, <1>14
     DEF Process

(* Who is in uartstart() goes on through it, whatever the others do. *)
LEMMA SenderGoesOn ==
  ASSUME TypeLk, [Next]_vars, NEW d \in Cpu
  PROVE  /\ pc[d] = "wake" => pc'[d] = "wake" \/ WriteWake(d)
         /\ pc[d] = "thr" => pc'[d] = "thr" \/ WriteThr(d)
         /\ h[d] = "wake" => h'[d] = "wake" \/ IntrWake(d)
         /\ h[d] = "thr" => h'[d] = "thr" \/ IntrThr(d)
<1> DEFINE Goal == /\ pc[d] = "wake" => pc'[d] = "wake" \/ WriteWake(d)
                   /\ pc[d] = "thr" => pc'[d] = "thr" \/ WriteThr(d)
                   /\ h[d] = "wake" => h'[d] = "wake" \/ IntrWake(d)
                   /\ h[d] = "thr" => h'[d] = "thr" \/ IntrThr(d)
           Calm(c) == \A b \in Cpu : b # c => pc'[b] = pc[b] \/ pc[b] = "asleep"
<1>t. pc \in [Cpu -> Stage] /\ h \in [Cpu -> HStage]
  BY DEF TypeLk
<1>w. \A what : \A b \in Cpu : Wakeup(what)[b] = pc[b] \/ pc[b] = "asleep"
  BY DEF Wakeup
<1>p. ASSUME NEW c \in Cpu, h' = h, Calm(c),
             pc[c] \in {"wake", "thr"} => WriteWake(c) \/ WriteThr(c),
             pc[c] = "wake" => WriteWake(c), pc[c] = "thr" => WriteThr(c)
      PROVE  Goal
  BY <1>p
<1>g. ASSUME NEW c \in Cpu, NEW s, Goto(c, s) PROVE Calm(c)
  BY <1>g, <1>t DEF Goto
<1>k. ASSUME NEW c \in Cpu, NEW s, HGoto(c, s) PROVE \A b \in Cpu : b # c => h'[b] = h[b]
  BY <1>k, <1>t DEF HGoto
<1>1. ASSUME NEW c \in Cpu, Process(c) PROVE Goal
  <2>1. h' = h
    BY <1>1 DEF Process, Enter, PushOff, TakeLock, Sleep, Exit, ReadEmpty, ReadByte, WriteFull, WritePut,
                WriteStart, WriteWake, WriteThr, WriteDone, SleepStart, SleepTest, Quiet
  <2>2. (pc[c] = "wake" => WriteWake(c)) /\ (pc[c] = "thr" => WriteThr(c))
    BY <1>1 DEF Process, Enter, PushOff, TakeLock, Sleep, Exit, ReadEmpty, ReadByte, WriteFull, WritePut,
                WriteStart, WriteWake, WriteThr, WriteDone, SleepStart, SleepTest, At
  <2>3. Calm(c)
    <3>1. WriteWake(c) => Calm(c)
      <4>1. Wakeup("write") \in [Cpu -> Stage]
        BY WakeupIs
      <4> QED
        BY <4>1, <1>w DEF WriteWake
    <3>2. ASSUME ~ WriteWake(c) PROVE pc' = pc \/ \E s : Goto(c, s)
      BY <1>1, <3>2 DEF Process, Enter, PushOff, TakeLock, Sleep, Exit, ReadEmpty, ReadByte, WriteFull,
                        WritePut, WriteStart, WriteThr, WriteDone, SleepStart, SleepTest
    <3> QED
      BY <3>1, <3>2, <1>g
  <2> QED
    BY <2>1, <2>2, <2>3, <1>p
<1>2. ASSUME NEW c \in Cpu, Handler(c) PROVE Goal
  <2>1. \A b \in Cpu : pc'[b] = pc[b] \/ pc[b] = "asleep"
    <3>1. pc' = pc \/ \E what : pc' = Wakeup(what)
      BY <1>2 DEF Handler, HTake, IntrGet, IntrCase, EchoOff, EchoWait, Echo, IntrErase, IntrStore,
                  IntrSend, IntrWake, IntrThr, IntrDone, Tick, thread
    <3> QED
      BY <3>1, <1>w
  <2>2. (h[c] = "wake" => IntrWake(c)) /\ (h[c] = "thr" => IntrThr(c))
    BY <1>2 DEF Handler, HTake, IntrGet, IntrCase, EchoOff, EchoWait, Echo, IntrErase, IntrStore,
                IntrSend, IntrWake, IntrThr, IntrDone, Tick
  <2>3. \E s : HGoto(c, s)
    BY <1>2 DEF Handler, HTake, IntrGet, IntrCase, EchoOff, EchoWait, Echo, IntrErase, IntrStore,
                IntrSend, IntrWake, IntrThr, IntrDone, Tick
  <2> QED
    BY <2>1, <2>2, <2>3, <1>k
<1>3. ASSUME NEW c \in Cpu, UartIntr(c) \/ ClockIntr(c) PROVE Goal
  <2>1. pc' = pc /\ h[c] = "none" /\ \E s : HGoto(c, s)
    BY <1>3 DEF UartIntr, ClockIntr, Trap, HGoto, thread
  <2> QED
    BY <2>1, <1>k
<1>4. ASSUME NEW c \in Cpu, Kill(c) PROVE Goal
  <2>1. h' = h /\ (pc' = pc \/ (pc[c] = "asleep" /\ Goto(c, "acquire")))
    BY <1>4 DEF Kill, Goto
  <2> QED
    BY <2>1, <1>g
<1>5. Type \/ DevSend \/ UNCHANGED vars => pc' = pc /\ h' = h
  BY DEF Type, DevSend, vars, thread
<1> QED
  BY <1>1, <1>2, <1>3, <1>4, <1>5 DEF Next

(* A byte in hand is with somebody in uartstart(), who finds the buffer's    *)
(* lock its own.                                                             *)
LEMMA HandStep ==
  ASSUME TypeLk, LockInv, HandInv, [Next]_vars
  PROVE  HandInv' /\ \A c \in Cpu : WriteStart(c) \/ IntrSend(c) => hand = <<>>
<1>t. pc \in [Cpu -> Stage] /\ h \in [Cpu -> HStage]
  BY DEF TypeLk
<1>1. ASSUME NEW c \in Cpu, WriteStart(c) \/ IntrSend(c) PROVE hand = <<>> /\ InHand'
  <2>1. ~ InHand
    BY <1>1, NobodySends DEF WriteStart, IntrSend, At
  <2>2. pc'[c] = "wake" \/ h'[c] = "wake"
    BY <1>1, <1>t DEF WriteStart, IntrSend, Goto, HGoto
  <2> QED
    BY <2>1, <2>2 DEF HandInv, InHand
<1>2. SendPut => hand' = <<>>
  BY DEF SendPut
<1>3. \/ hand' = hand \/ SendPut \/ \E c \in Cpu : WriteStart(c) \/ IntrSend(c)
  BY OutTouch DEF WritePut, Echo, DevSend
<1>4. ASSUME hand' = hand, hand # <<>>, ~ SendPut PROVE InHand'
  <2>1. PICK d \in Cpu : pc[d] \in {"wake", "thr"} \/ h[d] \in {"wake", "thr"}
    BY <1>4 DEF HandInv, InHand
  <2>2. ~ WriteThr(d) /\ ~ IntrThr(d)
    BY <1>4 DEF WriteThr, IntrThr
  <2>3. (WriteWake(d) => pc'[d] = "thr") /\ (IntrWake(d) => h'[d] = "thr")
    <3>1. Wakeup("write") \in [Cpu -> Stage]
      BY WakeupIs
    <3> QED
      BY <1>t, <3>1 DEF WriteWake, IntrWake, HGoto
  <2> QED
    BY <2>1, <2>2, <2>3, SenderGoesOn DEF InHand
<1> QED
  BY <1>1, <1>2, <1>3, <1>4 DEF HandInv

(* The wakeup() of the writers. *)
LEMMA WriteWakeSleep ==
  ASSUME SleepInv, LockInv, TypeLk, NEW c \in Cpu, WriteWake(c) \/ IntrWake(c)
  PROVE  SleepInv'
<1>0. "wake" \in HHeld["tx"] /\ LockOf["write"] = "tx"
  BY LockTable
<1>1. UNCHANGED <<call, n, from, r, w, ticks>>
  BY DEF WriteWake, IntrWake, cons, clock
<1>2. Holds(c, LockOf["write"]) /\ (pc[c] # "doze" \/ h[c] # "none")
  BY <1>0 DEF WriteWake, IntrWake, At, Holds, Busy, Sending
<1>3. Wakeup("write") \in [Cpu -> Stage]
  BY WakeupIs
<1>4. \A d \in Cpu : pc'[d] \in Drowsy => pc'[d] = Wakeup("write")[d]
  BY <1>3 DEF WriteWake, IntrWake, Drowsy
<1>5. \A d \in Cpu : pc'[d] \in Drowsy => pc'[d] = pc[d] /\ ~ (pc[d] = "asleep" /\ call[d] = "write")
  BY <1>4 DEF Wakeup, Drowsy
<1> QED
  BY <1>1, <1>2, <1>5, WakeStep

(* The sleepers' part of the invariant is preserved. *)
LEMMA SleepersStep ==
  ASSUME SleepInv, LockInv, TypeLk, TypeTime, TypeEnv, [Next]_vars
  PROVE  SleepInv'
<1>w. (Waking => Waking') \/ \E d \in Cpu : WriteWake(d) \/ IntrWake(d)
  BY SenderGoesOn DEF Waking
<1> SUFFICES ASSUME Waking => Waking', \A d \in Cpu : ~ WriteWake(d) /\ ~ IntrWake(d) PROVE SleepInv'
  BY <1>w, WriteWakeSleep
<1>t. pc \in [Cpu -> Stage] /\ h \in [Cpu -> HStage]
  BY DEF TypeLk
<1>u. UNCHANGED <<pc, call, n, from, r, w, txr, txw, ticks>> => SleepInv'
  BY SleepFrame DEF SleepSame
<1>h. "after" \in HHeld["cons"] /\ "tick" \in HHeld["time"]
  BY LockTable
<1>v. ASSUME NEW what, pc' = Wakeup(what), NEW d \in Cpu, pc'[d] \in Drowsy
      PROVE  pc'[d] = pc[d] /\ ~ (pc[d] = "asleep" /\ call[d] = what)
  BY <1>v DEF Wakeup, Drowsy
<1>1. ASSUME NEW c \in Cpu, Handler(c) PROVE SleepInv'
  <2>1. ASSUME NEW a, NEW l, NEW b, HTake(c, a, l, b) PROVE SleepInv'
    BY <2>1, <1>u DEF HTake, thread, cons, uart, clock
  <2>2. IntrGet(c) \/ EchoOff(c) \/ EchoWait(c) => SleepInv'
    BY <1>u DEF IntrGet, EchoOff, EchoWait, thread, cons, uart, clock
  <2>3. IntrCase(c) => SleepInv'
    BY <1>u DEF IntrCase, thread, uart, clock
  <2>4. IntrErase(c) \/ Echo(c) => SleepInv'
    BY <1>u DEF IntrErase, Echo, thread, cons, uart, clock
  <2>5. IntrDone(c) \/ IntrThr(c) => SleepInv'
    BY <1>u DEF IntrDone, IntrThr, SendEnd, SendPut, thread, cons, clock
  <2>6. ASSUME IntrStore(c) PROVE SleepInv'
    <3>1. /\ h[c] = "after" /\ UNCHANGED <<call, n, from, r, txr, txw, ticks>>
          /\ (w' = w /\ pc' = pc) \/ pc' = Wakeup("read")
      BY <2>6 DEF IntrStore, uart, clock
    <3>2. Holds(c, LockOf["read"]) /\ h[c] # "none"
      BY <3>1, <1>h, LockTable DEF Holds
    <3>3. ASSUME pc' = Wakeup("read") PROVE SleepInv'
      BY <3>1, <3>2, <3>3, <1>v, WakeStep
    <3> QED
      BY <3>1, <3>3, <1>u
  <2>7. ASSUME IntrSend(c) PROVE SleepInv'
    <3>1. HGoto(c, "wake") /\ UNCHANGED <<pc, call, n, from, r, w, ticks>>
      BY <2>7 DEF IntrSend, thread, cons, clock
    <3>2. h'[c] = "wake"
      BY <3>1, <1>t DEF HGoto
    <3>3. Waking'
      BY <3>2 DEF Waking
    <3> QED
      BY <3>1, <3>3, TakenStep
  <2>8. ASSUME Tick(c) PROVE SleepInv'
    <3>1. h[c] = "tick" /\ UNCHANGED <<call, n, from, r, w, txr, txw>> /\ pc' = Wakeup("sleep")
      BY <2>8 DEF Tick, cons, uart
    <3>2. Holds(c, LockOf["sleep"]) /\ h[c] # "none"
      BY <3>1, <1>h, LockTable DEF Holds
    <3> QED
      BY <3>1, <3>2, <1>v, WakeStep
  <2> QED
    BY <1>1, <2>1, <2>2, <2>3, <2>4, <2>5, <2>6, <2>7, <2>8 DEF Handler
<1>2. ASSUME NEW c \in Cpu, UartIntr(c) \/ ClockIntr(c) PROVE SleepInv'
  BY <1>2, <1>u DEF UartIntr, ClockIntr, thread, cons, uart, clock
<1>3. ASSUME NEW c \in Cpu, Kill(c) PROVE SleepInv'
  <2>2. \A d \in Cpu : pc'[d] \in Drowsy => pc'[d] = pc[d]
    BY <1>3, <1>t DEF Kill, Drowsy
  <2> QED
    BY <1>3, <2>2, SleepFrame DEF Kill, SleepSame, cons, uart, clock
<1>4. Type \/ DevSend => SleepInv'
  BY <1>u DEF Type, DevSend, thread, cons, uart, clock
<1>5. UNCHANGED vars => SleepInv'
  BY <1>u DEF vars, thread, cons, uart, clock
<1> QED
  BY <1>1, <1>2, <1>3, <1>4, <1>5, SleepProcess DEF Next

(* The environment's part of the types is preserved. *)
LEMMA EnvStep ==
  ASSUME TypeEnv, [Next]_vars
  PROVE  TypeEnv'
<1> DEFINE Todo == [calls : [Cpu -> Seq(Calls)], keys : Seq(Key), ticks : Nat, now : Index,
                    kill : SUBSET Cpu, bad : SUBSET Cpu]
<1>t. rx \in Seq(Key) /\ todo \in Todo
  BY DEF TypeEnv
<1>f. /\ todo.calls \in [Cpu -> Seq(Calls)] /\ todo.keys \in Seq(Key)
      /\ todo.ticks \in Nat /\ todo.now \in Index /\ todo.kill \in SUBSET Cpu
      /\ todo.bad \in SUBSET Cpu
  BY <1>t
<1>u. UNCHANGED <<rx, todo>> => TypeEnv'
  BY <1>t DEF TypeEnv
<1>1. ASSUME NEW c \in Cpu, Enter(c) PROVE TypeEnv'
  <2>1. rx' = rx /\ todo' = [todo EXCEPT !.calls[c] = Tail(@)] /\ todo.calls[c] # <<>>
    BY <1>1 DEF Enter, Quiet
  <2>2. Tail(todo.calls[c]) \in Seq(Calls)
    <3> DEFINE s == todo.calls[c]
    <3>1. s \in Seq(Calls) /\ s # <<>>
      BY <1>f, <2>1
    <3> HIDE DEF s
    <3>2. Tail(s) \in Seq(Calls)
      BY <3>1, SMTT(30)
    <3> QED
      BY <3>2 DEF s
  <2> DEFINE f == [todo.calls EXCEPT ![c] = Tail(@)]
  <2>3. f \in [Cpu -> Seq(Calls)]
    BY <1>f, <2>2
  <2>4. todo' = [todo EXCEPT !.calls = f]
    BY <2>1
  <2> HIDE DEF f
  <2>5. todo' \in Todo
    BY <1>t, <1>f, <2>3, <2>4
  <2> QED
    BY <1>t, <2>1, <2>5 DEF TypeEnv
<1>2. ASSUME NEW c \in Cpu, ClockIntr(c) PROVE TypeEnv'
  <2>1. rx' = rx /\ todo' = [todo EXCEPT !.ticks = @ - 1] /\ todo.ticks > 0
    BY <1>2 DEF ClockIntr
  <2>2. todo.ticks - 1 \in Nat
    BY <1>f, <2>1, SMTT(30)
  <2>3. todo' \in Todo
    BY <1>t, <1>f, <2>1, <2>2
  <2> QED
    BY <1>t, <2>1, <2>3 DEF TypeEnv
<1>3. ASSUME Type PROVE TypeEnv'
  <2>1. /\ todo.keys # <<>> /\ rx' = Append(rx, Head(todo.keys))
        /\ todo' = [todo EXCEPT !.keys = Tail(@)]
    BY <1>3 DEF Type
  <2> DEFINE k == todo.keys
  <2>2. k \in Seq(Key) /\ k # <<>>
    BY <1>f, <2>1
  <2> HIDE DEF k
  <2>3. Tail(k) \in Seq(Key) /\ Append(rx, Head(k)) \in Seq(Key)
    BY <1>t, <2>2, SMTT(30)
  <2>4. todo' \in Todo
    BY <1>t, <1>f, <2>1, <2>3 DEF k
  <2> QED
    BY <2>1, <2>3, <2>4 DEF TypeEnv, k
<1>4. ASSUME NEW c \in Cpu, IntrGet(c) PROVE TypeEnv'
  <2>1. todo' = todo /\ (rx' = rx \/ (rx # <<>> /\ rx' = Tail(rx)))
    BY <1>4 DEF IntrGet, hist
  <2>2. rx # <<>> => Tail(rx) \in Seq(Key)
    BY <1>t, SMTT(30)
  <2> QED
    BY <1>t, <2>1, <2>2 DEF TypeEnv
<1>5. ASSUME NEW c \in Cpu, Process(c) PROVE Enter(c) \/ UNCHANGED <<rx, todo>>
  BY <1>5 DEF Process, PushOff, TakeLock, Sleep, Exit, ReadEmpty, ReadByte, WriteFull, WritePut,
              WriteStart, WriteWake, WriteThr, WriteDone, SleepStart, SleepTest, Quiet, hist
<1>6. ASSUME NEW c \in Cpu, Handler(c) PROVE IntrGet(c) \/ UNCHANGED <<rx, todo>>
  BY <1>6 DEF Handler, HTake, IntrCase, EchoOff, EchoWait, Echo, IntrErase, IntrStore, IntrSend,
              IntrWake, IntrThr, IntrDone, Tick, hist
<1>7. ASSUME NEW c \in Cpu, UartIntr(c) \/ Kill(c) PROVE UNCHANGED <<rx, todo>>
  BY <1>7 DEF UartIntr, Kill, hist
<1>8. DevSend \/ UNCHANGED vars => UNCHANGED <<rx, todo>>
  BY DEF DevSend, vars, hist
<1> QED
  BY <1>u, <1>1, <1>2, <1>3, <1>4, <1>5, <1>6, <1>7, <1>8 DEF Next

-----------------------------------------------------------------------------
(* The console's buffer.                                                     *)

(* Distances along the buffer add up. *)
LEMMA SubSplit ==
  ASSUME NEW a \in Index, NEW b \in Index, NEW d \in Index, Sub(b, a) <= Sub(d, a)
  PROVE  Sub(d, a) = Sub(b, a) + Sub(d, b)
<1>1. /\ Sub(b, a) = IF b >= a THEN b - a ELSE b - a + WRAP
      /\ Sub(d, a) = IF d >= a THEN d - a ELSE d - a + WRAP
      /\ Sub(d, b) = IF d >= b THEN d - b ELSE d - b + WRAP
  BY SubVal DEF Index
<1> QED
  BY <1>1, Sizes, SMTT(30) DEF Index

(* No distance to itself. *)
LEMMA SubSelf == ASSUME NEW a \in Index PROVE Sub(a, a) = 0
  BY Sizes, SMTT(30) DEF Sub, Index

(* One step back, over an element that is there. *)
LEMMA SubBack ==
  ASSUME NEW a \in Index, NEW b \in Index, a # b
  PROVE  Sub(b, 1) \in Index /\ Sub(Sub(b, 1), a) = Sub(b, a) - 1 /\ Sub(b, a) > 0
<1>1. Sub(b, 1) = IF b >= 1 THEN b - 1 ELSE WRAP - 1
  BY Sizes, SMTT(30) DEF Index, Sub
<1>2. Sub(b, 1) \in Index
  BY <1>1, Sizes, SMTT(30) DEF Index
<1>3. /\ Sub(b, a) = IF b >= a THEN b - a ELSE b - a + WRAP
      /\ Sub(Sub(b, 1), a) = IF Sub(b, 1) >= a THEN Sub(b, 1) - a ELSE Sub(b, 1) - a + WRAP
  BY <1>2, SubVal DEF Index
<1> QED
  BY <1>1, <1>2, <1>3, Sizes, SMTT(30) DEF Index

(* Element i after index b is element i + Sub(b, a) after a. *)
LEMMA SlotFurther ==
  ASSUME NEW d, Size(d), NEW a \in Index, NEW b \in Index, NEW i \in Int
  PROVE  (a + (Sub(b, a) + i) - 1) % d = (b + i - 1) % d
<1>1. d \in Nat \ {0} /\ WRAP \in Nat /\ WRAP % d = 0
  BY TtyAssumption DEF Size
<1>0. a \in Int /\ b \in Int
  BY Sizes, SMTT(30) DEF Index
<1>s. Sub(b, a) = IF b >= a THEN b - a ELSE b - a + WRAP
  BY SubVal DEF Index
<1>2. CASE b >= a
  <2>1. a + (Sub(b, a) + i) - 1 = b + i - 1
    BY <1>0, <1>2, <1>s, SMTT(30)
  <2> QED
    BY <2>1
<1>3. CASE ~ (b >= a)
  <2>1. a + (Sub(b, a) + i) - 1 = (b + i - 1) + WRAP /\ b + i - 1 \in Int /\ WRAP \in Int
    BY <1>0, <1>3, <1>1, <1>s, SMTT(30)
  <2>2. ((b + i - 1) + WRAP) % d = (b + i - 1) % d
    BY <1>1, <2>1, ModShift
  <2> QED
    BY <2>1, <2>2
<1> QED
  BY <1>2, <1>3

(* The contents from a to c are those from a to b and those from b to c. *)
Splits(f, d, a, b, c) == Ring(f, d, a, c) = Ring(f, d, a, b) \o Ring(f, d, b, c)

(* It is so for three indices that follow each other. *)
LEMMA RingSplit ==
  ASSUME NEW d, Size(d), NEW a \in Index, NEW b \in Index, NEW c \in Index,
         Sub(b, a) <= Sub(c, a), NEW T, NEW f \in [0 .. d - 1 -> T]
  PROVE  Splits(f, d, a, b, c)
<1> DEFINE s == Ring(f, d, a, c)
           t == Ring(f, d, a, b)
           u == Ring(f, d, b, c)
           k == Sub(b, a)
           m == Sub(c, b)
<1>1. k \in Nat /\ m \in Nat /\ Sub(c, a) = k + m
  <2>1. Sub(b, a) \in 0 .. WRAP - 1 /\ Sub(c, b) \in 0 .. WRAP - 1
    BY SubVal DEF Index
  <2>2. Sub(c, a) = Sub(b, a) + Sub(c, b)
    BY SubSplit
  <2> QED
    BY <2>1, <2>2, SMTT(30)
<1>2. s \in Seq(T) /\ Reads(s, f, d, a, c)
  BY RingElems
<1>3. t \in Seq(T) /\ Reads(t, f, d, a, b)
  BY RingElems
<1>4. u \in Seq(T) /\ Reads(u, f, d, b, c)
  BY RingElems
<1> HIDE DEF s, t, u
<1>5. Len(s) = k + m /\ \A i \in 1 .. k + m : s[i] = f[(a + i - 1) % d]
  BY <1>1, <1>2 DEF Reads
<1>6. Len(t) = k /\ \A i \in 1 .. k : t[i] = f[(a + i - 1) % d]
  BY <1>3 DEF Reads
<1>7. Len(u) = m /\ \A i \in 1 .. m : u[i] = f[(b + i - 1) % d]
  BY <1>4 DEF Reads
<1>8. ASSUME NEW i \in 1 .. m PROVE s[k + i] = u[i]
  <2>1. i \in Int /\ k + i \in 1 .. k + m
    BY <1>1, SMTT(30)
  <2>2. (a + (Sub(b, a) + i) - 1) % d = (b + i - 1) % d
    BY <2>1, SlotFurther
  <2>3. s[k + i] = f[(a + (k + i) - 1) % d] /\ u[i] = f[(b + i - 1) % d]
    BY <1>5, <1>7, <2>1
  <2> QED
    BY <2>2, <2>3
<1> HIDE DEF k, m
<1>9. \A i \in 1 .. k : i \in 1 .. k + m
  BY <1>1, SMTT(30)
<1>10. \A i \in 1 .. k : s[i] = t[i]
  BY <1>5, <1>6, <1>9
<1>11. \A i \in 1 .. m : s[k + i] = u[i]
  BY <1>8
<1>12. Len(t \o u) = k + m /\ t \o u \in Seq(T)
  <2>1. Len(t) = k /\ Len(u) = m /\ t \in Seq(T) /\ u \in Seq(T)
    BY <1>3, <1>4, <1>6, <1>7
  <2> QED
    BY <2>1, SMTT(30)
<1>13. ASSUME NEW i \in 1 .. k + m PROVE s[i] = (t \o u)[i]
  <2>1. CASE i <= k
    BY <1>1, <1>3, <1>4, <1>6, <1>7, <1>10, <2>1, SMTT(30)
  <2>2. CASE ~ (i <= k)
    <3> DEFINE j == i - k
    <3>1. j \in 1 .. m /\ i = k + j
      BY <1>1, <2>2, SMTT(30)
    <3> HIDE DEF j
    <3>2. (t \o u)[k + j] = u[j]
      BY <1>1, <1>3, <1>4, <1>6, <1>7, <3>1, SMTT(30)
    <3> QED
      BY <1>11, <3>1, <3>2
  <2> QED
    BY <2>1, <2>2
<1>14. s = t \o u
  BY <1>2, <1>5, <1>12, <1>13, SeqEq
<1> QED
  BY <1>14 DEF s, t, u, Splits

(* Storing x at index c leaves the contents from a to b. *)
Keeps(f, d, a, b, c, x) == Ring([f EXCEPT ![c % d] = x], d, a, b) = Ring(f, d, a, b)

(* A character stored at index c changes nothing before it. *)
LEMMA RingKeeps ==
  ASSUME NEW d, Size(d), NEW a \in Index, NEW b \in Index, NEW c \in Index,
         Sub(b, a) <= Sub(c, a), Sub(c, a) < d,
         NEW T, NEW f \in [0 .. d - 1 -> T], NEW x \in T
  PROVE  Keeps(f, d, a, b, c, x)
<1>1. Sub(b, a) \in Nat /\ Sub(c, a) \in Nat /\ a \in Int
  BY SubVal, Sizes, SMTT(30) DEF Index
<1>2. ASSUME NEW i \in 1 .. Sub(b, a)
      PROVE  [f EXCEPT ![c % d] = x][(a + i - 1) % d] = f[(a + i - 1) % d]
  <2>1. i \in 1 .. Sub(c, a) /\ a + i - 1 \in Int
    BY <1>1, SMTT(30)
  <2>2. (a + i - 1) % d # c % d
    BY <2>1, SlotFree DEF Index
  <2>3. (a + i - 1) % d \in 0 .. d - 1
    BY <2>1, ModRange DEF Size
  <2> QED
    BY <2>2, <2>3
<1> QED
  BY <1>2 DEF Ring, Keeps

(* What is known of the console's state, one piece a fact. *)
LEMMA InFacts ==
  ASSUME TypeIn
  PROVE  /\ buf \in [0 .. SIZE - 1 -> Key \union {Nil}] /\ r \in Index /\ w \in Index /\ e \in Index
         /\ edited.done \in Seq(Key) /\ edited.line \in Seq(Key) /\ got \in Seq(Key)
         /\ key \in [Cpu -> Key \union {Nil}]
         /\ Sub(e, r) \in Nat /\ Sub(w, r) \in Nat /\ Sub(e, w) \in Nat
         /\ edited = [done |-> edited.done, line |-> edited.line]
<1>1. /\ buf \in [0 .. SIZE - 1 -> Key \union {Nil}] /\ r \in Index /\ w \in Index /\ e \in Index
      /\ got \in Seq(Key) /\ key \in [Cpu -> Key \union {Nil}]
      /\ edited \in [done : Seq(Key), line : Seq(Key)]
  BY DEF TypeIn
<1>2. /\ edited.done \in Seq(Key) /\ edited.line \in Seq(Key)
      /\ edited = [done |-> edited.done, line |-> edited.line]
  BY <1>1
<1>3. /\ Sub(e, r) \in 0 .. WRAP - 1 /\ Sub(w, r) \in 0 .. WRAP - 1 /\ Sub(e, w) \in 0 .. WRAP - 1
  BY <1>1, SubVal DEF Index
<1>4. Sub(e, r) \in Nat /\ Sub(w, r) \in Nat /\ Sub(e, w) \in Nat
  BY <1>3, SMTT(30)
<1> QED
  BY <1>1, <1>2, <1>4

InHandler == {"cons", "case", "echo", "wait", "put", "after"}

(* Steps that leave the console alone. *)
InSame ==
  /\ UNCHANGED <<buf, r, w, e, edited, got>>
  /\ \A d \in Cpu : /\ h'[d] = h[d] \/ (h[d] \notin InHandler /\ h'[d] \notin InHandler)
                    /\ key'[d] = key[d]
  /\ key' = key

LEMMA InFrame == ASSUME TypeIn, InInv, InSame PROVE TypeIn' /\ InInv'
<1>u. UNCHANGED <<buf, r, w, e, edited, got, key>>
  BY DEF InSame
<1>1. TypeIn'
  BY <1>u DEF TypeIn
<1>2. ConsInv'
  BY <1>u DEF InInv, ConsInv, Ring, Sub
<1>3. \A d \in Cpu : h'[d] = h[d] \/ (h[d] \notin InHandler /\ h'[d] \notin InHandler)
  BY DEF InSame
<1>4. \A d \in Cpu : Erasing(d)' <=> Erasing(d)
  BY <1>u, <1>3 DEF Erasing, InHandler
<1>5. Room' <=> Room
  BY <1>u DEF Room
<1>6. EditInv
  BY DEF InInv
<1>7. \A c \in Cpu : (key'[c] = "^H" /\ h'[c] \in {"echo", "wait", "put", "after"})
                        => Len(edited'.line) = Sub(e', w') + 1
  BY <1>u, <1>3, <1>6 DEF EditInv, InHandler
<1>8. (\A c \in Cpu : ~ Erasing(c)') => Len(edited'.line) = Sub(e', w')
  BY <1>u, <1>4, <1>6 DEF EditInv
<1>9. \A c \in Cpu : h'[c] \in InHandler => key'[c] \in Key
  BY <1>u, <1>3, <1>6 DEF EditInv, InHandler
<1>10. \A c \in Cpu : (h'[c] \in {"echo", "wait", "put", "after"} /\ key'[c] \notin {"^H", "^U"}) => Room'
  BY <1>u, <1>3, <1>5, <1>6 DEF EditInv, InHandler
<1>11. EditInv'
  BY <1>7, <1>8, <1>9, <1>10 DEF EditInv, InHandler
<1> QED
  BY <1>1, <1>2, <1>11 DEF InInv

(* The handler of c has cons.lock, and no other handler does. *)
UnderLock == {"case", "echo", "wait", "put", "after"}
Alone(c) == \A d \in Cpu \ {c} : h[d] \notin UnderLock

LEMMA AloneIs ==
  ASSUME LockInv, NEW c \in Cpu, h[c] \in UnderLock PROVE Alone(c)
<1>1. "cons" \in Lock /\ HHeld["cons"] = UnderLock
  BY LockTable DEF Lock, UnderLock
<1>2. \A d \in Cpu : h[d] \in UnderLock => Holds(d, "cons")
  BY <1>1 DEF Holds
<1> QED
  BY <1>1, <1>2, OneHolder DEF Alone

(* What the editing part of the invariant says of the one handler in it. *)
EditOne(c) ==
  /\ (key[c] = "^H" /\ h[c] \in {"echo", "wait", "put", "after"}) => Len(edited.line) = Sub(e, w) + 1
  /\ ~ Erasing(c) => Len(edited.line) = Sub(e, w)
  /\ h[c] \in InHandler => key[c] \in Key
  /\ (h[c] \in {"echo", "wait", "put", "after"} /\ key[c] \notin {"^H", "^U"}) => Room

LEMMA EditOneIs ==
  ASSUME EditInv, NEW c \in Cpu, Alone(c) PROVE EditOne(c)
<1>1. \A d \in Cpu \ {c} : ~ Erasing(d)
  BY DEF Alone, Erasing, UnderLock
<1>2. ~ Erasing(c) => \A d \in Cpu : ~ Erasing(d)
  BY <1>1
<1> QED
  BY <1>2 DEF EditInv, EditOne, InHandler

LEMMA EditAlone ==
  ASSUME EditInv, NEW c \in Cpu, Alone(c), key' = key, EditOne(c)',
         \A d \in Cpu \ {c} : h'[d] = h[d]
  PROVE  EditInv'
<1>1. \A d \in Cpu \ {c} : h'[d] \notin UnderLock
  BY DEF Alone
<1>2. \A d \in Cpu \ {c} : ~ Erasing(d)'
  BY <1>1 DEF Erasing, UnderLock
<1>3. \A d \in Cpu : (key'[d] = "^H" /\ h'[d] \in {"echo", "wait", "put", "after"})
                        => Len(edited'.line) = Sub(e', w') + 1
  BY <1>1 DEF EditOne, UnderLock
<1>4. (\A d \in Cpu : ~ Erasing(d)') => Len(edited'.line) = Sub(e', w')
  BY DEF EditOne
<1>5. \A d \in Cpu : h'[d] \in InHandler => key'[d] \in Key
  BY DEF EditOne, EditInv, InHandler
<1>6. \A d \in Cpu : (h'[d] \in {"echo", "wait", "put", "after"} /\ key'[d] \notin {"^H", "^U"}) => Room'
  BY <1>1 DEF EditOne, UnderLock
<1> QED
  BY <1>3, <1>4, <1>5, <1>6 DEF EditInv, InHandler

(* consoleread() takes the next committed character. *)
LEMMA ReadByteIn ==
  ASSUME TypeIn, InInv, NEW c \in Cpu, ReadByte(c) PROVE TypeIn' /\ InInv'
<1> DEFINE ch == buf[r % SIZE]
           rest == Ring(buf, SIZE, Inc(r), w)
           T == Key \union {Nil}
<1>c. /\ r # w /\ UNCHANGED <<buf, w, e, edited, h, key>>
      /\ (r' = r /\ got' = got) \/ (r' = Inc(r) /\ got' = Append(got, ch))
  BY DEF ReadByte, Quiet
<1>i. ConsInv /\ EditInv
  BY DEF InInv
<1>1. CASE r' = r /\ got' = got
  BY <1>c, <1>1, InFrame DEF InSame
<1>2. CASE r' = Inc(r) /\ got' = Append(got, ch)
  <2>1. /\ Sub(w, Inc(r)) = Sub(w, r) - 1 /\ Sub(w, r) > 0
        /\ Ring(buf, SIZE, r, w) = <<ch>> \o rest
    BY <1>c, InFacts, Sizes, RingTake
  <2>2. Inc(r) \in Index
    BY InFacts, IncVal DEF Index
  <2>3. rest \in Seq(T)
    BY <2>2, InFacts, Sizes, RingElems
  <2>4. got \o (<<ch>> \o rest) = edited.done
    BY <2>1, <1>i DEF ConsInv
  <2>5. got \in Seq(Key) /\ edited.done \in Seq(Key)
    BY InFacts
  <2> HIDE DEF ch, rest
  <2>6. ch \in Key
    <3>1. Len(got \o (<<ch>> \o rest)) = Len(got) + 1 + Len(rest) /\ Len(got) \in Nat /\ Len(rest) \in Nat
      BY <2>3, <2>5, SMTT(30)
    <3>2. (got \o (<<ch>> \o rest))[Len(got) + 1] = ch
      BY <2>3, <2>5, <3>1, SMTT(30)
    <3>3. Len(got) + 1 \in 1 .. Len(edited.done) /\ edited.done[Len(got) + 1] = ch
      BY <2>4, <3>1, <3>2, SMTT(30)
    <3> QED
      BY <2>5, <3>3, SMTT(30)
  <2>7. Append(got, ch) \in Seq(Key) /\ Append(got, ch) \o rest = got \o (<<ch>> \o rest)
    BY <2>3, <2>5, <2>6, SMTT(30)
  <2>8. TypeIn'
    BY <1>c, <1>2, <2>2, <2>7 DEF TypeIn
  <2>9. Sub(e, r) <= SIZE /\ Sub(w, r) <= Sub(e, r) /\ Sub(e, r) \in Nat /\ Sub(w, r) \in Nat
    BY <1>i, InFacts DEF ConsInv
  <2>10. e # r
    <3>1. Sub(r, r) = 0
      BY InFacts, SubSelf
    <3>2. Sub(e, r) # 0
      BY <2>1, <2>9, SMTT(30)
    <3> QED
      BY <3>1, <3>2
  <2>11. Sub(e, Inc(r)) = Sub(e, r) - 1
    BY <2>10, InFacts, SubInc DEF Index
  <2>12. Sub(e, Inc(r)) <= SIZE /\ Sub(w, Inc(r)) <= Sub(e, Inc(r))
    BY <2>1, <2>9, <2>11, Sizes, SMTT(30) DEF Size
  <2>13. ConsInv'
    <3>1. got' \o Ring(buf', SIZE, r', w') = edited'.done
      BY <1>c, <1>2, <2>4, <2>7 DEF rest
    <3>2. Sub(e', r') <= SIZE /\ Sub(w', r') <= Sub(e', r')
      BY <1>c, <1>2, <2>12
    <3>3. Sub(e', w') <= Len(edited'.line)
      BY <1>c, <1>i DEF ConsInv
    <3>4. \A i \in 1 .. Sub(e', w') : edited'.line[i] = buf'[(w' + i - 1) % SIZE]
      BY <1>c, <1>i DEF ConsInv
    <3>5. \A i \in 1 .. Len(edited'.line) : edited'.line[i] # "nl"
      BY <1>c, <1>i DEF ConsInv
    <3> QED
      BY <3>1, <3>2, <3>3, <3>4, <3>5 DEF ConsInv
  <2>14. Room => Room'
    <3>1. Sub(e, r) < SIZE => Sub(e, Inc(r)) < SIZE
      BY <2>9, <2>11, Sizes, SMTT(30) DEF Size
    <3> QED
      BY <1>c, <1>2, <3>1 DEF Room
  <2>15. \A d \in Cpu : Erasing(d)' <=> Erasing(d)
    BY <1>c DEF Erasing
  <2>16. EditInv'
    <3>1. \A d \in Cpu : (h'[d] \in {"echo", "wait", "put", "after"} /\ key'[d] \notin {"^H", "^U"}) => Room'
      BY <1>c, <1>i, <2>14 DEF EditInv
    <3>2. (\A d \in Cpu : ~ Erasing(d)') => Len(edited'.line) = Sub(e', w')
      BY <1>c, <1>i, <2>15 DEF EditInv
    <3>3. \A d \in Cpu : h'[d] \in InHandler => key'[d] \in Key
      BY <1>c, <1>i DEF EditInv, InHandler
    <3>4. \A d \in Cpu : (key'[d] = "^H" /\ h'[d] \in {"echo", "wait", "put", "after"})
                            => Len(edited'.line) = Sub(e', w') + 1
      BY <1>c, <1>i DEF EditInv
    <3> QED
      BY <3>1, <3>2, <3>3, <3>4 DEF EditInv, InHandler
  <2> QED
    BY <2>8, <2>13, <2>16 DEF InInv
<1> QED
  BY <1>c, <1>1, <1>2

(* uartgetc() hands the next received character to consoleintr(). *)
LEMMA IntrGetIn ==
  ASSUME TypeIn, InInv, TypeLk, TypeEnv, NEW c \in Cpu, IntrGet(c) PROVE TypeIn' /\ InInv'
<1>t. h \in [Cpu -> HStage] /\ key \in [Cpu -> Key \union {Nil}] /\ rx \in Seq(Key)
  BY InFacts DEF TypeLk, TypeEnv
<1>c. /\ h[c] = "get" /\ UNCHANGED <<buf, r, w, e, edited, got>>
      /\ \/ HGoto(c, "tx") /\ key' = key
         \/ rx # <<>> /\ HGoto(c, "cons") /\ key' = [key EXCEPT ![c] = Head(rx)]
  BY DEF IntrGet, cons, hist
<1>1. CASE HGoto(c, "tx") /\ key' = key
  <2>1. \A d \in Cpu : h'[d] = h[d] \/ (h[d] \notin InHandler /\ h'[d] \notin InHandler)
    BY <1>c, <1>1, <1>t DEF HGoto, InHandler
  <2> QED
    BY <1>c, <1>1, <2>1, InFrame DEF InSame
<1>2. CASE rx # <<>> /\ HGoto(c, "cons") /\ key' = [key EXCEPT ![c] = Head(rx)]
  <2>1. Head(rx) \in Key
    BY <1>t, <1>2, SMTT(30)
  <2>2. key' \in [Cpu -> Key \union {Nil}] /\ key'[c] \in Key /\ \A d \in Cpu \ {c} : key'[d] = key[d]
    BY <1>t, <1>2, <2>1
  <2>3. h'[c] = "cons" /\ \A d \in Cpu \ {c} : h'[d] = h[d]
    BY <1>t, <1>2 DEF HGoto
  <2>4. TypeIn'
    BY <1>c, <2>2 DEF TypeIn
  <2>5. ConsInv'
    BY <1>c DEF InInv, ConsInv, Ring, Sub
  <2>6. EditInv
    BY DEF InInv
  <2>7. \A d \in Cpu : Erasing(d)' <=> Erasing(d)
    BY <1>c, <2>2, <2>3 DEF Erasing
  <2>8. Room' <=> Room
    BY <1>c DEF Room
  <2>9. \A d \in Cpu : (h'[d] \in {"echo", "wait", "put", "after"} /\ key'[d] \notin {"^H", "^U"}) => Room'
    BY <2>2, <2>3, <2>6, <2>8 DEF EditInv
  <2>10. (\A d \in Cpu : ~ Erasing(d)') => Len(edited'.line) = Sub(e', w')
    BY <1>c, <2>6, <2>7 DEF EditInv
  <2>11. \A d \in Cpu : h'[d] \in InHandler => key'[d] \in Key
    BY <2>2, <2>3, <2>6 DEF EditInv, InHandler
  <2>12. \A d \in Cpu : (key'[d] = "^H" /\ h'[d] \in {"echo", "wait", "put", "after"})
                           => Len(edited'.line) = Sub(e', w') + 1
    BY <1>c, <2>2, <2>3, <2>6 DEF EditInv
  <2>13. EditInv'
    BY <2>9, <2>10, <2>11, <2>12 DEF EditInv, InHandler
  <2> QED
    BY <2>4, <2>5, <2>13 DEF InInv
<1> QED
  BY <1>c, <1>1, <1>2

(* consoleintr() takes cons.lock, with nobody else erasing. *)
LEMMA ConsTakeIn ==
  ASSUME TypeIn, InInv, TypeLk, LockInv, NEW c \in Cpu, HTake(c, "cons", "cons", "case")
  PROVE  TypeIn' /\ InInv'
<1>t. h \in [Cpu -> HStage]
  BY DEF TypeLk
<1>c. /\ h[c] = "cons" /\ lk["cons"] = Nil /\ HGoto(c, "case")
      /\ UNCHANGED <<buf, r, w, e, edited, got, key>>
  BY DEF HTake, cons, hist
<1>1. TypeIn' /\ ConsInv'
  BY <1>c DEF InInv, TypeIn, ConsInv, Ring, Sub
<1>2. Alone(c)
  <2>1. "cons" \in Lock /\ HHeld["cons"] = UnderLock
    BY LockTable DEF Lock, UnderLock
  <2>2. \A d \in Cpu : ~ Holds(d, "cons")
    BY <1>c, <2>1, TtyAssumption DEF LockInv
  <2> QED
    BY <2>1, <2>2 DEF Alone, Holds
<1>3. EditOne(c)
  BY <1>2, EditOneIs DEF InInv
<1>4. ~ Erasing(c)
  BY <1>c DEF Erasing
<1>5. h'[c] = "case" /\ \A d \in Cpu \ {c} : h'[d] = h[d]
  BY <1>c, <1>t DEF HGoto
<1>6. EditOne(c)'
  BY <1>c, <1>3, <1>4, <1>5 DEF EditOne, InHandler
<1>7. EditInv'
  BY <1>c, <1>2, <1>5, <1>6, EditAlone DEF InInv
<1> QED
  BY <1>1, <1>7 DEF InInv

(* There is no newline for ^U to stop at: it would have been committed. *)
LEMMA NoNewline ==
  ASSUME TypeIn, ConsInv, e # w
  PROVE  buf[Sub(e, 1) % SIZE] # "nl"
<1> DEFINE k == Sub(e, w)
<1>1. Sub(e, 1) \in Index /\ Sub(Sub(e, 1), w) = k - 1 /\ k > 0
  BY InFacts, SubBack
<1>2. k \in Nat /\ k <= Len(edited.line) /\ Len(edited.line) \in Nat
  BY InFacts, SMTT(30) DEF ConsInv
<1>3. (w + (k - 1)) % SIZE = Sub(e, 1) % SIZE
  BY <1>1, InFacts, Sizes, SlotAfter DEF Index
<1> HIDE DEF k
<1>4. k \in 1 .. k /\ k \in 1 .. Len(edited.line) /\ w + k - 1 = w + (k - 1)
  BY <1>1, <1>2, InFacts, SMTT(30) DEF Index
<1>5. edited.line[k] = buf[(w + k - 1) % SIZE] /\ edited.line[k] # "nl"
  BY <1>4 DEF ConsInv, k
<1> QED
  BY <1>3, <1>4, <1>5

(* consoleintr(): the case of the character. *)
LEMMA IntrCaseIn ==
  ASSUME TypeIn, InInv, TypeLk, LockInv, NEW c \in Cpu, IntrCase(c)
  PROVE  TypeIn' /\ InInv'
<1>t. h \in [Cpu -> HStage]
  BY DEF TypeLk
<1>c. h[c] = "case" /\ UNCHANGED <<buf, r, w, got, key>>
  BY DEF IntrCase
<1>i. ConsInv /\ EditInv
  BY DEF InInv
<1>a. Alone(c)
  BY <1>c, AloneIs DEF UnderLock
<1>e. EditOne(c) /\ key[c] \in Key
  <2>1. EditOne(c)
    BY <1>i, <1>a, EditOneIs
  <2> QED
    BY <2>1, <1>c DEF EditOne, InHandler
<1>n. ASSUME NEW s, HGoto(c, s) PROVE h'[c] = s /\ \A d \in Cpu \ {c} : h'[d] = h[d]
  BY <1>n, <1>t DEF HGoto
<1>o. Erases(c) <=> e # w
  BY <1>i, NoNewline DEF Erases
<1>1. CASE key[c] \in {"^H", "^U"} /\ e # w
  <2>1. e' = Sub(e, 1) /\ HGoto(c, "echo") /\ edited' = edited
    BY <1>1, <1>o DEF IntrCase
  <2>2. Sub(e, 1) \in Index /\ Sub(Sub(e, 1), w) = Sub(e, w) - 1 /\ Sub(e, w) > 0
    BY <1>1, InFacts, SubBack
  <2>3. Sub(e, r) <= SIZE /\ Sub(w, r) <= Sub(e, r) /\ Sub(e, r) = Sub(w, r) + Sub(e, w)
    BY <1>i, InFacts, SubSplit DEF ConsInv
  <2>4. Sub(e, r) \in Nat /\ Sub(w, r) \in Nat /\ Sub(e, w) \in Nat
    BY InFacts
  <2>5. e # r
    <3>1. Sub(r, r) = 0
      BY InFacts, SubSelf
    <3>2. Sub(e, r) # 0
      BY <2>2, <2>3, <2>4, SMTT(30)
    <3> QED
      BY <3>1, <3>2
  <2>6. Sub(Sub(e, 1), r) = Sub(e, r) - 1
    BY <2>5, InFacts, SubBack
  <2>7. TypeIn'
    BY <1>c, <2>1, <2>2 DEF TypeIn
  <2>8. ConsInv'
    <3>1. Sub(Sub(e, 1), r) <= SIZE /\ Sub(w, r) <= Sub(Sub(e, 1), r)
      BY <2>2, <2>3, <2>4, <2>6, Sizes, SMTT(30) DEF Size
    <3>2. Sub(e, w) <= Len(edited.line) /\ Len(edited.line) \in Nat
      BY <1>i, InFacts, SMTT(30) DEF ConsInv
    <3>3. Sub(Sub(e, 1), w) <= Len(edited.line)
      BY <2>2, <2>4, <3>2, SMTT(30)
    <3>4. \A i \in 1 .. Sub(Sub(e, 1), w) : i \in 1 .. Sub(e, w)
      BY <2>2, <2>4, SMTT(30)
    <3>5. \A i \in 1 .. Sub(Sub(e, 1), w) : edited.line[i] = buf[(w + i - 1) % SIZE]
      BY <1>i, <3>4 DEF ConsInv
    <3>6. got \o Ring(buf, SIZE, r, w) = edited.done /\ \A i \in 1 .. Len(edited.line) : edited.line[i] # "nl"
      BY <1>i DEF ConsInv
    <3> QED
      BY <1>c, <2>1, <3>1, <3>3, <3>5, <3>6 DEF ConsInv
  <2>9. EditOne(c)'
    <3>1. h'[c] = "echo" /\ key' = key
      BY <1>c, <1>n, <2>1
    <3>2. Erasing(c)'
      BY <1>1, <3>1 DEF Erasing
    <3>3. key[c] = "^H" => Len(edited'.line) = Sub(e', w') + 1
      <4>1. key[c] = "^H" => ~ Erasing(c)
        BY <1>c DEF Erasing
      <4>2. key[c] = "^H" => Len(edited.line) = Sub(e, w)
        BY <4>1, <1>e DEF EditOne
      <4>3. Sub(e, w) = Sub(Sub(e, 1), w) + 1
        BY <2>2, <2>4, SMTT(30)
      <4> QED
        BY <1>c, <2>1, <4>2, <4>3
    <3> QED
      BY <1>1, <1>e, <3>1, <3>2, <3>3 DEF EditOne
  <2>10. \A d \in Cpu \ {c} : h'[d] = h[d]
    BY <1>n, <2>1
  <2>11. EditInv'
    BY <1>a, <1>c, <1>i, <2>9, <2>10, EditAlone
  <2> QED
    BY <2>7, <2>8, <2>11 DEF InInv
<1>2. CASE key[c] \notin {"^H", "^U"} /\ Room
  <2>1. e' = e /\ HGoto(c, "echo") /\ edited' = edited
    BY <1>2 DEF IntrCase
  <2>2. TypeIn' /\ ConsInv'
    BY <1>c, <1>i, <2>1 DEF TypeIn, ConsInv, Ring, Sub
  <2>3. h'[c] = "echo" /\ \A d \in Cpu \ {c} : h'[d] = h[d]
    BY <1>n, <2>1
  <2>4. ~ Erasing(c)
    BY <1>2 DEF Erasing
  <2>5. EditOne(c)'
    BY <1>2, <1>c, <1>e, <2>1, <2>3, <2>4 DEF EditOne, Room
  <2>6. EditInv'
    BY <1>a, <1>c, <1>i, <2>3, <2>5, EditAlone
  <2> QED
    BY <2>2, <2>6 DEF InInv
<1>3. CASE key[c] \in {"^H", "^U"} /\ e = w
  <2>1. e' = e /\ HGoto(c, "get") /\ edited' = Cook(edited, key[c])
    BY <1>3, <1>o DEF IntrCase
  <2>2. Sub(e, w) = 0
    BY <1>3, InFacts, SubSelf
  <2>3. edited.line \in Seq(Key) /\ edited = [done |-> edited.done, line |-> edited.line]
    BY InFacts
  <2>4. edited' = [done |-> edited.done, line |-> <<>>]
    <3>1. CASE key[c] = "^U"
      BY <2>1, <2>3, <3>1 DEF Cook
    <3>2. CASE key[c] = "^H"
      <4>1. ~ Erasing(c)
        BY <1>c, <3>2 DEF Erasing
      <4>2. Len(edited.line) = 0
        BY <4>1, <1>e, <2>2 DEF EditOne
      <4>3. edited.line = <<>>
        BY <2>3, <4>2, SMTT(30)
      <4>4. edited' = edited
        BY <2>1, <2>3, <3>2, <4>3 DEF Cook
      <4> QED
        BY <2>3, <4>3, <4>4
    <3> QED
      BY <1>3, <3>1, <3>2
  <2>5. edited'.done = edited.done /\ edited'.line = <<>>
    BY <2>4
  <2>6. TypeIn'
    <3>1. <<>> \in Seq(Key)
      BY SMTT(30)
    <3>2. edited' \in [done : Seq(Key), line : Seq(Key)]
      BY <2>4, <3>1, InFacts
    <3> QED
      BY <1>c, <2>1, <3>2 DEF TypeIn
  <2>7. Len(edited'.line) = 0 /\ Sub(e', w') = 0
    BY <1>c, <2>1, <2>2, <2>5, SMTT(30)
  <2>8. ConsInv'
    <3>1. Sub(e', r') <= SIZE /\ Sub(w', r') <= Sub(e', r')
      BY <1>c, <1>i, <2>1 DEF ConsInv
    <3>2. got' \o Ring(buf', SIZE, r', w') = edited'.done
      BY <1>c, <1>i, <2>5 DEF ConsInv
    <3>3. /\ Sub(e', w') <= Len(edited'.line) /\ \A i : i \notin 1 .. Sub(e', w')
          /\ \A i : i \notin 1 .. Len(edited'.line)
      BY <2>7, SMTT(30)
    <3> QED
      BY <3>1, <3>2, <3>3 DEF ConsInv
  <2>9. h'[c] = "get" /\ \A d \in Cpu \ {c} : h'[d] = h[d]
    BY <1>n, <2>1
  <2>10. EditOne(c)'
    BY <2>7, <2>9 DEF EditOne, InHandler
  <2>11. EditInv'
    BY <1>a, <1>c, <1>i, <2>9, <2>10, EditAlone
  <2> QED
    BY <2>6, <2>8, <2>11 DEF InInv
<1>4. CASE key[c] \notin {"^H", "^U"} /\ ~ Room
  <2>1. e' = e /\ HGoto(c, "get") /\ edited' = edited
    BY <1>4 DEF IntrCase
  <2>2. TypeIn' /\ ConsInv'
    BY <1>c, <1>i, <2>1 DEF TypeIn, ConsInv, Ring, Sub
  <2>3. h'[c] = "get" /\ \A d \in Cpu \ {c} : h'[d] = h[d]
    BY <1>n, <2>1
  <2>4. ~ Erasing(c)
    BY <1>4 DEF Erasing
  <2>5. EditOne(c)'
    BY <1>c, <1>e, <2>1, <2>3, <2>4 DEF EditOne, InHandler
  <2>6. EditInv'
    BY <1>a, <1>c, <1>i, <2>3, <2>5, EditAlone
  <2> QED
    BY <2>2, <2>6 DEF InInv
<1> QED
  BY <1>1, <1>2, <1>3, <1>4

(* uartputc_sync(), from one stage to the next. *)
LEMMA EchoIn ==
  ASSUME TypeIn, InInv, TypeLk, LockInv, NEW c \in Cpu, EchoOff(c) \/ EchoWait(c) \/ Echo(c)
  PROVE  TypeIn' /\ InInv'
<1>t. h \in [Cpu -> HStage]
  BY DEF TypeLk
<1>c. /\ h[c] \in {"echo", "wait", "put"} /\ UNCHANGED <<buf, r, w, e, edited, got, key>>
      /\ HGoto(c, "wait") \/ HGoto(c, "put") \/ HGoto(c, "after")
  BY DEF EchoOff, EchoWait, Echo, cons, hist
<1>i. ConsInv /\ EditInv
  BY DEF InInv
<1>a. Alone(c)
  BY <1>c, AloneIs DEF UnderLock
<1>e. EditOne(c)
  BY <1>i, <1>a, EditOneIs
<1>1. TypeIn' /\ ConsInv'
  BY <1>c, <1>i DEF TypeIn, ConsInv, Ring, Sub
<1>2. h'[c] \in {"wait", "put", "after"} /\ \A d \in Cpu \ {c} : h'[d] = h[d]
  BY <1>c, <1>t DEF HGoto
<1>3. Erasing(c)' <=> Erasing(c)
  BY <1>c, <1>2 DEF Erasing
<1>4. EditOne(c)'
  BY <1>c, <1>e, <1>2, <1>3 DEF EditOne, InHandler, Room
<1>5. EditInv'
  BY <1>a, <1>c, <1>i, <1>2, <1>4, EditAlone
<1> QED
  BY <1>1, <1>5 DEF InInv

(* After the echo of an erasure, ^U goes on and ^H is done. *)
LEMMA IntrEraseIn ==
  ASSUME TypeIn, InInv, TypeLk, LockInv, NEW c \in Cpu, IntrErase(c)
  PROVE  TypeIn' /\ InInv'
<1>t. h \in [Cpu -> HStage]
  BY DEF TypeLk
<1>c. h[c] = "after" /\ key[c] \in {"^H", "^U"} /\ UNCHANGED <<buf, r, w, e, got, key>>
  BY DEF IntrErase, cons
<1>i. ConsInv /\ EditInv
  BY DEF InInv
<1>a. Alone(c)
  BY <1>c, AloneIs DEF UnderLock
<1>e. EditOne(c)
  BY <1>i, <1>a, EditOneIs
<1>1. CASE key[c] = "^U"
  <2>1. HGoto(c, "case") /\ edited' = edited
    BY <1>1 DEF IntrErase
  <2>2. TypeIn' /\ ConsInv'
    BY <1>c, <1>i, <2>1 DEF TypeIn, ConsInv, Ring, Sub
  <2>3. h'[c] = "case" /\ \A d \in Cpu \ {c} : h'[d] = h[d]
    BY <1>t, <2>1 DEF HGoto
  <2>4. Erasing(c)' /\ key'[c] \in Key
    BY <1>1, <1>c, <2>3 DEF Erasing, Key
  <2>5. EditOne(c)'
    BY <2>3, <2>4 DEF EditOne
  <2>6. EditInv'
    BY <1>a, <1>c, <1>i, <2>3, <2>5, EditAlone
  <2> QED
    BY <2>2, <2>6 DEF InInv
<1>2. CASE key[c] = "^H"
  <2> DEFINE l == edited.line
             l2 == SubSeq(l, 1, Len(l) - 1)
             k == Sub(e, w)
  <2>1. HGoto(c, "get") /\ edited' = Cook(edited, key[c])
    BY <1>2 DEF IntrErase
  <2>2. Len(l) = k + 1 /\ k \in Nat /\ l \in Seq(Key)
    BY <1>2, <1>c, <1>e, InFacts DEF EditOne
  <2>3. \A i \in 1 .. k : l[i] = buf[(w + i - 1) % SIZE]
    BY <1>i DEF ConsInv
  <2>4. edited = [done |-> edited.done, line |-> l]
    BY InFacts
  <2>5. l # <<>>
    <3> HIDE DEF k, l
    <3> QED
      BY <2>2, SMTT(30)
  <2>6. edited' = [done |-> edited.done, line |-> l2]
    BY <1>2, <2>1, <2>4, <2>5 DEF Cook
  <2>7. l2 \in Seq(Key) /\ Len(l2) = k /\ \A i \in 1 .. k : l2[i] = l[i]
    <3> HIDE DEF k, l
    <3> QED
      BY <2>2, SMTT(30)
  <2> HIDE DEF l2
  <2>8. edited'.done = edited.done /\ edited'.line = l2
    BY <2>6
  <2>9. TypeIn'
    <3>1. edited' \in [done : Seq(Key), line : Seq(Key)]
      BY <2>6, <2>7, InFacts
    <3> QED
      BY <1>c, <3>1 DEF TypeIn
  <2>10. ConsInv'
    <3>1. Sub(e', r') <= SIZE /\ Sub(w', r') <= Sub(e', r')
      BY <1>c, <1>i DEF ConsInv
    <3>2. got' \o Ring(buf', SIZE, r', w') = edited'.done
      BY <1>c, <1>i, <2>8 DEF ConsInv
    <3>3. Sub(e', w') = k /\ k <= k
      BY <1>c, <2>2, SMTT(30)
    <3>4. \A i \in 1 .. k : edited'.line[i] = buf'[(w' + i - 1) % SIZE]
      BY <1>c, <2>3, <2>7, <2>8
    <3>5. \A i \in 1 .. k : i \in 1 .. k + 1
      BY <2>2, SMTT(30)
    <3>6. \A i \in 1 .. k : edited'.line[i] # "nl"
      BY <1>i, <2>2, <2>7, <2>8, <3>5 DEF ConsInv
    <3> QED
      BY <2>7, <2>8, <3>1, <3>2, <3>3, <3>4, <3>6 DEF ConsInv
  <2>11. h'[c] = "get" /\ \A d \in Cpu \ {c} : h'[d] = h[d]
    BY <1>t, <2>1 DEF HGoto
  <2>12. Len(edited'.line) = Sub(e', w')
    BY <1>c, <2>7, <2>8
  <2>13. EditOne(c)'
    BY <2>11, <2>12 DEF EditOne, InHandler
  <2>14. EditInv'
    BY <1>a, <1>c, <1>i, <2>11, <2>13, EditAlone
  <2> QED
    BY <2>9, <2>10, <2>14 DEF InInv
<1> QED
  BY <1>c, <1>1, <1>2

(* Storing the character keeps what waits for the readers and adds to the    *)
(* line.                                                                     *)
LEMMA StoreRing ==
  ASSUME TypeIn, ConsInv, NEW x \in Key, Sub(e, r) < SIZE, Len(edited.line) = Sub(e, w),
         buf' = [buf EXCEPT ![e % SIZE] = x]
  PROVE  /\ Inc(e) \in Index /\ buf' \in [0 .. SIZE - 1 -> Key \union {Nil}]
         /\ Sub(Inc(e), r) = Sub(e, r) + 1 /\ Sub(Inc(e), w) = Sub(e, w) + 1
         /\ edited.line = Ring(buf, SIZE, w, e)
         /\ Ring(buf', SIZE, w, Inc(e)) = Append(edited.line, x)
         /\ Ring(buf', SIZE, r, w) = Ring(buf, SIZE, r, w)
         /\ Ring(buf', SIZE, r, Inc(e)) = Append(Ring(buf, SIZE, r, e), x)
         /\ Ring(buf, SIZE, r, e) = Ring(buf, SIZE, r, w) \o edited.line
<1> DEFINE T == Key \union {Nil}
<1>t. /\ buf \in [0 .. SIZE - 1 -> T] /\ r \in Index /\ w \in Index /\ e \in Index
      /\ edited.line \in Seq(Key) /\ x \in T
      /\ Sub(e, r) \in Nat /\ Sub(w, r) \in Nat /\ Sub(e, w) \in Nat
  BY InFacts
<1>0. Sub(w, r) <= Sub(e, r) /\ Sub(e, r) = Sub(w, r) + Sub(e, w)
  BY <1>t, SubSplit DEF ConsInv
<1>1. Sub(e, w) < SIZE
  BY <1>0, <1>t, Sizes, SMTT(30) DEF Size
<1>2. Inc(e) \in Index
  BY <1>t, IncVal DEF Index
<1>3. buf' \in [0 .. SIZE - 1 -> T]
  BY <1>t
<1>4. edited.line = Ring(buf, SIZE, w, e)
  <2> DEFINE g == Ring(buf, SIZE, w, e)
  <2>1. g \in Seq(T) /\ Reads(g, buf, SIZE, w, e)
    BY <1>t, Sizes, RingElems
  <2> HIDE DEF g
  <2>2. Len(edited.line) = Len(g) /\ \A i \in 1 .. Len(edited.line) : edited.line[i] = g[i]
    BY <2>1 DEF Reads, ConsInv
  <2>3. edited.line \in Seq(T)
    BY <1>t, SMTT(30)
  <2>4. edited.line = g
    BY <2>1, <2>2, <2>3, SeqEq
  <2> QED
    BY <2>4 DEF g
<1> HIDE DEF T
<1>5. PutsBehind(buf, SIZE, w, e, x)
  BY <1>t, <1>1, Sizes, RingPut
<1>6. PutsBehind(buf, SIZE, r, e, x)
  BY <1>t, Sizes, RingPut
<1>7. Keeps(buf, SIZE, r, w, e, x)
  BY <1>t, <1>0, Sizes, RingKeeps
<1>8. Splits(buf, SIZE, r, w, e)
  BY <1>t, <1>0, Sizes, RingSplit
<1> QED
  BY <1>2, <1>3, <1>4, <1>5, <1>6, <1>7, <1>8 DEF PutsBehind, Keeps, Splits, T

(* consoleintr() stores the character, and a whole line, ^D or a full buffer *)
(* goes to the readers.                                                      *)
LEMMA IntrStoreIn ==
  ASSUME TypeIn, InInv, TypeLk, LockInv, NEW c \in Cpu, IntrStore(c)
  PROVE  TypeIn' /\ InInv'
<1> DEFINE x == key[c]
           l2 == Append(edited.line, x)
<1>t. h \in [Cpu -> HStage]
  BY DEF TypeLk
<1>c. /\ h[c] = "after" /\ x \notin {"^H", "^U"} /\ UNCHANGED <<r, got, key>>
      /\ buf' = [buf EXCEPT ![e % SIZE] = x] /\ e' = Inc(e) /\ HGoto(c, "get")
  BY DEF IntrStore
<1>i. ConsInv /\ EditInv
  BY DEF InInv
<1>a. Alone(c)
  BY <1>c, AloneIs DEF UnderLock
<1>e. x \in Key /\ Sub(e, r) < SIZE /\ Len(edited.line) = Sub(e, w)
  <2>1. EditOne(c) /\ ~ Erasing(c)
    BY <1>c, <1>i, <1>a, EditOneIs DEF Erasing
  <2> QED
    BY <1>c, <2>1 DEF EditOne, InHandler, Room
<1>f. /\ edited.done \in Seq(Key) /\ edited.line \in Seq(Key) /\ got \in Seq(Key) /\ w \in Index /\ r \in Index
      /\ edited = [done |-> edited.done, line |-> edited.line]
      /\ Sub(e, r) \in Nat /\ Sub(w, r) \in Nat /\ Sub(e, w) \in Nat
      /\ key \in [Cpu -> Key \union {Nil}]
  BY InFacts
<1>k. Cook(edited, x) = [done |-> edited.done, line |-> l2]
  <2>1. x # "^H" /\ x # "^U"
    BY <1>c
  <2> HIDE DEF x
  <2>2. Cook(edited, x) = [edited EXCEPT !.line = Append(edited.line, x)]
    BY <2>1 DEF Cook
  <2> QED
    BY <1>f, <2>2
<1> HIDE DEF x
<1>s. /\ Inc(e) \in Index /\ buf' \in [0 .. SIZE - 1 -> Key \union {Nil}]
      /\ Sub(Inc(e), r) = Sub(e, r) + 1 /\ Sub(Inc(e), w) = Sub(e, w) + 1
      /\ Ring(buf', SIZE, w, Inc(e)) = l2
      /\ Ring(buf', SIZE, r, w) = Ring(buf, SIZE, r, w)
      /\ Ring(buf', SIZE, r, Inc(e)) = Append(Ring(buf, SIZE, r, e), x)
      /\ Ring(buf, SIZE, r, e) = Ring(buf, SIZE, r, w) \o edited.line
  BY <1>c, <1>e, <1>i, StoreRing
<1>l. l2 \in Seq(Key) /\ Len(l2) = Sub(e, w) + 1
  BY <1>e, <1>f, SMTT(30)
<1>d. got \o Ring(buf, SIZE, r, w) = edited.done
  BY <1>i DEF ConsInv
<1>b. Sub(Inc(e), r) <= SIZE /\ Sub(w, r) <= Sub(e, r)
  <2>1. Sub(w, r) <= Sub(e, r)
    BY <1>i DEF ConsInv
  <2> QED
    BY <1>e, <1>f, <1>s, <2>1, Sizes, SMTT(30) DEF Size
<1>h. h'[c] = "get" /\ \A d \in Cpu \ {c} : h'[d] = h[d]
  BY <1>c, <1>t DEF HGoto
<1> HIDE DEF l2
<1>1. ASSUME Len(edited'.line) = Sub(e', w') PROVE EditInv'
  <2>1. EditOne(c)'
    BY <1>1, <1>h DEF EditOne, InHandler
  <2> QED
    BY <1>a, <1>c, <1>i, <1>h, <2>1, EditAlone
<1>2. CASE Commits(c)
  <2> DEFINE A == Ring(buf, SIZE, r, w)
             B == edited.line
  <2>1. w' = Inc(e) /\ edited' = Commit(Cook(edited, x))
    BY <1>2 DEF IntrStore, x
  <2>2. edited' = [done |-> edited.done \o l2, line |-> <<>>]
    <3> DEFINE st == [done |-> edited.done, line |-> l2]
    <3>1. st.done = edited.done /\ st.line = l2
      OBVIOUS
    <3> HIDE DEF st
    <3>2. edited' = Commit(st)
      BY <1>k, <2>1 DEF st
    <3> QED
      BY <3>1, <3>2 DEF Commit
  <2>3. edited'.done = edited.done \o l2 /\ edited'.line = <<>>
    BY <2>2
  <2>4. edited' \in [done : Seq(Key), line : Seq(Key)]
    <3>1. edited.done \o l2 \in Seq(Key) /\ <<>> \in Seq(Key)
      BY <1>f, <1>l, SMTT(30)
    <3> QED
      BY <2>2, <3>1
  <2>5. TypeIn'
    BY <1>c, <1>f, <1>s, <2>1, <2>4 DEF TypeIn
  <2>6. Sub(e', w') = 0 /\ Len(edited'.line) = 0
    <3>1. Sub(e', w') = 0
      BY <1>c, <1>s, <2>1, SubSelf
    <3> QED
      BY <3>1, <2>3, SMTT(30)
  <2>7. got \o Append(A \o B, x) = (got \o A) \o Append(B, x)
    <3>1. A \in Seq(Key \union {Nil})
      BY Sizes, InFacts, RingElems
    <3> HIDE DEF A, B
    <3>2. got \in Seq(Key) /\ B \in Seq(Key)
      BY <1>f DEF B
    <3> DEFINE T == Key \union {Nil}
    <3>3. got \in Seq(T) /\ B \in Seq(T) /\ A \in Seq(T) /\ x \in T
      BY <1>e, <3>1, <3>2, SMTT(30)
    <3> HIDE DEF T
    <3>4. Append(B, x) \in Seq(T) /\ Append(A \o B, x) = A \o Append(B, x)
      <4>1. Append(B, x) \in Seq(T)
        BY <3>3, SMTT(30)
      <4>2. Append(A \o B, x) = A \o Append(B, x)
        <5>1. AppendsBoth(A, B, x)
          BY <3>3, AppendCat
        <5> QED
          BY <5>1 DEF AppendsBoth
      <4> QED
        BY <4>1, <4>2
    <3> DEFINE C == Append(B, x)
    <3>5. C \in Seq(T)
      BY <3>4
    <3> HIDE DEF C
    <3>6. got \o (A \o C) = (got \o A) \o C
      BY <3>3, <3>5, SMTT(30)
    <3> QED
      BY <3>4, <3>6 DEF C
  <2>8. got' \o Ring(buf', SIZE, r', w') = edited'.done
    BY <1>c, <1>d, <1>s, <2>1, <2>3, <2>7 DEF l2
  <2>9. Sub(e', r') <= SIZE /\ Sub(w', r') <= Sub(e', r')
    <3>1. Sub(e', r') <= SIZE /\ Sub(w', r') = Sub(e', r') /\ Sub(e', r') = Sub(e, r) + 1
      BY <1>b, <1>c, <1>s, <2>1
    <3> QED
      BY <1>f, <3>1, SMTT(30)
  <2>10. /\ Sub(e', w') <= Len(edited'.line) /\ \A i : i \notin 1 .. Sub(e', w')
         /\ \A i : i \notin 1 .. Len(edited'.line)
    BY <2>6, SMTT(30)
  <2>11. ConsInv'
    BY <2>8, <2>9, <2>10 DEF ConsInv
  <2>12. EditInv'
    BY <1>1, <2>6
  <2> QED
    BY <2>5, <2>11, <2>12 DEF InInv
<1>3. CASE ~ Commits(c)
  <2>1. w' = w /\ edited' = Cook(edited, x)
    BY <1>3 DEF IntrStore, x
  <2>2. edited' = [done |-> edited.done, line |-> l2]
    BY <1>k, <2>1
  <2>3. edited'.done = edited.done /\ edited'.line = l2
    BY <2>2
  <2>4. edited' \in [done : Seq(Key), line : Seq(Key)]
    BY <1>f, <1>l, <2>2
  <2>5. TypeIn'
    BY <1>c, <1>f, <1>s, <2>1, <2>4 DEF TypeIn
  <2>6. Len(edited'.line) = Sub(e', w')
    BY <1>c, <1>l, <1>s, <2>1, <2>3
  <2>7. got' \o Ring(buf', SIZE, r', w') = edited'.done
    BY <1>c, <1>d, <1>s, <2>1, <2>3
  <2>8. Sub(e', r') <= SIZE /\ Sub(w', r') <= Sub(e', r')
    <3>1. Sub(Inc(e), r) <= SIZE /\ Sub(w, r) <= Sub(Inc(e), r)
      BY <1>b, <1>f, <1>s, SMTT(30)
    <3> QED
      BY <1>c, <2>1, <3>1
  <2>9. Sub(e', w') <= Len(edited'.line)
    <3>1. Sub(e', w') \in Nat
      BY <1>c, <1>f, <1>s, <2>1, SMTT(30)
    <3> QED
      BY <2>6, <3>1, SMTT(30)
  <2>10. \A i \in 1 .. Sub(e', w') : edited'.line[i] = buf'[(w' + i - 1) % SIZE]
    BY <1>c, <1>s, <2>1, <2>3 DEF Ring
  <2>13. \A i \in 1 .. Len(l2) : l2[i] # "nl"
    <3>1. x # "nl"
      BY <1>3 DEF Commits, x
    <3>2. \A i \in 1 .. Len(edited.line) : edited.line[i] # "nl"
      BY <1>i DEF ConsInv
    <3>3. \A i \in 1 .. Len(l2) : l2[i] = x \/ (i \in 1 .. Len(edited.line) /\ l2[i] = edited.line[i])
      BY <1>e, <1>f, SMTT(30) DEF l2
    <3> QED
      BY <3>1, <3>2, <3>3
  <2>11. ConsInv'
    BY <2>3, <2>7, <2>8, <2>9, <2>10, <2>13 DEF ConsInv
  <2>12. EditInv'
    BY <1>1, <2>6
  <2> QED
    BY <2>5, <2>11, <2>12 DEF InInv
<1> QED
  BY <1>2, <1>3

(* The input's part of the invariant is preserved. *)
LEMMA InStep ==
  ASSUME TypeIn, InInv, TypeLk, TypeEnv, LockInv, [Next]_vars
  PROVE  TypeIn' /\ InInv'
<1> USE DEF hist
<1>t. h \in [Cpu -> HStage]
  BY DEF TypeLk
<1>u. UNCHANGED <<buf, r, w, e, edited, got, key, h>> => TypeIn' /\ InInv'
  BY InFrame DEF InSame
<1>g. ASSUME NEW c \in Cpu, h[c] \notin InHandler, NEW s, s \notin InHandler, HGoto(c, s),
             UNCHANGED <<buf, r, w, e, edited, got, key>>
      PROVE  TypeIn' /\ InInv'
  <2>1. \A d \in Cpu : h'[d] = h[d] \/ (h[d] \notin InHandler /\ h'[d] \notin InHandler)
    BY <1>g, <1>t DEF HGoto
  <2> QED
    BY <1>g, <2>1, InFrame DEF InSame
<1>p. ASSUME NEW c \in Cpu, Process(c) PROVE ReadByte(c) \/ UNCHANGED <<buf, r, w, e, edited, got, key, h>>
  BY <1>p DEF Process, Enter, PushOff, TakeLock, Sleep, Exit, ReadEmpty, WriteFull, WritePut,
              WriteStart, WriteWake, WriteThr, WriteDone, SleepStart, SleepTest, Quiet, cons
<1>1. ASSUME NEW c \in Cpu, Process(c) PROVE TypeIn' /\ InInv'
  BY <1>1, <1>p, <1>u, ReadByteIn
<1>2. ASSUME NEW c \in Cpu, Handler(c) PROVE TypeIn' /\ InInv'
  <2>0. {"get", "tx", "send", "wake", "thr", "clock", "tick", "none"} \intersect InHandler = {}
    BY DEF InHandler
  <2>1. ASSUME HTake(c, "tx", "tx", "send") PROVE TypeIn' /\ InInv'
    <3>1. h[c] = "tx" /\ HGoto(c, "send") /\ UNCHANGED <<buf, r, w, e, edited, got, key>>
      BY <2>1 DEF HTake, cons
    <3> QED
      BY <2>0, <3>1, <1>g
  <2>2. ASSUME HTake(c, "clock", "time", "tick") PROVE TypeIn' /\ InInv'
    <3>1. h[c] = "clock" /\ HGoto(c, "tick") /\ UNCHANGED <<buf, r, w, e, edited, got, key>>
      BY <2>2 DEF HTake, cons
    <3> QED
      BY <2>0, <3>1, <1>g
  <2>3. ASSUME IntrDone(c) PROVE TypeIn' /\ InInv'
    <3>1. h[c] = "send" /\ HGoto(c, "none") /\ UNCHANGED <<buf, r, w, e, edited, got, key>>
      BY <2>3 DEF IntrDone, cons
    <3> QED
      BY <2>0, <3>1, <1>g
  <2>4. ASSUME Tick(c) PROVE TypeIn' /\ InInv'
    <3>1. h[c] = "tick" /\ HGoto(c, "none") /\ UNCHANGED <<buf, r, w, e, edited, got, key>>
      BY <2>4 DEF Tick, cons
    <3> QED
      BY <2>0, <3>1, <1>g
  <2>5. ASSUME IntrSend(c) \/ IntrWake(c) \/ IntrThr(c) PROVE TypeIn' /\ InInv'
    <3>1. /\ h[c] \in {"send", "wake", "thr"} /\ UNCHANGED <<buf, r, w, e, edited, got, key>>
          /\ HGoto(c, "wake") \/ HGoto(c, "thr") \/ HGoto(c, "send")
      BY <2>5 DEF IntrSend, IntrWake, IntrThr, cons
    <3> QED
      BY <2>0, <3>1, <1>g
  <2> QED
    BY <1>2, <2>1, <2>2, <2>3, <2>4, <2>5, IntrGetIn, ConsTakeIn, IntrCaseIn, EchoIn,
       IntrEraseIn, IntrStoreIn DEF Handler
<1>3. ASSUME NEW c \in Cpu, UartIntr(c) \/ ClockIntr(c) PROVE TypeIn' /\ InInv'
  <2>0. "none" \notin InHandler /\ "get" \notin InHandler /\ "clock" \notin InHandler
    BY DEF InHandler
  <2>1. /\ h[c] = "none" /\ (HGoto(c, "get") \/ HGoto(c, "clock"))
        /\ UNCHANGED <<buf, r, w, e, edited, got, key>>
    BY <1>3 DEF UartIntr, ClockIntr, Trap, HGoto, cons
  <2> QED
    BY <2>0, <2>1, <1>g
<1>4. ASSUME NEW c \in Cpu, Kill(c) PROVE TypeIn' /\ InInv'
  BY <1>4, <1>u DEF Kill, cons
<1>5. Type \/ DevSend \/ UNCHANGED vars => TypeIn' /\ InInv'
  BY <1>u DEF Type, DevSend, vars, cons
<1> QED
  BY <1>1, <1>2, <1>3, <1>4, <1>5 DEF Next

-----------------------------------------------------------------------------
(* The invariant, and what follows from it.                                  *)

(* The initial states have it. *)
LEMMA InitIInv == ASSUME Init PROVE IInv
<1>0. WRAP \in Nat /\ WRAP > 0 /\ SIZE \in Nat \ {0} /\ TXSIZE \in Nat \ {0}
  BY Sizes DEF Size
<1>1. 0 \in Index /\ Sub(0, 0) = 0 /\ 0 \in 0 .. WRAP /\ 0 \in Int /\ 0 \in Nat
  BY <1>0, SMTT(30) DEF Index, Sub
<1>2. /\ <<>> \in Seq(Nat) /\ <<>> \in Seq(Byte) /\ <<>> \in Seq(Key) /\ Len(<<>>) = 0
      /\ \A i : i \notin 1 .. 0 /\ i \notin 2 .. 0
  BY SMTT(30)
<1>3. ASSUME NEW f, NEW d PROVE Ring(f, d, 0, 0) = <<>>
  <2>1. Ring(f, d, 0, 0) = [i \in 1 .. 0 |-> f[(0 + i - 1) % d]]
    BY <1>1 DEF Ring
  <2>2. [i \in 1 .. 0 |-> f[(0 + i - 1) % d]] = <<>>
    BY SMTT(30)
  <2> QED
    BY <2>1, <2>2
<1>4. <<>> \o <<>> = <<>>
  BY SMTT(30)
<1>5. TypeLk
  <2>1. /\ lk = [l \in {"cons", "tx", "time"} |-> Nil]
        /\ noff = [c \in Cpu |-> 0] /\ intena = [c \in Cpu |-> FALSE] /\ sie = [c \in Cpu |-> TRUE]
        /\ call = [c \in Cpu |-> "none"] /\ pc = [c \in Cpu |-> "user"] /\ h = [c \in Cpu |-> "none"]
    BY DEF Init
  <2>2. /\ lk \in [Lock -> Cpu \union {Nil}] /\ intena \in [Cpu -> BOOLEAN] /\ sie \in [Cpu -> BOOLEAN]
    BY <2>1 DEF Lock
  <2>3. noff \in [Cpu -> Int]
    BY <1>1, <2>1
  <2>4. /\ call \in [Cpu -> {"none", "read", "write", "sleep"}] /\ pc \in [Cpu -> Stage]
        /\ h \in [Cpu -> HStage]
    BY <2>1 DEF Stage, HStage
  <2> QED
    BY <2>2, <2>3, <2>4 DEF TypeLk
<1>6. TypeOut
  <2>1. /\ txbuf = [i \in 0 .. TXSIZE - 1 |-> Nil] /\ txr = 0 /\ txw = 0
        /\ hand = <<>> /\ fifo = <<>> /\ written = <<>> /\ sent = <<>>
    BY DEF Init
  <2> QED
    BY <2>1, <1>1, <1>2 DEF TypeOut
<1>7. TypeIn
  <2>1. /\ buf = [i \in 0 .. SIZE - 1 |-> Nil] /\ r = 0 /\ w = 0 /\ e = 0
        /\ edited = [done |-> <<>>, line |-> <<>>] /\ got = <<>> /\ key = [c \in Cpu |-> Nil]
    BY DEF Init
  <2> QED
    BY <2>1, <1>1, <1>2 DEF TypeIn
<1>8. TypeTime
  <2>1. /\ n = [c \in Cpu |-> 0] /\ from = [c \in Cpu |-> 0] /\ ticks = todo.now
        /\ elapsed = [c \in Cpu |-> 0] /\ todo \in Scenario
    BY DEF Init
  <2>2. todo.now \in Index
    BY <2>1, TtyAssumption DEF Index
  <2> QED
    BY <2>1, <2>2, <1>1 DEF TypeTime
<1>9. TypeEnv
  BY <1>2, TtyAssumption DEF Init, TypeEnv, Index
<1>10. \A c \in Cpu : /\ pc[c] = "user" /\ h[c] = "none" /\ call[c] = "none" /\ noff[c] = 0
                      /\ sie[c] /\ key[c] = Nil
  BY DEF Init
<1>11. LockInv
  <2>1. /\ "user" \notin Inside /\ "user" \notin Busy /\ "user" \notin Sending /\ "user" # "wake"
        /\ "none" \notin HBusy /\ "none" \notin HNested
        /\ "user" \notin Inside \union {"acquire", "asleep"}
    BY DEF Inside, Busy, Sending, HBusy, HNested
  <2>0. \A c \in Cpu : Depth(c) = 0
    BY <1>10, <2>1 DEF Depth
  <2>2. \A c \in Cpu : CpuInv(c)
    BY <1>10, <2>0, <2>1 DEF CpuInv
  <2>3. \A c \in Cpu, l \in Lock : ~ Holds(c, l)
    BY <1>10, <2>1, HBusyIs DEF Holds
  <2>4. \A c \in Cpu, l \in Lock : lk[l] # c
    BY TtyAssumption DEF Init, Lock
  <2> QED
    BY <2>2, <2>3, <2>4 DEF LockInv
<1>12. SleepInv
  BY <1>10 DEF SleepInv
<1>13. TimeInv
  BY <1>10 DEF TimeInv
<1>14. OutInv
  <2>1. txr = 0 /\ txw = 0 /\ hand = <<>> /\ fifo = <<>> /\ written = <<>> /\ sent = <<>>
    BY DEF Init
  <2>2. Unsent = {}
    BY <1>2, <1>6, <2>1, UnsentIs
  <2>4. OnTheWay = <<>>
    BY <2>2, WayIs
  <2>3. 0 <= TXSIZE /\ 0 <= 1
    BY <1>0, SMTT(30)
  <2> QED
    BY <1>1, <1>2, <1>3, <1>4, <2>1, <2>2, <2>3, <2>4 DEF OutInv, OutputInOrder
<1>16. HandInv
  BY DEF Init, HandInv
<1>15. InInv
  <2>1. r = 0 /\ w = 0 /\ e = 0 /\ edited.done = <<>> /\ edited.line = <<>> /\ got = <<>>
    BY DEF Init
  <2>2. 0 <= SIZE /\ 0 <= 0
    BY <1>0, SMTT(30)
  <2>3. ConsInv
    BY <1>1, <1>2, <1>3, <1>4, <2>1, <2>2 DEF ConsInv
  <2>4. EditInv
    BY <1>1, <1>2, <1>10, <2>1 DEF EditInv
  <2> QED
    BY <2>3, <2>4 DEF InInv
<1> QED
  BY <1>5, <1>6, <1>7, <1>8, <1>9, <1>11, <1>12, <1>13, <1>14, <1>15, <1>16
     DEF IInv, TypeInv

(* Every step of a process, a handler or the device keeps it. *)
LEMMA NextIInv == ASSUME IInv, [Next]_vars PROVE IInv'
<1> USE DEF IInv, TypeInv
<1>1. TypeLk' /\ LockInv'
  BY LockStep
<1>7. HandInv' /\ \A c \in Cpu : WriteStart(c) \/ IntrSend(c) => hand = <<>>
  BY HandStep
<1>2. TypeOut' /\ OutInv'
  BY <1>7, OutStep
<1>3. TypeTime' /\ TimeInv'
  BY TimeStep
<1>4. SleepInv'
  BY SleepersStep
<1>5. TypeEnv'
  BY EnvStep
<1>6. TypeIn' /\ InInv'
  BY InStep
<1> QED
  BY <1>1, <1>2, <1>3, <1>4, <1>5, <1>6, <1>7

(* The invariant of console, UART, clock and spinlocks holds in every        *)
(* reachable state, for any number of CPUs, any buffer sizes and any input.  *)
THEOREM TtyInvariant == Spec => []IInv
<1>1. Init => IInv
  BY InitIInv
<1>2. IInv /\ [Next]_vars => IInv'
  BY NextIInv
<1> QED
  BY <1>1, <1>2, PTL DEF Spec

(* acquire() and push_off(): a CPU that holds a lock has interrupts off and  *)
(* never waits for that lock, in a process or in a handler.                  *)
THEOREM TtyLockDiscipline == Spec => []LockDiscipline
<1>1. IInv => LockDiscipline
  <2> SUFFICES ASSUME IInv PROVE LockDiscipline
    OBVIOUS
  <2>0. TypeLk /\ LockInv
    BY DEF IInv, TypeInv
  <2>1. \A c \in Cpu : CpuInv(c)
    BY <2>0 DEF LockInv
  <2>2. \A c \in Cpu : (h[c] = "none" /\ noff[c] = 0) <=> sie[c]
    BY <2>1 DEF CpuInv
  <2>3. ASSUME NEW l \in Lock, lk[l] # Nil
        PROVE  LET c == lk[l] IN
               /\ ~ sie[c]
               /\ ~ (pc[c] = "spin" /\ h[c] = "none" /\ LockOf[call[c]] = l)
               /\ <<h[c], l>> \notin {<<"cons", "cons">>, <<"tx", "tx">>, <<"clock", "time">>}
    <3> DEFINE c == lk[l]
    <3>1. c \in Cpu
      BY <2>0, <2>3 DEF TypeLk
    <3> HIDE DEF c
    <3>2. Holds(c, l)
      BY <2>0, <3>1 DEF LockInv, c
    <3>3. CpuInv(c)
      BY <2>1, <3>1
    <3>4. CASE pc[c] \in Busy
      <4>1. pc[c] \in Inside /\ h[c] = "none" /\ pc[c] # "spin"
        BY <3>3, <3>4 DEF CpuInv, Inside, Busy, Sending
      <4>2. noff[c] = 1 \/ noff[c] = 2
        BY <3>3, <4>1 DEF CpuInv, Depth
      <4>3. noff[c] # 0
        BY <4>2, SMTT(30)
      <4>4. ~ sie[c]
        BY <3>3, <4>3 DEF CpuInv
      <4>5. <<h[c], l>> \notin {<<"cons", "cons">>, <<"tx", "tx">>, <<"clock", "time">>}
        BY <4>1
      <4> QED
        BY <4>1, <4>4, <4>5 DEF c
    <3>5. CASE h[c] \in HHeld[l]
      <4>1. h[c] \in HBusy
        BY <3>5, HBusyIs
      <4>2. h[c] # "none" /\ h[c] \notin {"cons", "tx", "clock"}
        BY <4>1 DEF HBusy
      <4>3. ~ sie[c]
        BY <3>3, <4>2 DEF CpuInv
      <4>4. <<h[c], l>> \notin {<<"cons", "cons">>, <<"tx", "tx">>, <<"clock", "time">>}
        BY <4>2
      <4> QED
        BY <4>2, <4>3, <4>4 DEF c
    <3> QED
      BY <3>2, <3>4, <3>5 DEF Holds
  <2>4. DOMAIN lk = Lock
    BY <2>0 DEF TypeLk
  <2> QED
    BY <2>2, <2>3, <2>4 DEF LockDiscipline
<1> QED
  BY <1>1, TtyInvariant, PTL

(* consoleread() and consoleintr(): the readers get the edited lines. *)
THEOREM TtyInputIsEdited == Spec => []InputIsEdited
<1>1. IInv => InputIsEdited
  <2> SUFFICES ASSUME IInv PROVE InputIsEdited
    OBVIOUS
  <2>0. TypeIn /\ ConsInv /\ EditInv /\ LockInv
    BY DEF IInv, TypeInv, InInv
  <2>1. ASSUME lk["cons"] = Nil PROVE Ring(buf, SIZE, w, e) = edited.line
    <3> DEFINE T == Key \union {Nil}
               g == Ring(buf, SIZE, w, e)
    <3>1. "cons" \in Lock /\ HHeld["cons"] = {"case", "echo", "wait", "put", "after"}
      BY LockTable DEF Lock
    <3>2. \A d \in Cpu : ~ Holds(d, "cons")
      BY <2>0, <2>1, <3>1, TtyAssumption DEF LockInv
    <3>3. \A d \in Cpu : ~ Erasing(d)
      BY <3>1, <3>2 DEF Holds, Erasing
    <3>4. Len(edited.line) = Sub(e, w)
      BY <2>0, <3>3 DEF EditInv
    <3>5. g \in Seq(T) /\ Reads(g, buf, SIZE, w, e)
      BY <2>0, InFacts, Sizes, RingElems
    <3>6. edited.line \in Seq(Key)
      BY <2>0, InFacts
    <3>7. edited.line \in Seq(T)
      BY <3>6, SMTT(30)
    <3> HIDE DEF g
    <3>8. Len(edited.line) = Len(g) /\ \A i \in 1 .. Len(edited.line) : edited.line[i] = g[i]
      BY <2>0, <3>4, <3>5 DEF Reads, ConsInv
    <3>9. edited.line = g
      BY <3>5, <3>7, <3>8, SeqEq
    <3> QED
      BY <3>9 DEF g
  <2> QED
    BY <2>0, <2>1 DEF InputIsEdited, ConsInv
<1> QED
  BY <1>1, TtyInvariant, PTL

(* uartputc() and uartstart(): the bytes written go out once and in order. *)
THEOREM TtyOutputInOrder == Spec => []OutputInOrder
<1>1. IInv => OutputInOrder
  BY DEF IInv, OutInv
<1> QED
  BY <1>1, TtyInvariant, PTL

(* sleep() and wakeup(): nobody sleeps on while what it waits for is there. *)
THEOREM TtySleepsForReason == Spec => []SleepsForReason
<1>1. IInv => SleepsForReason
  <2> SUFFICES ASSUME IInv, NEW c \in Cpu, pc[c] = "asleep"
               PROVE  CASE call[c] = "read" -> r = w
                        [] call[c] = "write" -> TxFull \/ Waking
                        [] call[c] = "sleep" -> TooEarly(c)
    BY DEF SleepsForReason
  <2>1. Waits(c)
    BY DEF IInv, SleepInv
  <2>2. call[c] \in {"none", "read", "write", "sleep"}
    BY DEF IInv, TypeInv, TypeLk
  <2>3. call[c] # "none"
    <3>1. CpuInv(c)
      BY DEF IInv, LockInv
    <3> QED
      BY <3>1 DEF CpuInv
  <2>4. CASE call[c] = "read"
    BY <2>1, <2>4 DEF Waits
  <2>5. CASE call[c] = "write"
    BY <2>1, <2>5 DEF Waits
  <2>6. CASE call[c] = "sleep"
    BY <2>1, <2>6 DEF Waits
  <2> QED
    BY <2>2, <2>3, <2>4, <2>5, <2>6
<1> QED
  BY <1>1, TtyInvariant, PTL

(* sys_sleep(): it returns after the ticks asked for or more, to a process   *)
(* that has not been killed.                                                 *)
THEOREM TtySleepsLongEnough == Spec => SleepsLongEnough
<1> DEFINE Long(c) == (call[c] = "sleep" /\ pc[c] = "locked" /\ pc'[c] = "user" /\ c \notin killed)
                        => elapsed[c] >= n[c]
<1>1. IInv /\ [Next]_vars => [\A c \in Cpu : Long(c)]_vars
  <2> SUFFICES ASSUME IInv, Next, NEW c \in Cpu,
                      call[c] = "sleep", pc[c] = "locked", pc'[c] = "user", c \notin killed
               PROVE  elapsed[c] >= n[c]
    OBVIOUS
  <2>t. /\ pc \in [Cpu -> Stage] /\ n \in [Cpu -> Int] /\ elapsed \in [Cpu -> Nat]
        /\ from \in [Cpu -> 0 .. WRAP] /\ ticks \in Index
    BY DEF IInv, TypeInv, TypeLk, TypeTime
  <2>1. SleepTest(c)
    <3>1. ASSUME NEW d \in Cpu, Process(d), pc'[c] # pc[c] PROVE d = c \/ WriteWake(d)
      BY <3>1, <2>t DEF Process, Enter, PushOff, TakeLock, Sleep, Exit, ReadEmpty, ReadByte, WriteFull,
                        WritePut, WriteStart, WriteThr, WriteDone, SleepStart, SleepTest, Goto
    <3>2. \A what : Wakeup(what)[c] = pc[c]
      BY DEF Wakeup
    <3>3. ASSUME NEW d \in Cpu, WriteWake(d) PROVE FALSE
      <4>1. Wakeup("write") \in [Cpu -> Stage]
        BY WakeupIs DEF IInv, TypeInv
      <4> QED
        BY <3>2, <3>3, <4>1 DEF WriteWake, At
    <3>4. ASSUME Process(c) PROVE SleepTest(c)
      BY <3>4, <3>3, <2>t DEF Process, Enter, PushOff, TakeLock, Sleep, Exit, ReadEmpty, ReadByte, WriteFull,
                        WritePut, WriteStart, WriteThr, WriteDone, SleepStart, At
    <3>5. ASSUME NEW d \in Cpu, Handler(d) PROVE FALSE
      BY <3>5, <3>2 DEF Handler, IntrGet, HTake, IntrCase, EchoOff, EchoWait, Echo, IntrErase, IntrStore,
                        IntrSend, IntrWake, IntrThr, IntrDone, Tick, thread
    <3>6. ASSUME NEW d \in Cpu, UartIntr(d) \/ ClockIntr(d) \/ Kill(d) PROVE FALSE
      BY <3>6, <2>t DEF UartIntr, ClockIntr, Kill, thread
    <3>7. ASSUME Type \/ DevSend PROVE FALSE
      BY <3>7 DEF Type, DevSend, thread
    <3> QED
      BY <3>1, <3>3, <3>4, <3>5, <3>6, <3>7 DEF Next
  <2>2. from[c] # Unset /\ ~ TooEarly(c)
    BY <2>1, <2>t DEF SleepTest, Goto
  <2>3. Sub(ticks, from[c]) <= elapsed[c]
    BY <2>2 DEF IInv, TimeInv
  <2>4. Sub(ticks, from[c]) \in Int
    <3>1. from[c] \in Index
      BY <2>2, <2>t, Sizes, SMTT(30) DEF Unset, Index
    <3>2. Sub(ticks, from[c]) \in 0 .. WRAP - 1
      BY <3>1, <2>t, SubVal DEF Index
    <3> QED
      BY <3>2, SMTT(30)
  <2>5. ~ (Sub(ticks, from[c]) < n[c])
    BY <2>2 DEF TooEarly
  <2>6. n[c] \in Int /\ elapsed[c] \in Nat
    BY <2>t
  <2> QED
    BY <2>3, <2>4, <2>5, <2>6, SMTT(30)
<1> QED
  BY <1>1, TtyInvariant, PTL DEF Spec, SleepsLongEnough

====
