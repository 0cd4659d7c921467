---------------------------------- MODULE Tty ----------------------------------
(***************************************************************************)
(* The console and the UART driver (kernel/console.c, uart.c), the clock   *)
(* (clockintr(), sys_sleep()), and the interrupts and spinlocks under them *)
(* (kernel/trap.c, plic.c, spinlock.c).                                    *)
(*                                                                         *)
(* Each CPU runs one process and, on top of it, at most one interrupt      *)
(* handler.  acquire() turns interrupts off in one step and takes the lock *)
(* in another, and a lock is held over several steps, so that a handler    *)
(* can meet a lock its own CPU holds if push_off() fails to prevent it.    *)
(* A sleeping or exited process leaves its CPU to the scheduler, which has *)
(* interrupts on.  The UART sends from a FIFO and is idle when that is     *)
(* empty; a test of it and the write that follows are two steps, and an    *)
(* echo, which takes no uart_tx_lock, can come in between.  Erasing one    *)
(* character echoes one mark, not the three bytes that                     *)
(* consputc(BACKSPACE) sends.                                              *)
(***************************************************************************)
EXTENDS Integers, Sequences

CONSTANTS
  Cpu,        \* CPUs, numbered from 0
  SIZE,       \* INPUT_BUF_SIZE
  TXSIZE,     \* UART_TX_BUF_SIZE
  WRAP,       \* indices and ticks count modulo WRAP
  Scenario,   \* what the environment does: the calls of each process, as
              \* <<call, count>>, the keys typed, the number of clock
              \* interrupts and the ticks counted before, the CPUs whose
              \* process may be killed, and those where it may pass a
              \* buffer that is not all mapped
  Nil

Key == {"x", "y", "nl", "^D", "^H", "^U"}
Calls == {"read", "write", "sleep"} \X (1 .. WRAP - 1)

ASSUME TtyAssumption ==
  /\ SIZE \in Nat \ {0} /\ TXSIZE \in Nat \ {0}
  /\ WRAP \in Nat /\ WRAP % SIZE = 0 /\ WRAP % TXSIZE = 0 /\ WRAP > SIZE /\ WRAP > TXSIZE
  /\ \A s \in Scenario :
       s \in [calls : [Cpu -> Seq(Calls)], keys : Seq(Key), ticks : Nat, now : 0 .. WRAP - 1,
              kill : SUBSET Cpu, bad : SUBSET Cpu]
  /\ Nil \notin Cpu

VARIABLES
  lk,                   \* holder of cons.lock, uart_tx_lock, tickslock
  noff, intena, sie,    \* mycpu()->noff, ->intena, and the interrupt enable bit
  call, pc, n, from,    \* the system call of c: stage, count left, and the
                        \* target of a read or the ticks0 of a sleep
  h, key,     \* the interrupt handler on c, and the character it handles
  killed,
  buf, r, w, e,         \* cons
  txbuf, txr, txw,      \* uart_tx_buf, uart_tx_r, uart_tx_w
  hand,                 \* the byte uartstart() has taken and not yet written
  rx, fifo, thre,       \* device: received, to send, "transmitter empty" pending
  serving,    \* the PLIC has passed on the UART's interrupt
  ticks, elapsed,       \* elapsed[c]: ticks counted since c entered sleep()
  todo,                 \* what is left of the scenario
  edited, got,          \* made by consoleintr() of the keys; taken by consoleread()
  written, sent         \* given to uartputc(); sent by the device

locks == <<lk, noff, intena, sie>>
thread == <<call, pc, n, from>>
cons == <<buf, r, w, e>>
uart == <<txbuf, txr, txw, hand, fifo, thre>>
clock == <<ticks, elapsed>>
hist == <<todo, edited, got, written, sent>>
vars == <<locks, thread, h, key, killed, cons, uart, rx, serving, clock, hist>>

Sub(a, b) == (a - b) % WRAP       \* unsigned subtraction
Inc(a) == (a + 1) % WRAP
Unset == WRAP                     \* no ticks0 yet

(* The contents of a ring buffer f of the given size, from index a to b. *)
Ring(f, size, a, b) == [i \in 1 .. Sub(b, a) |-> f[(a + i - 1) % size]]

(* What line editing makes of one more key: done has been given to the       *)
(* readers, line is still being edited.                                      *)
Cook(st, k) ==
  CASE k = "^U" -> [st EXCEPT !.line = <<>>]
    [] k = "^H" -> [st EXCEPT !.line = IF @ = <<>> THEN @ ELSE SubSeq(@, 1, Len(@) - 1)]
    [] OTHER -> [st EXCEPT !.line = Append(@, k)]
Commit(st) == [done |-> st.done \o st.line, line |-> <<>>]

Init ==
  /\ lk = [l \in {"cons", "tx", "time"} |-> Nil]
  /\ noff = [c \in Cpu |-> 0] /\ intena = [c \in Cpu |-> FALSE] /\ sie = [c \in Cpu |-> TRUE]
  /\ call = [c \in Cpu |-> "none"] /\ pc = [c \in Cpu |-> "user"]
  /\ n = [c \in Cpu |-> 0] /\ from = [c \in Cpu |-> 0]
  /\ h = [c \in Cpu |-> "none"] /\ key = [c \in Cpu |-> Nil]
  /\ killed = {}
  /\ buf = [i \in 0 .. SIZE - 1 |-> Nil] /\ r = 0 /\ w = 0 /\ e = 0
  /\ txbuf = [i \in 0 .. TXSIZE - 1 |-> Nil] /\ txr = 0 /\ txw = 0
  /\ hand = <<>> /\ rx = <<>> /\ fifo = <<>> /\ thre = FALSE /\ serving = FALSE
  /\ todo \in Scenario
  /\ ticks = todo.now /\ elapsed = [c \in Cpu |-> 0]
  /\ edited = [done |-> <<>>, line |-> <<>>] /\ got = <<>> /\ written = <<>> /\ sent = <<>>

-----------------------------------------------------------------------------
(* Mutation: every push_off() remembers, not only the outermost one. *)
push_offEach(c) ==
  /\ intena' = [intena EXCEPT ![c] = sie[c]]
  /\ noff' = [noff EXCEPT ![c] = @ + 1]
  /\ sie' = [sie EXCEPT ![c] = FALSE]

(* push_off(): the outermost one remembers whether interrupts were on. *)
push_off(c) ==
  /\ intena' = IF noff[c] = 0 THEN [intena EXCEPT ![c] = sie[c]] ELSE intena
  /\ noff' = [noff EXCEPT ![c] = @ + 1]
  /\ sie' = [sie EXCEPT ![c] = FALSE]

pop_off(c) ==
  /\ noff' = [noff EXCEPT ![c] = @ - 1]
  /\ sie' = IF noff[c] = 1 /\ intena[c] THEN [sie EXCEPT ![c] = TRUE] ELSE sie
  /\ UNCHANGED intena

release(c, l) == lk' = [lk EXCEPT ![l] = Nil] /\ pop_off(c)

(* wakeup() of the processes asleep in call: they go on to re-acquire. *)
Wakeup(what) ==
  [c \in Cpu |-> IF call[c] = what /\ pc[c] = "asleep" THEN "acquire" ELSE pc[c]]

LockOf == [read |-> "cons", write |-> "tx", sleep |-> "time"]

(* The process of c runs, at stage l of its system call. *)
At(c, what, l) == call[c] = what /\ pc[c] = l /\ h[c] = "none"
Goto(c, l) == pc' = [pc EXCEPT ![c] = l]
Quiet == UNCHANGED <<h, key, killed, rx, serving>>

(* usertrap(): interrupts stay on in a system call until it takes a lock.    *)
Enter(c) ==
  /\ pc[c] = "user" /\ h[c] = "none" /\ c \notin killed
  /\ todo.calls[c] # <<>>
  /\ todo' = [todo EXCEPT !.calls[c] = Tail(@)]
  /\ LET what == Head(todo.calls[c])[1]
         k == Head(todo.calls[c])[2]
     IN /\ call' = [call EXCEPT ![c] = what] /\ Goto(c, "acquire")
        /\ n' = [n EXCEPT ![c] = k]
        /\ from' = [from EXCEPT ![c] = IF what = "read" THEN k ELSE Unset]
  /\ elapsed' = [elapsed EXCEPT ![c] = 0]
  /\ Quiet /\ UNCHANGED <<locks, cons, uart, ticks, edited, got, written, sent>>

(* usertrap() ends a killed process on its way in or out. *)
Exit(c) ==
  /\ pc[c] = "user" /\ h[c] = "none" /\ c \in killed
  /\ Goto(c, "exited")
  /\ Quiet /\ UNCHANGED <<locks, call, n, from, cons, uart, clock, hist>>

(* acquire(): push_off(), then spin until the lock is free. *)
PushOff(c) ==
  /\ pc[c] = "acquire" /\ h[c] = "none"
  /\ push_off(c)
  /\ Goto(c, "spin")
  /\ Quiet /\ UNCHANGED <<lk, call, n, from, cons, uart, clock, hist>>

TakeLock(c) ==
  LET l == LockOf[call[c]] IN
  /\ pc[c] = "spin" /\ h[c] = "none" /\ lk[l] = Nil
  /\ lk' = [lk EXCEPT ![l] = c]
  /\ Goto(c, "locked")
  /\ Quiet /\ UNCHANGED <<noff, intena, sie, call, n, from, cons, uart, clock, hist>>

(* sleep(): the lock is released and the CPU goes to the scheduler.  A kill() *)
(* may come between the caller's test of killed and this.                     *)
Sleep(c) ==
  /\ pc[c] = "doze" /\ h[c] = "none"
  /\ lk' = [lk EXCEPT ![LockOf[call[c]]] = Nil]
  /\ noff' = [noff EXCEPT ![c] = 0] /\ sie' = [sie EXCEPT ![c] = TRUE]
  /\ Goto(c, "asleep")
  /\ Quiet /\ UNCHANGED <<intena, call, n, from, cons, uart, clock, hist>>

-----------------------------------------------------------------------------
(* consoleread() with nothing committed: -1 if killed, else sleep. *)
ReadEmpty(c) ==
  /\ At(c, "read", "locked") /\ r = w
  /\ IF c \in killed THEN release(c, "cons") /\ Goto(c, "user")
                     ELSE Goto(c, "doze") /\ UNCHANGED locks
  /\ Quiet /\ UNCHANGED <<call, n, from, cons, uart, clock, hist>>

(* ^D stays in the buffer for the next read if this one has bytes already. *)
Keep(c) == n[c] < from[c]

(* either_copyin() and either_copyout() of one byte fail where the caller's  *)
(* buffer is not mapped.                                                     *)
Faults(c) == IF c \in todo.bad THEN BOOLEAN ELSE {FALSE}

(* One turn of the loop; a whole line, ^D, n bytes or a byte that cannot be  *)
(* copied out, which is gone from the buffer, end it.                        *)
ReadByte(c) ==
  LET ch == buf[r % SIZE]
      stay == ch = "^D" /\ Keep(c)
  IN
  /\ At(c, "read", "locked") /\ r # w
  /\ r' = IF stay THEN r ELSE Inc(r)
  /\ got' = IF stay THEN got ELSE Append(got, ch)
  /\ \E fault \in Faults(c) :
       /\ n' = IF ch = "^D" \/ fault THEN n ELSE [n EXCEPT ![c] = @ - 1]
       /\ IF ch \in {"^D", "nl"} \/ n[c] = 1 \/ fault
            THEN release(c, "cons") /\ Goto(c, "user")
            ELSE UNCHANGED <<locks, pc>>
  /\ Quiet /\ UNCHANGED <<call, from, buf, w, e, uart, clock, todo, edited, written, sent>>

-----------------------------------------------------------------------------
(* Mutation: the transmit buffer is taken for one byte longer than it is. *)
TxFullLate == Sub(txw, txr) > TXSIZE

TxFull == txw = (txr + TXSIZE) % WRAP

(* uartputc(): sleep on &uart_tx_r while the buffer is full. *)
WriteFull(c) ==
  /\ At(c, "write", "locked") /\ TxFull
  /\ Goto(c, "doze")
  /\ Quiet /\ UNCHANGED <<locks, call, n, from, cons, uart, clock, hist>>

WritePut(c) ==
  LET byte == Len(written) + 1 IN
  /\ At(c, "write", "locked") /\ ~ TxFull
  /\ txbuf' = [txbuf EXCEPT ![txw % TXSIZE] = byte]
  /\ txw' = Inc(txw)
  /\ written' = Append(written, byte)
  /\ Goto(c, "start")
  /\ Quiet
  /\ UNCHANGED <<locks, call, n, from, cons, txr, hand, fifo, thre, clock, todo, edited, got, sent>>

(* uartstart(): a turn takes a byte out of the buffer, wakes the writers,    *)
(* for which wakeup() holds their p->lock inside uart_tx_lock, and writes it *)
(* to THR; the last turn, where an empty buffer has ISR read to clear the    *)
(* interrupt.                                                                *)
CanSend == txr # txw /\ fifo = <<>>

SendTake(c) ==
  /\ CanSend
  /\ hand' = <<txbuf[txr % TXSIZE]>>
  /\ txr' = Inc(txr)
  /\ push_off(c)
  /\ UNCHANGED <<lk, txbuf, txw, fifo, thre>>

SendPut ==
  /\ fifo' = fifo \o hand
  /\ hand' = <<>>
  /\ thre' = FALSE
  /\ UNCHANGED <<locks, txbuf, txr, txw>>

SendEnd ==
  /\ ~ CanSend
  /\ thre' = IF txr = txw THEN FALSE ELSE thre
  /\ UNCHANGED <<txbuf, txr, txw, hand, fifo>>

WriteStart(c) ==
  /\ At(c, "write", "start")
  /\ SendTake(c)
  /\ Goto(c, "wake")
  /\ Quiet /\ UNCHANGED <<call, n, from, cons, clock, hist>>

WriteWake(c) ==
  /\ At(c, "write", "wake")
  /\ pop_off(c)
  /\ pc' = [Wakeup("write") EXCEPT ![c] = "thr"]
  /\ Quiet /\ UNCHANGED <<lk, call, n, from, cons, uart, clock, hist>>

WriteThr(c) ==
  /\ At(c, "write", "thr")
  /\ SendPut
  /\ Goto(c, "start")
  /\ Quiet /\ UNCHANGED <<call, n, from, cons, clock, hist>>

(* The end of uartputc(); consolewrite() goes on with the next byte. *)
WriteDone(c) ==
  /\ At(c, "write", "start")
  /\ SendEnd
  /\ release(c, "tx")
  /\ n' = [n EXCEPT ![c] = @ - 1]
  /\ \E fault \in Faults(c) : Goto(c, IF n[c] = 1 \/ fault THEN "user" ELSE "acquire")
  /\ Quiet /\ UNCHANGED <<call, from, cons, clock, hist>>

(* Mutation: sys_sleep() computes the tick at which it is to return, which   *)
(* comes out too small when ticks is about to wrap around.                   *)
TooEarlyDeadline(c) == ticks < (from[c] + n[c]) % WRAP

(* sys_sleep(): ticks0 is read once, under tickslock. *)
TooEarly(c) == Sub(ticks, from[c]) < n[c]

SleepStart(c) ==
  /\ At(c, "sleep", "locked") /\ from[c] = Unset
  /\ from' = [from EXCEPT ![c] = ticks]
  /\ Quiet /\ UNCHANGED <<locks, call, pc, n, cons, uart, clock, hist>>

SleepTest(c) ==
  /\ At(c, "sleep", "locked") /\ from[c] # Unset
  /\ IF TooEarly(c) /\ c \notin killed
       THEN Goto(c, "doze") /\ UNCHANGED locks
       ELSE release(c, "time") /\ Goto(c, "user")
  /\ Quiet /\ UNCHANGED <<call, n, from, cons, uart, clock, hist>>

-----------------------------------------------------------------------------
(* Interrupts.  A trap turns interrupts off; the return turns them on.       *)
Trap(c, l) ==
  /\ sie[c] /\ h[c] = "none"
  /\ sie' = [sie EXCEPT ![c] = FALSE]
  /\ h' = [h EXCEPT ![c] = l]
  /\ UNCHANGED <<lk, noff, intena>>

HGoto(c, l) == h' = [h EXCEPT ![c] = l]

(* The handler of c takes a lock: acquire() with interrupts off already. *)
HTake(c, at, l, to) ==
  /\ h[c] = at /\ lk[l] = Nil
  /\ lk' = [lk EXCEPT ![l] = c]
  /\ push_off(c)
  /\ HGoto(c, to)
  /\ UNCHANGED <<thread, key, killed, cons, uart, rx, serving, clock, hist>>

(* release() by the handler, and the end of the handler. *)
HRelease(c, l) ==
  /\ lk' = [lk EXCEPT ![l] = Nil]
  /\ noff' = [noff EXCEPT ![c] = @ - 1]
  /\ UNCHANGED intena

(* devintr(): plic_claim() gives the UART's interrupt to one CPU only. *)
UartIntr(c) ==
  /\ (rx # <<>> \/ thre) /\ ~ serving
  /\ Trap(c, "get")
  /\ serving' = TRUE
  /\ UNCHANGED <<thread, key, killed, cons, uart, rx, clock, hist>>

(* uartintr(): every received character goes to consoleintr() ... *)
IntrGet(c) ==
  /\ h[c] = "get"
  /\ IF rx = <<>> THEN HGoto(c, "tx") /\ UNCHANGED <<key, rx>>
     ELSE HGoto(c, "cons") /\ key' = [key EXCEPT ![c] = Head(rx)] /\ rx' = Tail(rx)
  /\ UNCHANGED <<locks, thread, killed, cons, uart, serving, clock, hist>>

(* Mutation: a character is stored though the buffer has no room. *)
RoomAlways == TRUE

Room == Sub(e, r) < SIZE

(* consoleintr() under cons.lock: the case of the character.  Erasing stops  *)
(* at cons.w, and ^U at a newline; a character without room is dropped.      *)
Erases(c) == e # w /\ (key[c] = "^U" => buf[Sub(e, 1) % SIZE] # "nl")

IntrCase(c) ==
  LET erase == key[c] \in {"^H", "^U"} IN
  /\ h[c] = "case"
  /\ IF IF erase THEN Erases(c) ELSE Room
       THEN /\ e' = IF erase THEN Sub(e, 1) ELSE e
            /\ HGoto(c, "echo") /\ UNCHANGED <<locks, edited>>
       ELSE /\ HRelease(c, "cons") /\ HGoto(c, "get")
            /\ edited' = IF erase THEN Cook(edited, key[c]) ELSE edited
            /\ UNCHANGED <<sie, e>>
  /\ UNCHANGED <<thread, key, killed, buf, r, w, uart, rx, serving, clock, todo, got, written, sent>>

(* consputc(), uartputc_sync(): push_off(), spin until the transmitter is    *)
(* idle, write and pop_off(); without uart_tx_lock, a byte of uartstart()    *)
(* may get in between.                                                       *)
EchoOff(c) ==
  /\ h[c] = "echo"
  /\ push_off(c)
  /\ HGoto(c, "wait")
  /\ UNCHANGED <<lk, thread, key, killed, cons, uart, rx, serving, clock, hist>>

EchoWait(c) ==
  /\ h[c] = "wait" /\ fifo = <<>>
  /\ HGoto(c, "put")
  /\ UNCHANGED <<locks, thread, key, killed, cons, uart, rx, serving, clock, hist>>

EchoMark == 0         \* an echo, among bytes numbered from 1

Echo(c) ==
  /\ h[c] = "put"
  /\ fifo' = Append(fifo, EchoMark) /\ thre' = FALSE
  /\ pop_off(c)
  /\ HGoto(c, "after")
  /\ UNCHANGED <<lk, thread, key, killed, cons, txbuf, txr, txw, hand, rx, serving, clock, hist>>

(* After the echo, ^U erases on; ^H is done; any other character is stored,  *)
(* and a whole line, ^D or a full buffer is given to the readers.            *)
Commits(c) == key[c] \in {"nl", "^D"} \/ Sub(Inc(e), r) = SIZE

IntrErase(c) ==
  /\ h[c] = "after" /\ key[c] \in {"^H", "^U"}
  /\ IF key[c] = "^U" THEN HGoto(c, "case") /\ UNCHANGED <<locks, edited>>
     ELSE /\ HRelease(c, "cons") /\ HGoto(c, "get")
          /\ edited' = Cook(edited, key[c])
          /\ UNCHANGED sie
  /\ UNCHANGED <<thread, key, killed, cons, uart, rx, serving, clock, todo, got, written, sent>>

IntrStore(c) ==
  /\ h[c] = "after" /\ key[c] \notin {"^H", "^U"}
  /\ buf' = [buf EXCEPT ![e % SIZE] = key[c]]
  /\ e' = Inc(e)
  /\ IF Commits(c) THEN w' = Inc(e) /\ pc' = Wakeup("read") ELSE UNCHANGED <<w, pc>>
  /\ edited' = IF Commits(c) THEN Commit(Cook(edited, key[c])) ELSE Cook(edited, key[c])
  /\ HRelease(c, "cons") /\ HGoto(c, "get")
  /\ UNCHANGED <<sie, call, n, from, r, key, killed, uart, rx, serving, clock, todo, got, written, sent>>

(* ... and the transmitter gets what is waiting, under uart_tx_lock. *)
IntrSend(c) ==
  /\ h[c] = "send"
  /\ SendTake(c)
  /\ HGoto(c, "wake")
  /\ UNCHANGED <<thread, key, killed, cons, rx, serving, clock, hist>>

(* Mutation: a byte leaves the buffer and no writer is woken. *)
IntrWakeSilent(c) ==
  /\ h[c] = "wake"
  /\ pop_off(c)
  /\ HGoto(c, "thr")
  /\ UNCHANGED <<lk, thread, key, killed, cons, uart, rx, serving, clock, hist>>

IntrWake(c) ==
  /\ h[c] = "wake"
  /\ pop_off(c)
  /\ HGoto(c, "thr") /\ pc' = Wakeup("write")
  /\ UNCHANGED <<lk, call, n, from, key, killed, cons, uart, rx, serving, clock, hist>>

IntrThr(c) ==
  /\ h[c] = "thr"
  /\ SendPut
  /\ HGoto(c, "send")
  /\ UNCHANGED <<thread, key, killed, cons, rx, serving, clock, hist>>

(* Mutation: devintr() returns without plic_complete(). *)
IntrNoComplete(c) ==
  /\ h[c] = "send"
  /\ SendEnd
  /\ HRelease(c, "tx") /\ sie' = [sie EXCEPT ![c] = TRUE]
  /\ HGoto(c, "none")
  /\ UNCHANGED <<thread, key, killed, cons, rx, serving, clock, hist>>

(* The end of devintr(): plic_complete(), and back from kerneltrap(). *)
IntrDone(c) ==
  /\ h[c] = "send"
  /\ SendEnd
  /\ HRelease(c, "tx") /\ sie' = [sie EXCEPT ![c] = TRUE]
  /\ HGoto(c, "none") /\ serving' = FALSE
  /\ UNCHANGED <<thread, key, killed, cons, rx, clock, hist>>

(* clockintr(), on CPU 0: counts under tickslock and wakes the sleepers. *)
ClockIntr(c) ==
  /\ c = 0 /\ todo.ticks > 0
  /\ todo' = [todo EXCEPT !.ticks = @ - 1]
  /\ Trap(c, "clock")
  /\ UNCHANGED <<thread, key, killed, cons, uart, rx, serving, clock, edited, got, written, sent>>

Tick(c) ==
  /\ h[c] = "tick"
  /\ ticks' = Inc(ticks)
  /\ elapsed' = [d \in Cpu |-> IF from[d] = Unset THEN 0 ELSE elapsed[d] + 1]
  /\ pc' = Wakeup("sleep")
  /\ HRelease(c, "time") /\ sie' = [sie EXCEPT ![c] = TRUE]
  /\ HGoto(c, "none")
  /\ UNCHANGED <<call, n, from, key, killed, cons, uart, rx, serving, hist>>

-----------------------------------------------------------------------------
(* The device: a key is typed; a byte has been sent. *)
Type ==
  /\ todo.keys # <<>>
  /\ todo' = [todo EXCEPT !.keys = Tail(@)]
  /\ rx' = Append(rx, Head(todo.keys))
  /\ UNCHANGED <<locks, thread, h, key, killed, cons, uart, serving, clock, edited, got, written, sent>>

DevSend ==
  /\ fifo # <<>>
  /\ fifo' = Tail(fifo)
  /\ sent' = IF Head(fifo) = EchoMark THEN sent ELSE Append(sent, Head(fifo))
  /\ thre' = (Tail(fifo) = <<>>)
  /\ UNCHANGED <<locks, thread, h, key, killed, cons, txbuf, txr, txw, hand, rx, serving, clock,
                 todo, edited, got, written>>

(* kill(): a sleeper runs again. *)
Kill(c) ==
  /\ c \in todo.kill \ killed /\ pc[c] # "exited"
  /\ killed' = killed \union {c}
  /\ pc' = IF pc[c] = "asleep" THEN [pc EXCEPT ![c] = "acquire"] ELSE pc
  /\ UNCHANGED <<locks, call, n, from, h, key, cons, uart, rx, serving, clock, hist>>

Process(c) ==
  \/ Enter(c) \/ PushOff(c) \/ TakeLock(c) \/ Sleep(c) \/ Exit(c)
  \/ ReadEmpty(c) \/ ReadByte(c)
  \/ WriteFull(c) \/ WritePut(c) \/ WriteStart(c) \/ WriteWake(c) \/ WriteThr(c) \/ WriteDone(c)
  \/ SleepStart(c) \/ SleepTest(c)

Handler(c) ==
  \/ IntrGet(c) \/ HTake(c, "cons", "cons", "case") \/ IntrCase(c)
  \/ EchoOff(c) \/ EchoWait(c) \/ Echo(c) \/ IntrErase(c) \/ IntrStore(c)
  \/ HTake(c, "tx", "tx", "send") \/ IntrSend(c) \/ IntrWake(c) \/ IntrThr(c) \/ IntrDone(c)
  \/ HTake(c, "clock", "time", "tick") \/ Tick(c)

Next ==
  \/ \E c \in Cpu : Process(c) \/ Handler(c) \/ UartIntr(c) \/ ClockIntr(c) \/ Kill(c)
  \/ Type \/ DevSend

(* Processes and handlers run, an interrupt that stays pending is taken, and *)
(* the device sends.  Nobody has to type or kill.                            *)
Fairness ==
  /\ \A c \in Cpu : WF_vars(Process(c)) /\ WF_vars(Handler(c))
  /\ WF_vars(\E c \in Cpu : UartIntr(c))
  /\ WF_vars(DevSend)

Spec == Init /\ [][Next]_vars /\ Fairness

-----------------------------------------------------------------------------
(* No acquire() panics or waits for its own CPU: whoever holds a lock has    *)
(* interrupts off, and nobody is about to take a lock its CPU has.  However  *)
(* push_off() and pop_off() nest, interrupts are on whenever nothing keeps   *)
(* them off, and only then.                                                  *)
LockDiscipline ==
  /\ \A l \in DOMAIN lk : lk[l] # Nil =>
       LET c == lk[l] IN
       /\ ~ sie[c]
       /\ ~ (pc[c] = "spin" /\ h[c] = "none" /\ LockOf[call[c]] = l)
       /\ <<h[c], l>> \notin {<<"cons", "cons">>, <<"tx", "tx">>, <<"clock", "time">>}
  /\ \A c \in Cpu : (h[c] = "none" /\ noff[c] = 0) <=> sie[c]

(* The readers get the edited lines: what they took and what waits between   *)
(* r and w is what was committed, and w to e is the line being edited; no    *)
(* character is lost, repeated, or changed once it can be read.              *)
InputIsEdited ==
  /\ got \o Ring(buf, SIZE, r, w) = edited.done
  /\ lk["cons"] = Nil => Ring(buf, SIZE, w, e) = edited.line

(* The bytes of uartstart() in the transmitter's FIFO, of which there is one *)
(* at most, wherever the echoes fall.                                        *)
Unsent == {i \in DOMAIN fifo : fifo[i] # EchoMark}
OnTheWay == IF Unsent = {} THEN <<>> ELSE <<fifo[CHOOSE i \in Unsent : TRUE]>>

(* The bytes written go out once and in order, whichever of the writers and  *)
(* the interrupt handlers feeds the transmitter, and echoes only fall        *)
(* between them: what was written is what was sent, the byte the FIFO has,   *)
(* the byte uartstart() has in hand and what waits in the buffer.            *)
OutputInOrder ==
  sent \o OnTheWay \o hand \o Ring(txbuf, TXSIZE, txr, txw) = written

(* A byte was taken out of the buffer, and its wakeup() is about to come. *)
Waking == \E c \in Cpu : pc[c] = "wake" \/ h[c] = "wake"

(* Nobody sleeps on while what it waits for is there: no wakeup is missed    *)
(* between a test and sleep().                                               *)
SleepsForReason ==
  \A c \in Cpu : pc[c] = "asleep" =>
    CASE call[c] = "read" -> r = w
      [] call[c] = "write" -> TxFull \/ Waking
      [] call[c] = "sleep" -> TooEarly(c)

(* sleep(n) of a process that is not killed returns after n ticks or more,   *)
(* also when the counter of ticks wraps around meanwhile.                    *)
SleepsLongEnough ==
  [][\A c \in Cpu : (call[c] = "sleep" /\ pc[c] = "locked" /\ pc'[c] = "user" /\ c \notin killed)
                      => elapsed[c] >= n[c]]_vars

(* Everything written is sent in the end: the transmit interrupt never       *)
(* stays away while bytes wait.                                              *)
EverythingSent == []<>(sent = written)

==============================================================================
