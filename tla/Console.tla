------------------------------ MODULE Console ------------------------------
(***************************************************************************)
(* The user program: the console and the printer that run from one image,  *)
(* with the line editor of the user library.  A process runs until its     *)
(* next system call, and every character of output is one, so the others   *)
(* may run after each.  The kernel appears as what Kernel promises: a call *)
(* returns, getchar with a key, sleep after a time.                        *)
(*                                                                         *)
(* Characters and keys are their codes; a text that is printed as a whole  *)
(* is one code above them.                                                 *)
(***************************************************************************)
EXTENDS Integers, Sequences, SequencesExt

CONSTANTS
  Procs,                    \* the processes
  Arg,                      \* Arg[p]: what the kernel passes to main
  SIZE,                     \* CONSOLE_BUF_SIZE
  HELP, HELLO, PID, EXIT,   \* the words of the commands
  Keys,                     \* what can be typed
  Garbage                   \* what a stack may hold

PROC_ARG_PRINTER == 0
PROC_ARG_CONSOLE == 1
Consoles == {p \in Procs : Arg[p] = PROC_ARG_CONSOLE}
Printers == Procs \ Consoles

ASSUME ConsoleAssumption ==
  /\ SIZE \in Nat \ {0}
  /\ Arg \in [Procs -> {PROC_ARG_PRINTER, PROC_ARG_CONSOLE}]
  /\ Keys \cup Garbage \subseteq 0..255
  /\ {HELP, HELLO, PID, EXIT} \subseteq Seq(1..255) \ {<<>>}
  /\ HELP \notin {HELLO, PID, EXIT} /\ HELLO \notin {PID, EXIT} /\ PID # EXIT

NUL == 0
NL == 10
CR == 13
KEY_BACKSPACE == 8
KEY_DELETE == 127
Printable == 32..126

PROMPT == 256
READY == 257
GREETING == 258
PID_TEXT == 259
BYE == 260
UNKNOWN == 261
TICK == 262
HELP_TEXT == <<263, 264, 265, 266>>

VARIABLES
  pc,       \* pc[p]: the system call p makes when its output is written
  todo,     \* todo[p]: the characters it has still to write
  buf,      \* buf[p]: the line of a console, an array of bytes
  len,      \* len[p]: how many of them readline has stored
  screen    \* screen[p]: the terminal, as it is if only p writes to it

vars == <<pc, todo, buf, len, screen>>

Init ==
  /\ pc = [p \in Procs |-> "main"]
  /\ todo = [p \in Procs |-> <<>>]
  /\ buf \in [Consoles -> [0..SIZE - 1 -> Garbage]]
  /\ len = [p \in Consoles |-> 0]
  /\ screen = [p \in Procs |-> [cells |-> <<>>, cursor |-> 0, above |-> <<>>]]

At(p, call) == pc[p] = call /\ todo[p] = <<>>

Go(p, call, text) ==
  /\ pc' = [pc EXCEPT ![p] = call]
  /\ todo' = [todo EXCEPT ![p] = text]

(* A terminal: backspace moves the cursor and erases nothing, what is      *)
(* written replaces what was there, and the screen scrolls for ever.       *)
Written(s, c) ==
  CASE c = NL ->
         [cells |-> <<>>, cursor |-> 0,
          above |-> Append(s.above, SubSeq(s.cells, 1, s.cursor))]
    [] c = KEY_BACKSPACE ->
         [s EXCEPT !.cursor = IF @ = 0 THEN 0 ELSE @ - 1]
    [] OTHER ->
         [s EXCEPT !.cells = SubSeq(@, 1, s.cursor) \o <<c>> \o
                               SubSeq(@, s.cursor + 2, Len(@)),
                   !.cursor = @ + 1]

Putchar(p) ==
  /\ todo[p] # <<>>
  /\ screen' = [screen EXCEPT ![p] = Written(@, Head(todo[p]))]
  /\ todo' = [todo EXCEPT ![p] = Tail(@)]
  /\ UNCHANGED <<pc, buf, len>>

----------------------------------------------------------------------------
(* main, which start calls: the role is in the argument.                   *)
Main(p) ==
  /\ At(p, "main")
  /\ IF Arg[p] = PROC_ARG_CONSOLE
       THEN Go(p, "getchar", <<NL, READY, NL, PROMPT>>)
       ELSE Go(p, "sleep", <<TICK, NL>>)
  /\ UNCHANGED <<buf, len, screen>>

(* A string in an array ends at the first NUL; beyond the array nothing is *)
(* known, and TypeOK is what keeps readers from there.                     *)
CString(b) ==
  LET ends == {i \in 0..SIZE : i = SIZE \/ b[i] = NUL}
      end  == CHOOSE i \in ends : \A j \in ends : i <= j
  IN  [i \in 1..end |-> b[i - 1]]

(* Both strings are walked until they differ or the first one ends.        *)
StrEq(a, b) ==
  LET x == Append(a, NUL)
      y == Append(b, NUL)
      stops == {i \in 1..Len(x) : x[i] = NUL \/ i > Len(y) \/ x[i] # y[i]}
      i == CHOOSE i \in stops : \A j \in stops : i <= j
  IN  i <= Len(y) /\ x[i] = y[i]

Answer(line) ==
  CASE line = <<>>         -> <<>>
    [] StrEq(line, HELP)   -> FlattenSeq([i \in 1..4 |-> <<HELP_TEXT[i], NL>>])
    [] StrEq(line, HELLO)  -> <<GREETING, NL>>
    [] StrEq(line, PID)    -> <<PID_TEXT, NL>>
    [] StrEq(line, EXIT)   -> <<BYE, NL>>
    [] OTHER               -> <<UNKNOWN>> \o line \o <<NL>>

(* Faulty variants: the line is not terminated; the cursor is not moved    *)
(* back; no room is kept for the terminator.                               *)
NotTerminated(b, n) == b
RuboutWithoutReturn == <<KEY_BACKSPACE, 32>>
FitsExactly(n) == n < SIZE

Terminated(b, n) == [b EXCEPT ![n] = NUL]
Rubout == <<KEY_BACKSPACE, 32, KEY_BACKSPACE>>
Fits(n) == n < SIZE - 1

(* The end of a line: it is terminated, and run_console answers it.        *)
Enter(p, ch) ==
  /\ ch \in {CR, NL}
  /\ buf' = [buf EXCEPT ![p] = Terminated(@, len[p])]
  /\ LET line == CString(buf'[p])
         text == <<NL>> \o Answer(line)
     IN  IF line # <<>> /\ StrEq(line, EXIT)
           THEN Go(p, "exit", text)
           ELSE Go(p, "getchar", Append(text, PROMPT))
  /\ len' = [len EXCEPT ![p] = 0]
  /\ screen' = [screen EXCEPT ![p].above = <<>>]   \* kept since the last Enter

Erase(p, ch) ==
  /\ ch \in {KEY_BACKSPACE, KEY_DELETE}
  /\ len[p] > 0
  /\ len' = [len EXCEPT ![p] = @ - 1]
  /\ Go(p, "getchar", Rubout)
  /\ UNCHANGED <<buf, screen>>

Store(p, ch) ==
  /\ ch \in Printable /\ Fits(len[p])
  /\ buf' = [buf EXCEPT ![p][len[p]] = ch]
  /\ len' = [len EXCEPT ![p] = @ + 1]
  /\ Go(p, "getchar", <<ch>>)
  /\ UNCHANGED screen

(* What readline does with the character that getchar has returned.  No    *)
(* other key does anything.                                                *)
Readline(p) ==
  /\ At(p, "getchar")
  /\ \E ch \in Keys : Enter(p, ch) \/ Erase(p, ch) \/ Store(p, ch)

(* run_printer, between two ticks.                                         *)
Sleep(p) == At(p, "sleep") /\ Go(p, "asleep", <<>>) /\ UNCHANGED <<buf, len, screen>>

(* A faulty variant of Wake: the printer does not loop, and returns.       *)
WakeAndReturn(p) == At(p, "asleep") /\ Go(p, "exit", <<>>) /\ UNCHANGED <<buf, len, screen>>

Wake(p) ==
  /\ At(p, "asleep")
  /\ Go(p, "sleep", <<TICK, NL>>)
  /\ screen' = [screen EXCEPT ![p].above = <<>>]
  /\ UNCHANGED <<buf, len>>

(* A faulty variant of Exit: nothing comes after the call of main.        *)
ExitMissing(p) == At(p, "exit") /\ Go(p, "exit", <<>>) /\ UNCHANGED <<buf, len, screen>>

(* main has returned, and start calls exit.                                *)
Exit(p) == At(p, "exit") /\ Go(p, "dead", <<>>) /\ UNCHANGED <<buf, len, screen>>

Next == \E p \in Procs :
  Main(p) \/ Putchar(p) \/ Readline(p) \/ Sleep(p) \/ Wake(p) \/ Exit(p)

(* A system call returns (RunnableGetsCpu, SleepersWake of Kernel); nobody *)
(* has to press a key.                                                     *)
Fairness == \A p \in Procs :
  WF_vars(Main(p) \/ Putchar(p) \/ Sleep(p) \/ Wake(p) \/ Exit(p))

Spec == Init /\ [][Next]_vars /\ Fairness

----------------------------------------------------------------------------
Bytes == 0..255
Texts == 0..266

(* readline keeps one byte of the array for the terminator (ulib.c:247).   *)
TypeOK ==
  /\ pc \in [Procs -> {"main", "getchar", "sleep", "asleep", "exit", "dead"}]
  /\ \A p \in Procs : todo[p] \in Seq(Texts)
  /\ buf \in [Consoles -> [0..SIZE - 1 -> Bytes]]
  /\ len \in [Consoles -> 0..SIZE - 1]
  /\ \A p \in Procs : screen[p].cursor \in 0..Len(screen[p].cells)

Stored(p) == [i \in 1..len[p] |-> buf[p][i - 1]]

(* Nothing but the program echoes (ulib.c:207-208): whenever it waits for  *)
(* a key the row shows the prompt and what is stored, and no rest of what  *)
(* has been erased.                                                        *)
RowShowsLine == \A p \in Consoles : At(p, "getchar") =>
  LET s == screen[p] IN
    /\ SubSeq(s.cells, 1, s.cursor) = <<PROMPT>> \o Stored(p)
    /\ \A i \in s.cursor + 1..Len(s.cells) : s.cells[i] = 32

(* The terminal when a text has been written, and when all the output of a *)
(* process has.  (The choice from a set of one makes TLC evaluate each     *)
(* state once.)                                                            *)
Settle(s, text) ==
  LET after[i \in 0..Len(text)] ==
        IF i = 0 THEN s
        ELSE CHOOSE t \in {Written(u, text[i]) : u \in {after[i - 1]}} : TRUE
  IN  after[Len(text)]

Settled(p) == Settle(screen[p], todo[p])

ThisConsole == CHOOSE p \in Consoles : TRUE

Promised == INSTANCE Terminal WITH
  Printable <- Keys \cap Printable, MAX_LINE <- SIZE - 1,
  row   <- SubSeq(Settled(ThisConsole).cells, 1, Settled(ThisConsole).cursor),
  above <- Settled(ThisConsole).above,
  open  <- pc[ThisConsole] \notin {"exit", "dead"}

(* Every key does what the user of the terminal expects (Terminal),        *)
(* whatever is left in the array from longer lines and from the stack      *)
(* (ulib.c:210-255, user.c:32-61).                                         *)
ImplementsTerminal == Promised!Spec

(* Every key is followed by the wait for the next, except exit, by the end *)
(* of the process (user.c:29-30).                                          *)
ConsoleResponds == \A p \in Consoles :
  []<>(At(p, "getchar") \/ At(p, "dead"))

(* The printer goes on for ever, whatever becomes of the console           *)
(* (user.c:66-67).                                                         *)
PrinterGoesOn == \A p \in Printers :
  []<>(pc[p] = "asleep") /\ []<>(screen[p].cells = <<TICK>>)
=============================================================================
