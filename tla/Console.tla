------------------------------ MODULE Console ------------------------------
(***************************************************************************)
(* The kernel's console: printf and what it calls (src/util/print.c,       *)
(* string.c, serial.c), and the keyboard's echo (src/drivers/keyboard.c).  *)
(*                                                                         *)
(* There is no lock around printing.  Tasks (before the first task, _kmain *)
(* is the only one) are preempted between any two stores; Handlers print   *)
(* one message each with interrupts off (TaskSwitch that reaps a task, the *)
(* system call, an exception), and so does the keyboard's handler.         *)
(*                                                                         *)
(* A message is a sequence of items, one per conversion or literal text of *)
(* the calls of printf and lprint that make it up; characters are their    *)
(* codes.  The serial port's transmitter holds one character until it has  *)
(* been sent, and a character written over it is lost (external); so is    *)
(* the order of characters of different printers, which nothing promises.  *)
(***************************************************************************)
EXTENDS Integers, Sequences, SequencesExt

CONSTANTS
    Tasks, Handlers, Keyboard,
    Scenarios,    \* messages printed and scan codes sent in a behaviour (bound)
    TableSize,    \* 128 in the code
    LeftShift,    \* 0x2A in the code
    Enter,        \* 0x1C in the code
    RetSize,      \* 64 in the code
    HexSize,      \* 128 in the code
    NoOne

Printers == Tasks \cup Handlers \cup {Keyboard}

VARIABLES
    script,       \* the messages of this behaviour
    typed,        \* the scan codes of this behaviour
    rest,         \* the items a printer still has to print
    stage,        \* where a printer is in printf
    source,       \* what print reads from: "text", "d" (ret) or "x" (hexString)
    text,         \* the string print reads from
    value,        \* what is left of a number that is being converted
    index,        \* the position in ret or hexString
    char,         \* the character putchar is called with
    ret,          \* the static buffer of itoa
    hexString,
    holder,       \* the handler that has interrupts off
    fbSetup,
    transmitter,  \* the character to be sent and who wrote it
    sent,         \* characters that went over the line, per printer
    shown,        \* characters on the screen, per printer
    keysRead,     \* scan codes read so far
    shiftpressed

localVars == <<rest, stage, source, text, value, index, char>>
outVars == <<transmitter, sent, shown>>
vars == <<script, typed, localVars, ret, hexString, holder, fbSetup, outVars,
          keysRead, shiftpressed>>

NUL == 0
LF == 10
CR == 13
hexChars(d) == IF d < 10 THEN 48 + d ELSE 55 + d

-----------------------------------------------------------------------------
(* Numbers. *)

\* / and % of C, which round towards zero.
Quot(a, b) == IF a >= 0 THEN a \div b ELSE -((-a) \div b)
Rem(a, b) == a - b * Quot(a, b)

\* The first loop of itoa: how often the number can be divided by ten.
sizeOf[n \in Nat] == IF n \div 10 = 0 THEN 0 ELSE 1 + sizeOf[n \div 10]
Digits(v) == sizeOf[IF v >= 0 THEN v ELSE -v] + 1

\* What printf is called with: numbers that fit in the buffers (an int has at
\* most 10 digits, a 64-bit number 16).
Items ==
    [kind : {"s"}, str : Seq(Nat)]
        \cup [kind : {"l"}, str : Seq(Nat), n : Nat]
        \cup [kind : {"d"}, v : {v \in Int : Digits(v) \in 1 .. RetSize - 1}]
        \cup [kind : {"x"}, v : {v \in Nat : v < 16^(HexSize - 1)}]
        \cup [kind : {"other"}]

\* What the keyboard sends: codes of keys pressed and released.  There is no
\* key 0, and so no code TableSize.
ScanCodes == 1 .. TableSize - 1 \cup TableSize + 1 .. 2 * TableSize - 1

ASSUME ConsoleAssumption ==
    /\ RetSize \in Nat \ {0, 1} /\ HexSize \in Nat \ {0, 1}
    /\ TableSize \in Nat /\ {LeftShift, Enter} \subseteq 1 .. TableSize - 1
    /\ NoOne \notin Printers
    /\ \A s \in Scenarios : /\ s.script \in [Tasks \cup Handlers -> Seq(Items)]
                            /\ s.typed \in Seq(ScanCodes)

\* A fact of arithmetic about the powers the buffer of hexToString has room for.
ASSUME PowersOf16 ==
    /\ 16^0 = 1
    /\ \A k \in 0 .. HexSize - 2 : 16^k \in Nat /\ 16^(k + 1) = 16 * 16^k

-----------------------------------------------------------------------------
(* printf. *)

\* _kmain calls it before anything is printed and before interrupts are on.
InitializeTerminal ==
    /\ ~fbSetup
    /\ fbSetup' = TRUE
    /\ UNCHANGED <<script, typed, localVars, ret, hexString, holder, outVars, keysRead,
                   shiftpressed>>

\* What runs: a handler from its entry to its return, otherwise any task.
Runs(p) == fbSetup /\ holder = IF p \in Tasks THEN NoOne ELSE p

\* lprint(str, n): up to n characters, but none from the first NUL on.
lprint(str, n) ==
    LET nul == SelectInSeq(SubSeq(str, 1, n), LAMBDA ch : ch = NUL)
    IN  SubSeq(str, 1, IF nul = 0 THEN n ELSE nul - 1)

\* The string an item gives to print: literal text, %s or %c ("s"), a call of
\* lprint ("l").  A conversion that printf does not know ("other") is skipped.
StringOf(item) ==
    CASE item.kind = "s" -> item.str
      [] item.kind = "l" -> lprint(item.str, item.n)
      [] OTHER -> << >>

FirstStage(kind) ==
    CASE kind = "d" -> "itoa" [] kind = "x" -> "hex" [] OTHER -> "print"

\* One turn of the loop of printf.
printf(p) ==
    LET item == Head(rest[p])
    IN  /\ Runs(p) /\ stage[p] = "format" /\ rest[p] # << >>
        /\ rest' = [rest EXCEPT ![p] = Tail(@)]
        /\ source' = [source EXCEPT ![p] = IF item.kind \in {"d", "x"} THEN item.kind ELSE "text"]
        /\ text' = [text EXCEPT ![p] = StringOf(item)]
        /\ value' = [value EXCEPT ![p] = IF item.kind \in {"d", "x"} THEN item.v ELSE 0]
        /\ stage' = [stage EXCEPT ![p] = FirstStage(item.kind)]
        /\ UNCHANGED <<script, typed, index, char, ret, hexString, holder, fbSetup,
                       outVars, keysRead, shiftpressed>>

bufferUnchanged == <<script, typed, rest, source, text, char, holder, fbSetup, outVars,
                     keysRead, shiftpressed>>

\* itoa: the NUL first, then the digits from the last to the first.
itoaNoEnd(p) ==
    /\ Runs(p) /\ stage[p] = "itoa"
    /\ index' = [index EXCEPT ![p] = Digits(value[p]) - 1]
    /\ stage' = [stage EXCEPT ![p] = "digits"]
    /\ UNCHANGED <<ret, value, hexString, bufferUnchanged>>
itoaEnd(p) ==
    /\ Runs(p) /\ stage[p] = "itoa"
    /\ ret' = [ret EXCEPT ![Digits(value[p])] = NUL]
    /\ index' = [index EXCEPT ![p] = Digits(value[p]) - 1]
    /\ stage' = [stage EXCEPT ![p] = "digits"]
    /\ UNCHANGED <<value, hexString, bufferUnchanged>>
PreviousNot(i) == i
Previous(i) == i - 1
itoaDigit(p) ==
    /\ Runs(p) /\ stage[p] = "digits"
    /\ ret' = [ret EXCEPT ![index[p]] = Rem(value[p], 10) + 48]
    /\ value' = [value EXCEPT ![p] = Quot(@, 10)]
    /\ index' = [index EXCEPT ![p] = IF @ = 0 THEN 0 ELSE Previous(@)]
    /\ stage' = [stage EXCEPT ![p] = IF index[p] = 0 THEN "print" ELSE @]
    /\ UNCHANGED <<hexString, bufferUnchanged>>

\* hexToString: the same, right-aligned in its buffer.
hexLastPast == HexSize
hexLast == HexSize - 1
hexEnd(p) ==
    /\ Runs(p) /\ stage[p] = "hex"
    /\ hexString' = [hexString EXCEPT ![hexLast] = NUL]
    /\ index' = [index EXCEPT ![p] = hexLast]
    /\ stage' = [stage EXCEPT ![p] = "hexDigits"]
    /\ UNCHANGED <<ret, value, bufferUnchanged>>
hexDigit(p) ==
    /\ Runs(p) /\ stage[p] = "hexDigits"
    /\ hexString' = [hexString EXCEPT ![index[p] - 1] = hexChars(value[p] % 16)]
    /\ index' = [index EXCEPT ![p] = @ - 1]
    /\ value' = [value EXCEPT ![p] = @ \div 16]
    /\ stage' = [stage EXCEPT ![p] = IF value[p] \div 16 = 0 THEN "print" ELSE @]
    /\ UNCHANGED <<ret, bufferUnchanged>>

-----------------------------------------------------------------------------
(* print, putchar and write_serial. *)

\* The character print is at; NUL at the end of a buffer.
AtEnd(p) ==
    CASE source[p] = "text" -> text[p] = << >>
      [] source[p] = "d" -> ret[index[p]] = NUL
      [] source[p] = "x" -> hexString[index[p]] = NUL
Current(p) ==
    CASE source[p] = "text" -> Head(text[p])
      [] source[p] = "d" -> ret[index[p]]
      [] source[p] = "x" -> hexString[index[p]]

printUnchanged == <<script, typed, rest, source, value, ret, hexString, holder, fbSetup,
                    outVars, keysRead, shiftpressed>>

printDone(p) ==
    /\ Runs(p) /\ stage[p] = "print" /\ AtEnd(p)
    /\ stage' = [stage EXCEPT ![p] = "format"]
    /\ UNCHANGED <<text, index, char, printUnchanged>>

printChar(p) ==
    /\ Runs(p) /\ stage[p] = "print" /\ ~AtEnd(p)
    /\ char' = [char EXCEPT ![p] = Current(p)]
    /\ text' = [text EXCEPT ![p] = IF source[p] = "text" THEN Tail(@) ELSE @]
    /\ index' = [index EXCEPT ![p] = IF source[p] = "text" THEN @ ELSE @ + 1]
    /\ stage' = [stage EXCEPT ![p] = IF Current(p) = LF THEN "crWait" ELSE "wait"]
    /\ UNCHANGED printUnchanged

othersUnchanged == <<script, typed, rest, source, text, value, index, char, ret,
                     hexString, holder, fbSetup, keysRead, shiftpressed>>

\* is_transmit_empty() # 0, and only then, as a step of its own, outb.
write_serial(p) ==
    /\ Runs(p) /\ stage[p] \in {"crWait", "wait"}
    /\ transmitter = << >>
    /\ stage' = [stage EXCEPT ![p] = IF @ = "crWait" THEN "crOut" ELSE "out"]
    /\ UNCHANGED <<outVars, othersUnchanged>>
outb(p) ==
    /\ Runs(p) /\ stage[p] \in {"crOut", "out"}
    /\ transmitter' = <<p, IF stage[p] = "crOut" THEN CR ELSE char[p]>>
    /\ stage' = [stage EXCEPT ![p] = IF @ = "crOut" THEN "wait" ELSE "show"]
    /\ UNCHANGED <<sent, shown, othersUnchanged>>

\* The end of putchar.
flanterm_write(p) ==
    /\ Runs(p) /\ stage[p] = "show"
    /\ shown' = [shown EXCEPT ![p] = Append(@, char[p])]
    /\ stage' = [stage EXCEPT ![p] = "print"]
    /\ UNCHANGED <<sent, transmitter, othersUnchanged>>

\* The serial port sends its character (external).
Transmit ==
    /\ transmitter # << >>
    /\ sent' = [sent EXCEPT ![transmitter[1]] = Append(@, transmitter[2])]
    /\ transmitter' = << >>
    /\ UNCHANGED <<stage, shown, othersUnchanged>>

-----------------------------------------------------------------------------
(* Handlers. *)

\* The tables of the US layout: Enter gives a new line in both, a key without
\* a character 0, and every other key two characters of its own.
kbdus == [sc \in 0 .. TableSize - 1 |->
    IF sc \in {0, LeftShift} THEN 0 ELSE IF sc = Enter THEN LF ELSE 97 + sc]
shiftKbdus == [sc \in 0 .. TableSize - 1 |->
    IF sc \in {0, LeftShift} THEN 0 ELSE IF sc = Enter THEN LF ELSE 65 + sc]

\* KeyboardDriver: the text to print for a scan code; the release of a key
\* sends its code plus TableSize.
EchoOf(sc) ==
    IF sc < TableSize + 1
    THEN <<[kind |-> "s", str |-> <<IF shiftpressed THEN shiftKbdus[sc] ELSE kbdus[sc]>>]>>
    ELSE << >>
ShiftAfterSticky(sc) == shiftpressed \/ sc = LeftShift
ShiftAfter(sc) ==
    CASE sc = LeftShift -> TRUE
      [] sc = LeftShift + TableSize -> FALSE
      [] OTHER -> shiftpressed

\* The keyboard's interrupt, taken when interrupts are on.
KeyboardHandler ==
    LET sc == typed[keysRead + 1]
    IN  /\ fbSetup /\ holder = NoOne
        /\ keysRead < Len(typed)
        /\ keysRead' = keysRead + 1
        /\ rest' = [rest EXCEPT ![Keyboard] = EchoOf(sc)]
        /\ shiftpressed' = ShiftAfter(sc)
        /\ holder' = Keyboard
        /\ stage' = [stage EXCEPT ![Keyboard] = "format"]
        /\ UNCHANGED <<script, typed, source, text, value, index, char, ret, hexString,
                       fbSetup, outVars>>

\* Another interrupt or exception whose handler prints.
EnterHandler(h) ==
    /\ fbSetup /\ holder = NoOne
    /\ stage[h] = "off" /\ rest[h] # << >>
    /\ holder' = h
    /\ stage' = [stage EXCEPT ![h] = "format"]
    /\ UNCHANGED <<script, typed, rest, source, text, value, index, char, ret, hexString,
                   fbSetup, outVars, keysRead, shiftpressed>>

LeaveHandler(h) ==
    /\ holder = h
    /\ stage[h] = "format" /\ rest[h] = << >>
    /\ holder' = NoOne
    /\ stage' = [stage EXCEPT ![h] = "off"]
    /\ UNCHANGED <<script, typed, rest, source, text, value, index, char, ret, hexString,
                   fbSetup, outVars, keysRead, shiftpressed>>

-----------------------------------------------------------------------------
Init ==
    /\ \E s \in Scenarios : script = s.script /\ typed = s.typed
    /\ rest = [p \in Printers |-> IF p = Keyboard THEN << >> ELSE script[p]]
    /\ stage = [p \in Printers |-> IF p \in Tasks THEN "format" ELSE "off"]
    /\ source = [p \in Printers |-> "text"]
    /\ text = [p \in Printers |-> << >>]
    /\ value = [p \in Printers |-> 0]
    /\ index = [p \in Printers |-> 0]
    /\ char = [p \in Printers |-> NUL]
    /\ ret = [i \in 0 .. RetSize - 1 |-> NUL]
    /\ hexString = [i \in 0 .. HexSize - 1 |-> NUL]
    /\ holder = NoOne
    /\ fbSetup = FALSE
    /\ transmitter = << >>
    /\ sent = [p \in Printers |-> << >>]
    /\ shown = [p \in Printers |-> << >>]
    /\ keysRead = 0
    /\ shiftpressed = FALSE

Step(p) ==
    \/ printf(p) \/ itoaEnd(p) \/ itoaDigit(p) \/ hexEnd(p) \/ hexDigit(p)
    \/ printDone(p) \/ printChar(p)
    \/ write_serial(p) \/ outb(p) \/ flanterm_write(p)

Enters == KeyboardHandler \/ \E h \in Handlers : EnterHandler(h)
Leaves == \E h \in Handlers \cup {Keyboard} : LeaveHandler(h)

\* All is said; tasks go on without printing.
Finished(p) == rest[p] = << >> /\ stage[p] \in {"format", "off"}
AllFinished == keysRead = Len(typed) /\ \A p \in Printers : Finished(p)
Silent == AllFinished /\ transmitter = << >> /\ holder = NoOne /\ UNCHANGED vars

Next ==
    \/ InitializeTerminal
    \/ \E p \in Printers : Step(p)
    \/ Transmit
    \/ Enters
    \/ Leaves
    \/ Silent

\* Every task gets the CPU again and again (EveryTaskRuns of Scheduler), a
\* handler runs on, interrupts are taken, and the serial port sends.
Fairness ==
    /\ WF_vars(InitializeTerminal)
    /\ \A p \in Printers : WF_vars(Step(p))
    /\ WF_vars(Transmit)
    /\ WF_vars(Enters)
    /\ WF_vars(Leaves)

Spec == Init /\ [][Next]_vars /\ Fairness

-----------------------------------------------------------------------------
(* What the console should say. *)

\* The numeral of a natural number in base b.
Numeral(v, b) ==
    LET n == CHOOSE k \in 1 .. v + 1 : v < b^k /\ (k = 1 \/ v >= b^(k - 1))
    IN  [k \in 1 .. n |-> hexChars((v \div b^(n - k)) % b)]

\* What is before the first NUL of the first n characters.
BeforeNul(str, n) ==
    LongestCommonPrefix({SelectSeq(SubSeq(str, 1, n), LAMBDA ch : ch # NUL),
                         SubSeq(str, 1, n)})

Spelled(item) ==
    CASE item.kind = "d" -> Numeral(item.v, 10)
      [] item.kind = "x" -> Numeral(item.v, 16)
      [] item.kind = "s" -> item.str
      [] item.kind = "l" -> BeforeNul(item.str, item.n)
      [] OTHER -> << >>
Message(p) == FlattenSeq([k \in DOMAIN script[p] |-> Spelled(script[p][k])])
WithReturns(str) ==
    FlattenSeq([k \in DOMAIN str |-> IF str[k] = LF THEN <<CR, LF>> ELSE <<str[k]>>])

\* On its way over the line or arrived.
OnLine(p) ==
    sent[p] \o IF transmitter # << >> /\ transmitter[1] = p THEN <<transmitter[2]>> ELSE << >>

Numbers(p) == {item \in Range(script[p]) : item.kind \in {"d", "x"}}

\* p is the only task that prints, and no handler converts a number.
Undisturbed(p) ==
    /\ \A q \in Tasks \ {p} : script[q] = << >>
    /\ \A h \in Handlers : Numbers(h) = {}

-----------------------------------------------------------------------------
(* Properties. *)

Stages == {"format", "itoa", "digits", "hex", "hexDigits", "print", "crWait", "crOut",
           "wait", "out", "show", "off"}

\* Types of the variables.
TypeOK ==
    /\ \E s \in Scenarios : script = s.script /\ typed = s.typed
    /\ rest \in [Printers -> Seq(Items)]
    /\ stage \in [Printers -> Stages]
    /\ source \in [Printers -> {"text", "d", "x"}]
    /\ value \in [Printers -> Int]
    /\ index \in [Printers -> Int]
    /\ ret \in [0 .. RetSize - 1 -> Int]
    /\ hexString \in [0 .. HexSize - 1 -> Int]
    /\ holder \in {NoOne, Keyboard} \cup Handlers
    /\ keysRead \in 0 .. Len(typed)
    /\ shiftpressed \in BOOLEAN

\* Whatever keys are pressed and whatever handlers print in between, all that a
\* task prints arrives on the serial line and on the screen, in order and with
\* its numbers right, as long as it is the only task that prints and handlers
\* convert no numbers.  (itoa on a negative number is not covered.)
MessagesComplete ==
    \A p \in Tasks :
        Undisturbed(p) /\ (\A item \in Numbers(p) : item.v >= 0) =>
            /\ IsPrefix(OnLine(p), WithReturns(Message(p)))
            /\ IsPrefix(shown[p], Message(p))
            /\ Finished(p) => /\ OnLine(p) = WithReturns(Message(p))
                              /\ shown[p] = Message(p)

\* Every key press shows on the screen as the character it has in the layout
\* with left Shift as it was held, in the order of the presses.
Held(k) ==
    LET shifts == {j \in 1 .. k - 1 : typed[j] % TableSize = LeftShift}
    IN  \E j \in shifts : typed[j] = LeftShift /\ \A i \in shifts : i <= j
Presses == {k \in 1 .. keysRead : typed[k] < TableSize}
KeysEchoed ==
    LET echo == [k \in Presses |-> IF Held(k) THEN shiftKbdus[typed[k]] ELSE kbdus[typed[k]]]
        all  == SetToSortSeq(Presses, <)
    IN  /\ IsPrefix(shown[Keyboard], [j \in DOMAIN all |-> echo[all[j]]])
        /\ Finished(Keyboard) => Len(shown[Keyboard]) = Len(all)

\* However printers interrupt each other in the middle of a number, none writes
\* or reads beyond the static buffers of itoa and hexToString that they share:
\* there is a NUL at or after the place where print reads.
NumbersInBuffers ==
    \A p \in Printers :
        /\ stage[p] = "itoa" => Digits(value[p]) \in DOMAIN ret
        /\ stage[p] = "digits" => index[p] \in DOMAIN ret
        /\ stage[p] = "hexDigits" => index[p] - 1 \in DOMAIN hexString
        /\ stage[p] = "print" /\ source[p] = "d" =>
            \E i \in DOMAIN ret : index[p] <= i /\ ret[i] = NUL
        /\ stage[p] = "print" /\ source[p] = "x" =>
            \E i \in DOMAIN hexString : index[p] <= i /\ hexString[i] = NUL

\* All messages are printed to their end and all keys are read: nobody waits for
\* the serial port or for a handler for ever, and print finds its NUL.
PrintsAll == <>AllFinished
=============================================================================
