--------------------------- MODULE ConsoleProofs ---------------------------
(***************************************************************************)
(* Proofs about Console, for any number of tasks and handlers, any         *)
(* messages and any sizes of the buffers that the numbers fit in.          *)
(***************************************************************************)
EXTENDS Console, TLAPS

\* Stages between a conversion and the end of its print.
Reading == {"print", "crWait", "crOut", "wait", "out", "show"}

\* The last NUL of ret that matters: every conversion under way stores below
\* it, every print under way has not passed it.
RetEnd(m) ==
    /\ ret[m] = NUL
    /\ \A p \in Printers :
        /\ stage[p] = "digits" => index[p] \in 0 .. m - 1
        /\ stage[p] \in Reading /\ source[p] = "d" => index[p] \in 0 .. m
RetInv == \E m \in 0 .. RetSize - 1 : RetEnd(m)

\* The NUL of hexString never goes, and the digits left fit in front of it.
HexInv ==
    /\ hexString[HexSize - 1] = NUL
    /\ \A p \in Printers :
        /\ stage[p] = "hex" => value[p] \in Nat /\ value[p] < 16^(HexSize - 1)
        /\ stage[p] = "hexDigits" =>
            index[p] \in 1 .. HexSize - 1 /\ value[p] \in Nat /\ value[p] < 16^index[p]
        /\ stage[p] \in Reading /\ source[p] = "x" => index[p] \in 0 .. HexSize - 1

\* Which buffer a conversion under way is for.
SourceInv ==
    \A p \in Printers :
        /\ stage[p] = "itoa" => Digits(value[p]) \in 1 .. RetSize - 1
        /\ stage[p] \in {"itoa", "digits"} => source[p] = "d"
        /\ stage[p] \in {"hex", "hexDigits"} => source[p] = "x"

IInv == TypeOK /\ RetInv /\ HexInv /\ SourceInv

-----------------------------------------------------------------------------
\* What the driver hands to printf is a text.
LEMMA EchoType ==
    ASSUME TypeOK, keysRead < Len(typed)
    PROVE  EchoOf(typed[keysRead + 1]) \in Seq(Items)
<1> DEFINE sc == typed[keysRead + 1]
<1>1. typed \in Seq(ScanCodes)
  BY ConsoleAssumption DEF TypeOK
<1>2. keysRead + 1 \in 1 .. Len(typed)
  BY <1>1 DEF TypeOK
<1>3. sc \in ScanCodes
  BY <1>1, <1>2
<1>4. sc < TableSize + 1 => sc \in 0 .. TableSize - 1
  BY <1>3, ConsoleAssumption DEF ScanCodes
<1>5. sc \in 0 .. TableSize - 1 => kbdus[sc] \in Nat /\ shiftKbdus[sc] \in Nat
  BY ConsoleAssumption DEF kbdus, shiftKbdus, LF
<1>6. sc < TableSize + 1 =>
        [kind |-> "s", str |-> <<IF shiftpressed THEN shiftKbdus[sc] ELSE kbdus[sc]>>] \in Items
  BY <1>4, <1>5 DEF Items
<1>7. \A item \in Items : <<item>> \in Seq(Items) /\ << >> \in Seq(Items)
  OBVIOUS
<1>8. EchoOf(sc) \in Seq(Items)
  <2> HIDE DEF sc
  <2>1. CASE sc < TableSize + 1
    BY <1>6, <1>7, <2>1 DEF EchoOf
  <2>2. CASE ~(sc < TableSize + 1)
    <3>1. << >> \in Seq(Items)
      OBVIOUS
    <3> QED BY <2>2, <3>1 DEF EchoOf
  <2> QED BY <2>1, <2>2
<1> QED BY <1>8

\* Before anything is printed.
LEMMA InitEstablishes == Init => IInv
<1> SUFFICES ASSUME Init PROVE IInv
  OBVIOUS
<1> USE DEF Init
<1>1. PICK s \in Scenarios : script = s.script /\ typed = s.typed
  OBVIOUS
<1>2. script \in [Tasks \cup Handlers -> Seq(Items)] /\ typed \in Seq(ScanCodes)
  BY <1>1, ConsoleAssumption
<1>3. rest \in [Printers -> Seq(Items)]
  <2>1. << >> \in Seq(Items)
    OBVIOUS
  <2>2. \A p \in Printers : p # Keyboard => script[p] \in Seq(Items)
    BY <1>2 DEF Printers
  <2> QED BY <2>1, <2>2
<1>4. TypeOK
  <2>1. keysRead \in 0 .. Len(typed)
    BY <1>2
  <2>2. \A n \in Nat : [i \in 0 .. n - 1 |-> NUL] \in [0 .. n - 1 -> Int]
    BY DEF NUL
  <2>3. ret \in [0 .. RetSize - 1 -> Int] /\ hexString \in [0 .. HexSize - 1 -> Int]
    BY <2>2, ConsoleAssumption
  <2>4. value \in [Printers -> Int] /\ index \in [Printers -> Int]
    OBVIOUS
  <2>5. source \in [Printers -> {"text", "d", "x"}] /\ shiftpressed \in BOOLEAN
    OBVIOUS
  <2>6. stage \in [Printers -> Stages]
    BY DEF Stages
  <2>7. holder \in {NoOne, Keyboard} \cup Handlers
    OBVIOUS
  <2> QED BY ONLY <1>1, <1>3, <2>1, <2>3, <2>4, <2>5, <2>6, <2>7 DEF TypeOK
<1>5. RetEnd(0)
  BY ConsoleAssumption DEF RetEnd, Reading, NUL
<1>6. RetInv
  BY <1>5, ConsoleAssumption DEF RetInv
<1>7. HexInv
  BY ConsoleAssumption DEF HexInv, Reading, NUL
<1>8. SourceInv
  BY DEF SourceInv
<1> QED BY <1>4, <1>6, <1>7, <1>8 DEF IInv

\* What the invariant promises.
LEMMA InvariantImplies == IInv => NumbersInBuffers
<1> SUFFICES ASSUME IInv, NEW p \in Printers
             PROVE  /\ stage[p] = "itoa" => Digits(value[p]) \in DOMAIN ret
                    /\ stage[p] = "digits" => index[p] \in DOMAIN ret
                    /\ stage[p] = "hexDigits" => index[p] - 1 \in DOMAIN hexString
                    /\ stage[p] = "print" /\ source[p] = "d" =>
                        \E i \in DOMAIN ret : index[p] <= i /\ ret[i] = NUL
                    /\ stage[p] = "print" /\ source[p] = "x" =>
                        \E i \in DOMAIN hexString : index[p] <= i /\ hexString[i] = NUL
  BY DEF NumbersInBuffers
<1> USE ConsoleAssumption
<1>1. DOMAIN ret = 0 .. RetSize - 1 /\ DOMAIN hexString = 0 .. HexSize - 1
  BY DEF IInv, TypeOK
<1>2. PICK m \in 0 .. RetSize - 1 : RetEnd(m)
  BY DEF IInv, RetInv
<1>3. stage[p] = "itoa" => Digits(value[p]) \in DOMAIN ret
  BY <1>1 DEF IInv, SourceInv
<1>4. stage[p] = "digits" => index[p] \in DOMAIN ret
  BY <1>1, <1>2 DEF RetEnd
<1>5. stage[p] = "hexDigits" => index[p] - 1 \in DOMAIN hexString
  BY <1>1 DEF IInv, HexInv
<1>6. stage[p] = "print" /\ source[p] = "d" =>
        \E i \in DOMAIN ret : index[p] <= i /\ ret[i] = NUL
  BY <1>1, <1>2 DEF RetEnd, Reading
<1>7. stage[p] = "print" /\ source[p] = "x" =>
        \E i \in DOMAIN hexString : index[p] <= i /\ hexString[i] = NUL
  BY <1>1 DEF IInv, HexInv, Reading
<1> QED BY <1>3, <1>4, <1>5, <1>6, <1>7

-----------------------------------------------------------------------------
(* Steps. *)

\* The buffers have room for a character and a NUL.
LEMMA Sizes == RetSize \in Nat /\ HexSize \in Nat /\ RetSize >= 2 /\ HexSize >= 2
BY ConsoleAssumption

\* A store leaves an array an array.
LEMMA StoreType ==
    ASSUME NEW S, NEW T, NEW f \in [S -> T], NEW i, NEW c \in T
    PROVE  [f EXCEPT ![i] = c] \in [S -> T]
OBVIOUS

\* Steps that touch no number: a printer goes on in putchar, or is done.
LEMMA QuietStep ==
    ASSUME IInv, TypeOK', UNCHANGED <<ret, hexString, value, index, source>>,
           \A p \in Printers : \/ stage'[p] = stage[p]
                               \/ stage'[p] \in {"format", "off"}
                               \/ stage[p] \in Reading /\ stage'[p] \in Reading
    PROVE  IInv'
<1>1. PICK m \in 0 .. RetSize - 1 : RetEnd(m)
  BY DEF IInv, RetInv
<1>2. RetEnd(m)'
  BY <1>1 DEF RetEnd, Reading
<1>3. RetInv'
  BY <1>2 DEF RetInv
<1>4. HexInv'
  BY DEF IInv, HexInv, Reading
<1>5. SourceInv'
  BY DEF IInv, SourceInv, Reading
<1> QED BY <1>3, <1>4, <1>5 DEF IInv

\* printf takes up the next item: its number, if it is one, fits in its buffer.
LEMMA PrintfStep ==
    ASSUME IInv, NEW p \in Printers, printf(p)
    PROVE  IInv'
<1> DEFINE item == Head(rest[p])
<1> USE DEF printf
<1>1. TypeOK /\ rest[p] \in Seq(Items) /\ rest[p] # << >>
  BY DEF IInv, TypeOK
<1>2. item \in Items /\ Tail(rest[p]) \in Seq(Items)
  BY <1>1
<1>3. /\ item.kind = "d" => item.v \in Int /\ Digits(item.v) \in 1 .. RetSize - 1
      /\ item.kind = "x" => item.v \in Nat /\ item.v < 16^(HexSize - 1)
  BY <1>2 DEF Items
<1>4. /\ rest' = [rest EXCEPT ![p] = Tail(@)]
      /\ source' = [source EXCEPT ![p] = IF item.kind \in {"d", "x"} THEN item.kind ELSE "text"]
      /\ value' = [value EXCEPT ![p] = IF item.kind \in {"d", "x"} THEN item.v ELSE 0]
      /\ stage' = [stage EXCEPT ![p] = FirstStage(item.kind)]
      /\ stage[p] = "format"
      /\ UNCHANGED <<script, typed, index, ret, hexString, holder, keysRead, shiftpressed>>
  BY DEF outVars
<1>5. /\ item.kind = "d" => FirstStage(item.kind) = "itoa"
      /\ item.kind = "x" => FirstStage(item.kind) = "hex"
      /\ item.kind \notin {"d", "x"} => FirstStage(item.kind) = "print"
  BY DEF FirstStage
<1> HIDE DEF item, printf
<1>6. TypeOK'
  <2>1. rest' \in [Printers -> Seq(Items)]
    BY <1>1, <1>2, <1>4 DEF TypeOK
  <2>2. source' \in [Printers -> {"text", "d", "x"}] /\ stage' \in [Printers -> Stages]
    BY <1>1, <1>4, <1>5 DEF TypeOK, Stages
  <2>3. value' \in [Printers -> Int]
    BY <1>1, <1>3, <1>4 DEF TypeOK
  <2> QED BY <1>1, <1>4, <2>1, <2>2, <2>3 DEF TypeOK
<1>7. RetInv'
  <2>1. PICK m \in 0 .. RetSize - 1 : RetEnd(m)
    BY DEF IInv, RetInv
  <2>2. RetEnd(m)'
    BY <1>1, <1>4, <1>5, <2>1 DEF RetEnd, TypeOK, Reading
  <2> QED BY <2>2 DEF RetInv
<1>8. HexInv'
  BY <1>1, <1>3, <1>4, <1>5 DEF IInv, HexInv, TypeOK, Reading
<1>9. SourceInv'
  BY <1>1, <1>3, <1>4, <1>5 DEF IInv, SourceInv, TypeOK
<1> QED BY <1>6, <1>7, <1>8, <1>9 DEF IInv

\* itoa stores its NUL: if that is beyond the last one so far, it is the new
\* last one, and those who read up to the old one stop there at the latest.
LEMMA ItoaEndStep ==
    ASSUME IInv, NEW p \in Printers, itoaEnd(p)
    PROVE  IInv'
<1>1. TypeOK /\ stage[p] = "itoa"
  BY DEF IInv, itoaEnd
<1>2. /\ ret \in [0 .. RetSize - 1 -> Int] /\ stage \in [Printers -> Stages]
      /\ index \in [Printers -> Int]
  BY <1>1 DEF TypeOK
<1>3. PICK d \in Int : d = Digits(value[p]) /\ 1 <= d /\ d <= RetSize - 1
  BY <1>1, Sizes DEF IInv, SourceInv
<1>4. /\ ret' = [ret EXCEPT ![d] = NUL]
      /\ index' = [index EXCEPT ![p] = d - 1]
      /\ stage' = [stage EXCEPT ![p] = "digits"]
      /\ UNCHANGED <<script, typed, rest, source, holder, keysRead, shiftpressed, value,
                     hexString>>
  BY <1>3 DEF itoaEnd, bufferUnchanged
<1>5. TypeOK'
  <2>1. ret' \in [0 .. RetSize - 1 -> Int]
    BY <1>2, <1>4, StoreType, NUL \in Int DEF NUL
  <2>2. index' \in [Printers -> Int] /\ stage' \in [Printers -> Stages]
    BY <1>2, <1>4 DEF Stages
  <2> QED BY <1>1, <1>4, <2>1, <2>2 DEF TypeOK
<1>6. RetInv'
  <2>1. PICK m \in Int : RetEnd(m) /\ 0 <= m /\ m <= RetSize - 1
    BY Sizes DEF IInv, RetInv
  <2>2. CASE d <= m
    <3>1. RetEnd(m)'
      BY <1>2, <1>3, <1>4, <2>1, <2>2, Sizes DEF RetEnd, Reading, NUL
    <3> QED BY <2>1, <3>1, Sizes DEF RetInv
  <2>3. CASE m < d
    <3>1. RetEnd(d)'
      BY <1>2, <1>3, <1>4, <2>1, <2>3, Sizes DEF RetEnd, Reading, NUL
    <3> QED BY <1>3, <3>1, Sizes DEF RetInv
  <2> QED BY <2>2, <2>3
<1>7. HexInv'
  BY <1>1, <1>2, <1>4 DEF IInv, HexInv, Reading
<1>8. SourceInv'
  BY <1>1, <1>2, <1>4 DEF IInv, SourceInv
<1> QED BY <1>5, <1>6, <1>7, <1>8 DEF IInv

\* itoa stores a digit, below the last NUL; after the first digit print starts.
LEMMA ItoaDigitStep ==
    ASSUME IInv, NEW p \in Printers, itoaDigit(p)
    PROVE  IInv'
<1>1. TypeOK /\ stage[p] = "digits" /\ source[p] = "d"
  BY DEF IInv, itoaDigit, SourceInv
<1>2. /\ ret \in [0 .. RetSize - 1 -> Int] /\ stage \in [Printers -> Stages]
      /\ index \in [Printers -> Int] /\ value \in [Printers -> Int]
  BY <1>1 DEF TypeOK
<1>3. PICK c : c = Rem(value[p], 10) + 48
  OBVIOUS
<1>4. PICK v : v = Quot(value[p], 10)
  OBVIOUS
<1>5. c \in Int /\ v \in Int
  <2>1. value[p] \in Int
    BY <1>2
  <2> QED BY <1>3, <1>4, <2>1 DEF Rem, Quot
<1>6. /\ ret' = [ret EXCEPT ![index[p]] = c]
      /\ value' = [value EXCEPT ![p] = v]
      /\ index' = [index EXCEPT ![p] = IF index[p] = 0 THEN 0 ELSE index[p] - 1]
      /\ stage' = [stage EXCEPT ![p] = IF index[p] = 0 THEN "print" ELSE "digits"]
      /\ UNCHANGED <<script, typed, rest, source, holder, keysRead, shiftpressed, hexString>>
  BY <1>1, <1>2, <1>3, <1>4 DEF itoaDigit, bufferUnchanged, Previous
<1>7. TypeOK'
  <2>1. ret' \in [0 .. RetSize - 1 -> Int]
    BY <1>2, <1>5, <1>6, StoreType
  <2>2. index' \in [Printers -> Int] /\ stage' \in [Printers -> Stages]
    BY <1>2, <1>6 DEF Stages
  <2>3. value' \in [Printers -> Int]
    BY <1>2, <1>5, <1>6
  <2> QED BY <1>1, <1>6, <2>1, <2>2, <2>3 DEF TypeOK
<1>8. RetInv'
  <2>1. PICK m \in Int : RetEnd(m) /\ 0 <= m /\ m <= RetSize - 1
    BY Sizes DEF IInv, RetInv
  <2>2. index[p] \in Int /\ 0 <= index[p] /\ index[p] < m
    BY <1>1, <1>2, <2>1 DEF RetEnd
  <2>3. RetEnd(m)'
    BY <1>1, <1>2, <1>6, <2>1, <2>2 DEF RetEnd, Reading
  <2> QED BY <2>1, <2>3, Sizes DEF RetInv
<1>9. HexInv'
  BY <1>1, <1>2, <1>6 DEF IInv, HexInv, Reading
<1>10. SourceInv'
  BY <1>1, <1>2, <1>6 DEF IInv, SourceInv
<1> QED BY <1>7, <1>8, <1>9, <1>10 DEF IInv

\* hexToString stores its NUL where it always is.
LEMMA HexEndStep ==
    ASSUME IInv, NEW p \in Printers, hexEnd(p)
    PROVE  IInv'
<1>1. TypeOK /\ stage[p] = "hex" /\ source[p] = "x"
  BY DEF IInv, hexEnd, SourceInv
<1>2. /\ hexString \in [0 .. HexSize - 1 -> Int] /\ stage \in [Printers -> Stages]
      /\ index \in [Printers -> Int] /\ value \in [Printers -> Int]
  BY <1>1 DEF TypeOK
<1>3. /\ hexString' = [hexString EXCEPT ![HexSize - 1] = NUL]
      /\ index' = [index EXCEPT ![p] = HexSize - 1]
      /\ stage' = [stage EXCEPT ![p] = "hexDigits"]
      /\ UNCHANGED <<script, typed, rest, source, holder, keysRead, shiftpressed, ret, value>>
  BY DEF hexEnd, bufferUnchanged, hexLast
<1>4. TypeOK'
  <2>1. hexString' \in [0 .. HexSize - 1 -> Int]
    BY <1>2, <1>3, StoreType, NUL \in Int DEF NUL
  <2>2. index' \in [Printers -> Int] /\ stage' \in [Printers -> Stages]
    BY <1>2, <1>3, Sizes DEF Stages
  <2> QED BY <1>1, <1>3, <2>1, <2>2 DEF TypeOK
<1>5. RetInv'
  <2>1. PICK m \in 0 .. RetSize - 1 : RetEnd(m)
    BY DEF IInv, RetInv
  <2>2. RetEnd(m)'
    BY <1>1, <1>2, <1>3, <2>1 DEF RetEnd, Reading
  <2> QED BY <2>2 DEF RetInv
<1>6. HexInv'
  <2>1. hexString'[HexSize - 1] = NUL
    BY <1>2, <1>3, Sizes
  <2> QED BY <1>1, <1>2, <1>3, <2>1, Sizes DEF IInv, HexInv, Reading
<1>7. SourceInv'
  BY <1>1, <1>2, <1>3 DEF IInv, SourceInv
<1> QED BY <1>4, <1>5, <1>6, <1>7 DEF IInv

\* hexToString stores a digit: what is left of the number has one digit less,
\* and there is still room for it in front.
LEMMA HexDigitStep ==
    ASSUME IInv, NEW p \in Printers, hexDigit(p)
    PROVE  IInv'
<1>1. TypeOK /\ stage[p] = "hexDigits" /\ source[p] = "x"
  BY DEF IInv, hexDigit, SourceInv
<1>2. /\ hexString \in [0 .. HexSize - 1 -> Int] /\ stage \in [Printers -> Stages]
      /\ index \in [Printers -> Int] /\ value \in [Printers -> Int]
  BY <1>1 DEF TypeOK
<1>3. PICK i \in Int : i = index[p] /\ 1 <= i /\ i <= HexSize - 1
  BY <1>1, <1>2, Sizes DEF IInv, HexInv
<1>4. PICK v \in Nat : v = value[p] /\ v < 16^i
  BY <1>1, <1>2, <1>3 DEF IInv, HexInv
<1>5. PICK c \in Int : c = hexChars(v % 16)
  BY <1>4 DEF hexChars
<1>6. /\ hexString' = [hexString EXCEPT ![i - 1] = c]
      /\ index' = [index EXCEPT ![p] = i - 1]
      /\ value' = [value EXCEPT ![p] = v \div 16]
      /\ stage' = [stage EXCEPT ![p] = IF v \div 16 = 0 THEN "print" ELSE "hexDigits"]
      /\ UNCHANGED <<script, typed, rest, source, holder, keysRead, shiftpressed, ret>>
  BY <1>1, <1>2, <1>3, <1>4, <1>5 DEF hexDigit, bufferUnchanged
<1>7. v \div 16 \in Nat /\ 16 * (v \div 16) <= v
  OBVIOUS
<1>8. v \div 16 # 0 => i >= 2 /\ v \div 16 < 16^(i - 1)
  <2>1. i - 1 \in 0 .. HexSize - 2
    BY <1>3, Sizes
  <2>2. 16^(i - 1) \in Nat /\ 16^((i - 1) + 1) = 16 * 16^(i - 1)
    BY <2>1, PowersOf16
  <2>3. (i - 1) + 1 = i
    BY <1>3
  <2>4. v < 16 * 16^(i - 1)
    BY <1>4, <2>2, <2>3
  <2>5. PICK k \in Nat : k = 16^(i - 1)
    BY <2>2
  <2>6. v \div 16 < k
    BY <1>4, <1>7, <2>4, <2>5
  <2>7. i = 1 => k = 1
    BY <2>5, PowersOf16
  <2> QED BY <1>3, <1>7, <2>5, <2>6, <2>7
<1>9. TypeOK'
  <2>1. hexString' \in [0 .. HexSize - 1 -> Int]
    BY <1>2, <1>5, <1>6, StoreType
  <2>2. index' \in [Printers -> Int] /\ stage' \in [Printers -> Stages]
    BY <1>2, <1>3, <1>6 DEF Stages
  <2>3. value' \in [Printers -> Int]
    BY <1>2, <1>6, <1>7
  <2> QED BY <1>1, <1>6, <2>1, <2>2, <2>3 DEF TypeOK
<1>10. RetInv'
  <2>1. PICK m \in 0 .. RetSize - 1 : RetEnd(m)
    BY DEF IInv, RetInv
  <2>2. RetEnd(m)'
    BY <1>1, <1>2, <1>6, <2>1 DEF RetEnd, Reading
  <2> QED BY <2>2 DEF RetInv
<1>11. HexInv'
  <2>1. hexString'[HexSize - 1] = NUL
    BY <1>2, <1>3, <1>6, Sizes DEF IInv, HexInv
  <2>2. ASSUME NEW q \in Printers, q # p
        PROVE  stage'[q] = stage[q] /\ index'[q] = index[q] /\ value'[q] = value[q]
               /\ source'[q] = source[q]
    BY <1>2, <1>6, <2>2
  <2>3. /\ index'[p] = i - 1 /\ value'[p] = v \div 16 /\ source'[p] = "x"
        /\ stage'[p] = IF v \div 16 = 0 THEN "print" ELSE "hexDigits"
    BY <1>1, <1>2, <1>6
  <2>4. ASSUME NEW q \in Printers
        PROVE  /\ stage'[q] = "hex" => value'[q] \in Nat /\ value'[q] < 16^(HexSize - 1)
               /\ stage'[q] = "hexDigits" =>
                    /\ index'[q] \in 1 .. HexSize - 1 /\ value'[q] \in Nat
                    /\ value'[q] < 16^(index'[q])
               /\ stage'[q] \in Reading /\ source'[q] = "x" => index'[q] \in 0 .. HexSize - 1
    <3>1. CASE q = p
      BY <1>3, <1>7, <1>8, <2>3, <3>1, Sizes DEF Reading
    <3>2. CASE q # p
      BY <2>2, <3>2 DEF IInv, HexInv
    <3> QED BY <3>1, <3>2
  <2> QED BY <2>1, <2>4 DEF HexInv
<1>12. SourceInv'
  BY <1>1, <1>2, <1>6 DEF IInv, SourceInv
<1> QED BY <1>9, <1>10, <1>11, <1>12 DEF IInv

\* print goes past a character that is not NUL, and so not past the last NUL.
LEMMA PrintCharStep ==
    ASSUME IInv, NEW p \in Printers, printChar(p)
    PROVE  IInv'
<1>1. TypeOK /\ stage[p] = "print" /\ ~AtEnd(p)
  BY DEF IInv, printChar
<1>2. /\ stage \in [Printers -> Stages] /\ index \in [Printers -> Int]
      /\ source \in [Printers -> {"text", "d", "x"}]
  BY <1>1 DEF TypeOK
<1>3. PICK s \in {"crWait", "wait"} : stage' = [stage EXCEPT ![p] = s]
  BY DEF printChar
<1>4. /\ index' = [index EXCEPT ![p] = IF source[p] = "text" THEN index[p] ELSE index[p] + 1]
      /\ UNCHANGED <<script, typed, rest, source, value, ret, hexString, holder, keysRead,
                     shiftpressed>>
  BY <1>2 DEF printChar, printUnchanged
<1>5. /\ source[p] = "d" => ret[index[p]] # NUL
      /\ source[p] = "x" => hexString[index[p]] # NUL
  BY <1>1 DEF AtEnd
<1>6. TypeOK'
  <2>1. index' \in [Printers -> Int] /\ stage' \in [Printers -> Stages]
    BY <1>2, <1>3, <1>4 DEF Stages
  <2> QED BY <1>1, <1>4, <2>1 DEF TypeOK
<1>7. RetInv'
  <2>1. PICK m \in Int : RetEnd(m) /\ 0 <= m /\ m <= RetSize - 1
    BY Sizes DEF IInv, RetInv
  <2>2. source[p] = "d" => index[p] \in 0 .. m /\ index[p] # m
    BY <1>1, <1>5, <2>1 DEF RetEnd, Reading
  <2>3. RetEnd(m)'
    BY <1>2, <1>3, <1>4, <2>1, <2>2 DEF RetEnd, Reading
  <2> QED BY <2>1, <2>3, Sizes DEF RetInv
<1>8. HexInv'
  <2>1. source[p] = "x" => index[p] \in 0 .. HexSize - 1 /\ index[p] # HexSize - 1
    BY <1>1, <1>5 DEF IInv, HexInv, Reading
  <2> QED BY <1>2, <1>3, <1>4, <2>1, Sizes DEF IInv, HexInv, Reading
<1>9. SourceInv'
  BY <1>2, <1>3, <1>4 DEF IInv, SourceInv
<1> QED BY <1>6, <1>7, <1>8, <1>9 DEF IInv

\* The steps of a printer.
LEMMA PrinterStep ==
    ASSUME IInv, NEW p \in Printers, Step(p)
    PROVE  IInv'
<1>1. TypeOK /\ stage \in [Printers -> Stages]
  BY DEF IInv, TypeOK
<1>2. CASE printDone(p)
  <2>1. stage' = [stage EXCEPT ![p] = "format"]
        /\ UNCHANGED <<script, typed, rest, source, value, index, ret, hexString, holder,
                       keysRead, shiftpressed>>
    BY <1>2 DEF printDone, printUnchanged
  <2>2. TypeOK'
    BY <1>1, <2>1 DEF TypeOK, Stages
  <2> QED BY <1>1, <2>1, <2>2, QuietStep
<1>3. CASE write_serial(p) \/ outb(p) \/ flanterm_write(p)
  <2>1. PICK s \in Reading : stage' = [stage EXCEPT ![p] = s]
    BY <1>3 DEF write_serial, outb, flanterm_write, Reading
  <2>2. stage[p] \in Reading
    BY <1>3 DEF write_serial, outb, flanterm_write, Reading
  <2>3. UNCHANGED <<script, typed, rest, source, value, index, ret, hexString, holder,
                    keysRead, shiftpressed>>
    BY <1>3 DEF write_serial, outb, flanterm_write, othersUnchanged
  <2>4. TypeOK'
    BY <1>1, <2>1, <2>3 DEF TypeOK, Stages, Reading
  <2>5. \A q \in Printers : stage'[q] = stage[q] \/ (stage[q] \in Reading /\ stage'[q] \in Reading)
    BY <1>1, <2>1, <2>2
  <2> QED BY <2>3, <2>4, <2>5, QuietStep
<1> QED BY <1>2, <1>3, PrintfStep, ItoaEndStep, ItoaDigitStep, HexEndStep, HexDigitStep,
           PrintCharStep DEF Step

\* No step ends the invariant.
LEMMA NextPreserves == IInv /\ [Next]_vars => IInv'
<1> SUFFICES ASSUME IInv, [Next]_vars PROVE IInv'
  OBVIOUS
<1>1. TypeOK /\ stage \in [Printers -> Stages]
  BY DEF IInv, TypeOK
<1>2. CASE InitializeTerminal \/ Transmit \/ Silent \/ UNCHANGED vars
  <2>1. UNCHANGED <<script, typed, rest, stage, source, value, index, ret, hexString, holder,
                    keysRead, shiftpressed>>
    BY <1>2 DEF InitializeTerminal, Transmit, Silent, vars, localVars, othersUnchanged
  <2>2. TypeOK'
    BY <1>1, <2>1 DEF TypeOK
  <2> QED BY <2>1, <2>2, QuietStep
<1>3. CASE KeyboardHandler
  <2>1. /\ keysRead < Len(typed) /\ keysRead' = keysRead + 1
        /\ rest' = [rest EXCEPT ![Keyboard] = EchoOf(typed[keysRead + 1])]
        /\ shiftpressed' = ShiftAfter(typed[keysRead + 1])
        /\ holder' = Keyboard
        /\ stage' = [stage EXCEPT ![Keyboard] = "format"]
        /\ UNCHANGED <<script, typed, source, value, index, ret, hexString>>
    BY <1>3 DEF KeyboardHandler
  <2>2. EchoOf(typed[keysRead + 1]) \in Seq(Items)
    BY <1>1, <2>1, EchoType
  <2>3. shiftpressed' \in BOOLEAN
    BY <1>1, <2>1 DEF ShiftAfter, TypeOK
  <2>4. keysRead' \in 0 .. Len(typed)
    <3>1. typed \in Seq(ScanCodes)
      BY <1>1, ConsoleAssumption DEF TypeOK
    <3>2. Len(typed) \in Nat
      BY <3>1
    <3> QED BY <1>1, <2>1, <3>2 DEF TypeOK
  <2>5. rest' \in [Printers -> Seq(Items)] /\ stage' \in [Printers -> Stages]
    BY <1>1, <2>1, <2>2 DEF TypeOK, Stages
  <2>6. TypeOK'
    BY <1>1, <2>1, <2>3, <2>4, <2>5 DEF TypeOK
  <2> QED BY <1>1, <2>1, <2>6, QuietStep
<1>4. ASSUME NEW h \in Handlers \cup {Keyboard},
             (h \in Handlers /\ EnterHandler(h)) \/ LeaveHandler(h)
      PROVE  IInv'
  <2>1. PICK s \in {"format", "off"} : stage' = [stage EXCEPT ![h] = s]
    BY <1>4 DEF EnterHandler, LeaveHandler
  <2>2. /\ holder' \in {NoOne, Keyboard} \cup Handlers
        /\ UNCHANGED <<script, typed, rest, source, value, index, ret, hexString, keysRead,
                       shiftpressed>>
    BY <1>4 DEF EnterHandler, LeaveHandler
  <2>3. TypeOK'
    BY <1>1, <2>1, <2>2 DEF TypeOK, Stages
  <2> QED BY <1>1, <2>1, <2>2, <2>3, QuietStep
<1> QED BY <1>2, <1>3, <1>4, PrinterStep DEF Next, Enters, Leaves

-----------------------------------------------------------------------------
\* Types of printf's state.
THEOREM TypeCorrect == Spec => []TypeOK
<1>1. IInv => TypeOK
  BY DEF IInv
<1> QED BY <1>1, InitEstablishes, NextPreserves, PTL DEF Spec

\* Whoever prints what, and wherever printers interrupt each other, itoa,
\* hexToString and print stay inside the static buffers.
THEOREM BuffersSafe == Spec => []NumbersInBuffers
BY InitEstablishes, NextPreserves, InvariantImplies, PTL DEF Spec
=============================================================================
