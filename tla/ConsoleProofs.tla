--------------------------- MODULE ConsoleProofs ---------------------------
(***************************************************************************)
(* Theorems about Console, for every size of screen and buffer and every   *)
(* set of messages, and about Format, for every size of an int and every   *)
(* set of formats.                                                         *)
(***************************************************************************)
EXTENDS Console, Format, WellFoundedInduction, TLAPS

(* What a context has still to write ends in front of the last byte that   *)
(* can be reached.                                                         *)
Formatting ==
  /\ DOMAIN pc = Contexts /\ DOMAIN buf = 0 .. LAST
  /\ DOMAIN ptr = Contexts /\ DOMAIN elem = Contexts
  /\ DOMAIN rest = Contexts /\ DOMAIN msg = Contexts
  /\ \A c \in Contexts :
       /\ ptr[c] \in Nat /\ elem[c] \in Nat /\ msg[c] \in Messages
       /\ rest[c] \in Seq(Chars)
       /\ pc[c] = "format" => ptr[c] + Len(rest[c]) <= LAST
       /\ rest[c] # <<>> => pc[c] = "format"

(* What no message wrote is behind everything that one wrote.              *)
Untouched == {k \in 0 .. LAST : buf[k] = "others"}
OthersBehind ==
  /\ \A k \in Untouched : k >= BUF
  /\ \A k \in Untouched, j \in 0 .. LAST : j >= k => j \in Untouched
  /\ \A c \in Contexts : pc[c] = "format" => \A k \in Untouched : k >= ptr[c]

(* A reader has a NUL before it, unless who interrupted it has written     *)
(* farther than it has read, and will end its text there.                  *)
Above(d, c) == <<d, c>> \in {<<"timer", "main">>, <<"panic", "main">>, <<"panic", "timer">>}
EndAhead(c) ==
  \/ \E i \in ptr[c] .. LAST : buf[i] = "NUL"
  \/ \E d \in Contexts : Above(d, c) /\ pc[d] = "format" /\ ptr[d] > ptr[c]

BufferOk == Formatting /\ OthersBehind /\ \A c \in Contexts : Printing(c) => EndAhead(c)

(* Who prints has the colours of before on its stack.  When nobody was     *)
(* interrupted they are the default; after a panic there is no going back. *)
Themes ==
  /\ DOMAIN pc = Contexts /\ DOMAIN current_theme = Contexts
  /\ pc["panic"] = "idle" =>
       /\ pc["main"] # "idle" => current_theme["main"] = "default"
       /\ pc["main"] = "idle" /\ pc["timer"] # "idle" =>
            current_theme["timer"] = "default"
       /\ pc["main"] = "idle" /\ pc["timer"] = "idle" =>
            tty_theme_color = "default"

(* Between the statements of a character the cursor may be outside, but a  *)
(* row that is complete (wrap_y and after) has its column inside.          *)
MID == {"cr", "inc", "wrap", "wrap_x", "wrap_y", "bottom", "scroll"}
InRow == tty_x \in 0 .. TTY_WIDTH - 1
Inside == InRow /\ tty_y \in 0 .. TTY_HEIGHT - 1
At(c) ==
  IF pc[c] \in MID THEN pc[c] \in {"wrap_y", "bottom", "scroll"} => InRow
                   ELSE Inside

(* The cursor as the innermost context sees it.  A callback in the middle  *)
(* of a character of the interrupted code sees, before its own first       *)
(* character and between two, what that code needs to go on.               *)
Cursor ==
  /\ DOMAIN pc = Contexts /\ tty_x \in Nat /\ tty_y \in Nat
  /\ pc["panic"] # "idle" => At("panic")
  /\ pc["panic"] = "idle" =>
       IF pc["timer"] \in MID THEN At("timer") ELSE At("main")

-----------------------------------------------------------------------------
(* The buffer is empty at first, and nobody writes or reads it.            *)
LEMMA BufferOkInit == Init => BufferOk
<1> SUFFICES ASSUME Init PROVE BufferOk
  OBVIOUS
<1>1. LAST \in Nat /\ BUF - 1 <= LAST
  BY ConsoleAssumption DEF LAST
<1>2. Formatting
  BY DEF Init, Formatting, Contexts
<1>3. OthersBehind
  BY <1>1, ConsoleAssumption DEF Init, OthersBehind, Untouched, Contexts
<1>. QED
  BY <1>2, <1>3 DEF Init, BufferOk, Printing, Contexts

(* Each step writes inside of 0 .. LAST: an element begins in front of the *)
(* last byte of the buffer.                                                *)
LEMMA FormattingStep == Formatting /\ [Next]_vars => Formatting'
<1> SUFFICES ASSUME Formatting, [Next]_vars PROVE Formatting'
  OBVIOUS
<1> USE DEF Formatting, Step
<1>1. LAST \in Nat /\ LAST = BUF - 2 + MAX_FIELD /\ BUF \in Nat
  BY ConsoleAssumption DEF LAST
<1>2. CASE \E c \in {"main", "timer"}, m \in Messages : Enter(c, m)
  BY <1>2 DEF Enter
<1>3. CASE \E m \in Messages : kprint_panic(m)
  BY <1>1, <1>3 DEF kprint_panic, Contexts
<1>4. ASSUME NEW c \in Contexts, __kprintf(c) PROVE Formatting'
  <2>1. CASE SetTheme(c)
    BY <1>1, <2>1 DEF SetTheme
  <2>2. CASE FormatElement(c)
    <3>1. elem[c] + 1 \in 1 .. Len(msg[c].elements) /\ ptr[c] < BUF - 1
      BY <2>2, ConsoleAssumption DEF FormatElement, Room
    <3>2. /\ msg[c].elements[elem[c] + 1] \in Seq(Chars)
          /\ Len(msg[c].elements[elem[c] + 1]) <= MAX_FIELD
      BY <3>1, ConsoleAssumption
    <3>3. Len(msg[c].elements[elem[c] + 1]) \in Nat
      BY <3>2
    <3>4. ptr[c] + Len(msg[c].elements[elem[c] + 1]) <= LAST
      BY <1>1, <3>1, <3>2, <3>3, ConsoleAssumption
    <3>. QED
      BY <2>2, <3>2, <3>4 DEF FormatElement
  <2>3. CASE FormatChar(c)
    <3>1. /\ Tail(rest[c]) \in Seq(Chars) /\ Len(rest[c]) \in Nat
          /\ Len(Tail(rest[c])) = Len(rest[c]) - 1
      BY <2>3 DEF FormatChar
    <3>. QED
      BY <2>3, <3>1, <1>1 DEF FormatChar
  <2>4. CASE FormatEnd(c)
    BY <1>1, <2>4 DEF FormatEnd
  <2>5. CASE Restore(c)
    BY <2>5 DEF Restore, stack
  <2>6. CASE Switch(c)
    BY <2>6 DEF Switch
  <2>7. CASE CarriageReturn(c) \/ Advance(c) \/ Wrap(c) \/ WrapX(c)
             \/ WrapY(c) \/ Bottom(c) \/ tty_scroll_up(c)
    BY <2>7 DEF CarriageReturn, Advance, Wrap, WrapX, WrapY, Bottom,
                tty_scroll_up, stack
  <2>. QED
    BY <1>4, <2>1, <2>2, <2>3, <2>4, <2>5, <2>6, <2>7 DEF __kprintf, tty_put_char
<1>5. CASE UNCHANGED vars
  BY <1>5 DEF vars, stack
<1>. QED
  BY <1>2, <1>3, <1>4, <1>5 DEF Next

(* Where a context writes: one byte further on each time.                  *)
LEMMA FormatCharWrites ==
  ASSUME Formatting, NEW c \in Contexts, FormatChar(c)
  PROVE  /\ ptr[c] \in 0 .. LAST /\ ptr'[c] = ptr[c] + 1
         /\ \A k \in 0 .. LAST : k # ptr[c] => buf'[k] = buf[k]
         /\ buf'[ptr[c]] # "others"
<1>1. Len(rest[c]) \in Nat \ {0} /\ Head(rest[c]) \in Chars /\ LAST \in Nat
  BY ConsoleAssumption DEF Formatting, FormatChar, LAST
<1>2. ptr[c] \in 0 .. LAST
  BY <1>1 DEF Formatting, FormatChar, Step
<1>3. Head(rest[c]) # "others"
  BY <1>1 DEF Chars
<1>. QED
  BY <1>1, <1>2, <1>3 DEF Formatting, FormatChar

(* The steps that do not write to the buffer, and begin no text.           *)
Reading(c) ==
  \/ FormatElement(c) \/ Restore(c) \/ Switch(c) \/ CarriageReturn(c) \/ Advance(c)
  \/ Wrap(c) \/ WrapX(c) \/ WrapY(c) \/ Bottom(c) \/ tty_scroll_up(c)

(* They move no context into or out of its formatting.                     *)
LEMMA ReadingLeaves ==
  ASSUME Formatting, NEW c \in Contexts, Reading(c)
  PROVE  /\ buf' = buf /\ DOMAIN pc' = Contexts /\ DOMAIN ptr' = Contexts
         /\ \A d \in Contexts : pc'[d] = "format" <=> pc[d] = "format"
         /\ \A d \in Contexts : pc[d] = "format" \/ d # c => ptr'[d] = ptr[d]
         /\ \A d \in Contexts : Printing(d)' => Printing(d)
         /\ ptr'[c] = ptr[c] \/ (ptr'[c] = ptr[c] + 1 /\ buf[ptr[c]] # "NUL")
<1> USE DEF Formatting, Step, Printing
<1>1. CASE FormatElement(c)
  BY <1>1 DEF FormatElement
<1>2. CASE Restore(c)
  BY <1>2 DEF Restore, stack
<1>3. CASE Switch(c)
  BY <1>3 DEF Switch, Char
<1>4. CASE CarriageReturn(c) \/ Advance(c) \/ Wrap(c)
  BY <1>4 DEF CarriageReturn, Advance, Wrap, stack
<1>5. CASE WrapX(c) \/ WrapY(c) \/ Bottom(c) \/ tty_scroll_up(c)
  BY <1>5 DEF WrapX, WrapY, Bottom, tty_scroll_up, stack
<1>. QED
  BY <1>1, <1>2, <1>3, <1>4, <1>5 DEF Reading

(* Nothing is formatted behind what no message has written.                *)
LEMMA OthersStep == Formatting /\ OthersBehind /\ [Next]_vars => OthersBehind'
<1> SUFFICES ASSUME Formatting, OthersBehind, [Next]_vars PROVE OthersBehind'
  OBVIOUS
<1>1. CASE \E c \in {"main", "timer"}, m \in Messages : Enter(c, m)
  BY <1>1 DEF Enter, Step, Formatting, OthersBehind, Untouched
<1>2. CASE \E m \in Messages : kprint_panic(m)
  BY <1>2 DEF kprint_panic, Step, Formatting, OthersBehind, Untouched
<1>3. ASSUME NEW c \in Contexts, __kprintf(c) PROVE OthersBehind'
  <2>1. CASE SetTheme(c)
    BY <2>1 DEF SetTheme, Step, Formatting, OthersBehind, Untouched
  <2>2. CASE FormatChar(c)
    <3>1. /\ ptr[c] \in 0 .. LAST /\ ptr'[c] = ptr[c] + 1
          /\ \A k \in 0 .. LAST : k # ptr[c] => buf'[k] = buf[k]
          /\ buf'[ptr[c]] # "others"
      BY <2>2, FormatCharWrites
    <3>2. Untouched' = Untouched \ {ptr[c]}
      BY <3>1 DEF Untouched
    <3>3. \A k \in Untouched : k >= ptr[c] /\ k \in Int
      BY <2>2 DEF FormatChar, Step, OthersBehind, Untouched
    <3>4. \A k \in Untouched' : k >= ptr[c] + 1
      BY <3>1, <3>2, <3>3
    <3>5. \A d \in Contexts : d # c => pc'[d] = pc[d] /\ ptr'[d] = ptr[d]
      BY <2>2 DEF FormatChar, Step, Formatting
    <3>6. \A k \in Untouched', j \in 0 .. LAST : j >= k => j \in Untouched'
      <4>. SUFFICES ASSUME NEW k \in Untouched', NEW j \in 0 .. LAST, j >= k
                    PROVE  j \in Untouched'
        OBVIOUS
      <4>1. k \in Untouched /\ k \in Int /\ k >= ptr[c] + 1 /\ ptr[c] \in Int
        BY <3>1, <3>2, <3>3, <3>4
      <4>2. j \in Untouched
        BY <4>1 DEF OthersBehind
      <4>3. j # ptr[c]
        BY <4>1
      <4>. QED
        BY <3>2, <4>2, <4>3
    <3>. QED
      BY <3>1, <3>2, <3>4, <3>5, <3>6 DEF OthersBehind
  <2>3. CASE FormatEnd(c)
    <3>1. Untouched' = Untouched \ {ptr[c]}
      BY <2>3 DEF FormatEnd, Formatting, Untouched
    <3>2. \A k \in Untouched : k >= ptr[c] /\ k \in Int
      BY <2>3 DEF FormatEnd, Step, OthersBehind, Untouched
    <3>3. \A d \in Contexts : pc'[d] = "format" => pc[d] = "format" /\ ptr'[d] = ptr[d]
      BY <2>3 DEF FormatEnd, Step, Formatting
    <3>4. \A k \in Untouched', j \in 0 .. LAST : j >= k => j \in Untouched'
      <4>1. ptr[c] \in Nat
        BY DEF Formatting
      <4>. QED
        BY <3>1, <3>2, <4>1 DEF OthersBehind
    <3>. QED
      BY <3>1, <3>3, <3>4 DEF OthersBehind
  <2>4. CASE Reading(c)
    BY <2>4, ReadingLeaves DEF OthersBehind, Untouched
  <2>. QED
    BY <1>3, <2>1, <2>2, <2>3, <2>4 DEF __kprintf, tty_put_char, Reading
<1>4. CASE UNCHANGED vars
  BY <1>4 DEF vars, stack, OthersBehind, Untouched
<1>. QED
  BY <1>1, <1>2, <1>3, <1>4 DEF Next

(* A reader keeps a NUL before it: what takes it away is a message that    *)
(* writes on from there, and ends farther on.                              *)
LEMMA EndsStep ==
  ASSUME BufferOk, [Next]_vars, NEW r \in Contexts, Printing(r)'
  PROVE  EndAhead(r)'
<1>1. Formatting /\ Formatting'
  BY FormattingStep DEF BufferOk
<1>2. Printing(r) => EndAhead(r)
  BY DEF BufferOk
<1>3. CASE \E c \in {"main", "timer"}, m \in Messages : Enter(c, m)
  BY <1>1, <1>2, <1>3 DEF Enter, Step, Printing, EndAhead, Formatting
<1>4. CASE \E m \in Messages : kprint_panic(m)
  BY <1>1, <1>2, <1>4 DEF kprint_panic, Step, Printing, EndAhead, Formatting
<1>5. ASSUME NEW c \in Contexts, __kprintf(c) PROVE EndAhead(r)'
  <2>1. CASE SetTheme(c)
    BY <1>1, <1>2, <2>1 DEF SetTheme, Step, Printing, EndAhead, Formatting
  <2>2. CASE FormatChar(c)
    <3>1. /\ ptr[c] \in 0 .. LAST /\ ptr'[c] = ptr[c] + 1
          /\ \A k \in 0 .. LAST : k # ptr[c] => buf'[k] = buf[k]
      BY <1>1, <2>2, FormatCharWrites
    <3>2. /\ pc[c] = "format" /\ Runs(c)
          /\ \A d \in Contexts : pc'[d] = pc[d] /\ (d # c => ptr'[d] = ptr[d])
      <4>1. Runs(c) /\ pc[c] = "format" /\ pc' = [pc EXCEPT ![c] = "format"]
        BY <2>2 DEF FormatChar, Step
      <4>2. ptr' = [ptr EXCEPT ![c] = @ + 1]
        BY <2>2 DEF FormatChar
      <4>. QED
        BY <1>1, <4>1, <4>2 DEF Formatting
    <3>3. Printing(r) /\ EndAhead(r) /\ r # c
      BY <1>2, <3>2 DEF Printing
    <3>4. CASE \E d \in Contexts : Above(d, r) /\ pc[d] = "format" /\ ptr[d] > ptr[r]
      <4>1. PICK d \in Contexts : Above(d, r) /\ pc[d] = "format" /\ ptr[d] > ptr[r]
        BY <3>4
      <4>2. ptr[d] \in Nat /\ ptr[r] \in Nat /\ ptr'[r] = ptr[r]
        BY <1>1, <3>2, <3>3 DEF Formatting
      <4>3. ptr'[d] = ptr[d] \/ ptr'[d] = ptr[d] + 1
        BY <3>1, <3>2
      <4>4. ptr'[d] > ptr'[r]
        BY <4>1, <4>2, <4>3
      <4>. QED
        BY <3>2, <4>1, <4>4 DEF EndAhead
    <3>5. ASSUME NEW i \in ptr[r] .. LAST, buf[i] = "NUL" PROVE EndAhead(r)'
      <4>1. ptr[r] \in Nat /\ ptr'[r] = ptr[r]
        BY <1>1, <3>2, <3>3 DEF Formatting
      <4>2. CASE i # ptr[c]
        BY <3>1, <3>5, <4>1, <4>2 DEF EndAhead
      <4>3. CASE i = ptr[c]
        <5>1. Above(c, r)
          BY <3>2, <3>3 DEF Above, Runs, Printing, Contexts
        <5>2. ptr'[c] > ptr'[r]
          BY <3>1, <4>1, <4>3
        <5>. QED
          BY <3>2, <5>1, <5>2 DEF EndAhead
      <4>. QED
        BY <4>2, <4>3
    <3>. QED
      BY <3>3, <3>4, <3>5 DEF EndAhead
  <2>3. CASE FormatEnd(c)
    <3>1. /\ pc[c] = "format" /\ ptr[c] \in 0 .. LAST /\ ptr'[c] = 0
          /\ buf'[ptr[c]] = "NUL" /\ \A k \in 0 .. LAST : buf[k] = "NUL" => buf'[k] = "NUL"
          /\ \A d \in Contexts : d # c => pc'[d] = pc[d] /\ ptr'[d] = ptr[d]
      <4>1. Len(rest[c]) = 0
        BY <2>3 DEF FormatEnd
      <4>. QED
        BY <1>1, <2>3, <4>1 DEF FormatEnd, Step, Formatting
    <3>2. CASE r = c
      BY <3>1, <3>2 DEF EndAhead
    <3>3. CASE r # c
      <4>1. Printing(r) /\ EndAhead(r) /\ ptr'[r] = ptr[r] /\ ptr[r] \in Nat
        BY <1>1, <1>2, <3>1, <3>3 DEF Printing, Formatting
      <4>2. CASE \E i \in ptr[r] .. LAST : buf[i] = "NUL"
        BY <3>1, <4>1, <4>2 DEF EndAhead
      <4>3. ASSUME NEW d \in Contexts, Above(d, r), pc[d] = "format", ptr[d] > ptr[r]
            PROVE  EndAhead(r)'
        <5>1. CASE d = c
          BY <3>1, <4>1, <4>3, <5>1 DEF EndAhead
        <5>2. CASE d # c
          BY <3>1, <4>1, <4>3, <5>2 DEF EndAhead
        <5>. QED
          BY <5>1, <5>2
      <4>. QED
        BY <4>1, <4>2, <4>3 DEF EndAhead
    <3>. QED
      BY <3>2, <3>3
  <2>4. CASE Reading(c)
    <3>1. /\ buf' = buf /\ Printing(r)
          /\ \A d \in Contexts : pc'[d] = "format" <=> pc[d] = "format"
          /\ \A d \in Contexts : pc[d] = "format" \/ d # c => ptr'[d] = ptr[d]
          /\ ptr'[c] = ptr[c] \/ (ptr'[c] = ptr[c] + 1 /\ buf[ptr[c]] # "NUL")
      BY <1>1, <2>4, ReadingLeaves
    <3>2. EndAhead(r) /\ ptr[r] \in Nat /\ pc[r] # "format"
      BY <1>1, <1>2, <3>1 DEF Printing, Formatting
    <3>3. CASE ptr'[r] = ptr[r]
      <4>1. \A d \in Contexts : pc[d] = "format" => pc'[d] = "format" /\ ptr'[d] = ptr[d]
        BY <3>1
      <4>. QED
        BY <3>1, <3>2, <3>3, <4>1 DEF EndAhead
    <3>4. CASE ptr'[r] # ptr[r]
      <4>1. r = c /\ ptr'[r] = ptr[r] + 1 /\ buf[ptr[r]] # "NUL"
        BY <3>1, <3>4
      <4>2. Runs(c)
        BY <2>4 DEF Reading, FormatElement, Restore, Switch, CarriageReturn, Advance,
                    Wrap, WrapX, WrapY, Bottom, tty_scroll_up, Step
      <4>3. \A d \in Contexts : Above(d, r) => pc[d] # "format"
        BY <4>1, <4>2 DEF Above, Runs
      <4>4. PICK i \in ptr[r] .. LAST : buf[i] = "NUL"
        BY <3>2, <4>3 DEF EndAhead
      <4>5. i # ptr[r] /\ i \in ptr'[r] .. LAST
        BY <3>2, <4>1, <4>4
      <4>. QED
        BY <3>1, <4>4, <4>5 DEF EndAhead
    <3>. QED
      BY <3>3, <3>4
  <2>. QED
    BY <1>5, <2>1, <2>2, <2>3, <2>4 DEF __kprintf, tty_put_char, Reading
<1>6. CASE UNCHANGED vars
  BY <1>2, <1>6 DEF vars, stack, Printing, EndAhead
<1>. QED
  BY <1>3, <1>4, <1>5, <1>6 DEF Next

(* A context that may run has nobody above it, so a NUL before it.         *)
LEMMA BufferOkEnd == BufferOk => StringEnds
<1> SUFFICES ASSUME BufferOk, NEW c \in Contexts, Printing(c), Runs(c)
             PROVE  \E i \in ptr[c] .. LAST :
                      buf[i] = "NUL" /\ \A k \in ptr[c] .. i : buf[k] # "others"
  BY DEF StringEnds
<1>1. \A d \in Contexts : Above(d, c) => pc[d] # "format"
  BY DEF Above, Runs
<1>2. PICK i \in ptr[c] .. LAST : buf[i] = "NUL"
  BY <1>1 DEF BufferOk, EndAhead
<1>3. ptr[c] \in Nat /\ LAST \in Nat /\ i \in 0 .. LAST
  BY ConsoleAssumption DEF BufferOk, Formatting, LAST
<1>4. i \notin Untouched
  BY <1>2 DEF Untouched
<1>5. \A k \in ptr[c] .. i : k \notin Untouched /\ k \in 0 .. LAST
  BY <1>3, <1>4 DEF BufferOk, OthersBehind
<1>. QED
  BY <1>2, <1>5 DEF Untouched

(* Whatever is formatted over the text that is being printed, and however  *)
(* long its elements are, its reader stops at a NUL (kprintf.c:40-41,      *)
(* sprintf.c:35).                                                          *)
THEOREM EveryTextEnds == Spec => []StringEnds
<1>1. BufferOk /\ [Next]_vars => BufferOk'
  BY FormattingStep, OthersStep, EndsStep DEF BufferOk
<1>. QED
  BY <1>1, BufferOkInit, BufferOkEnd, PTL DEF Spec

-----------------------------------------------------------------------------
(* Nobody prints at first.                                                 *)
LEMMA ThemesInit == Init => Themes
BY DEF Init, Themes, Contexts

(* Handlers return before what they interrupted goes on, and a panic never *)
(* returns (kprintf.c:15, 42; intr_routines.c:25).                         *)
LEMMA ThemesStep == Themes /\ [Next]_vars => Themes'
<1> SUFFICES ASSUME Themes, [Next]_vars PROVE Themes'
  OBVIOUS
<1> USE DEF Themes, Contexts, Step, Runs
<1>1. ASSUME NEW c \in {"main", "timer"}, NEW m \in Messages, Enter(c, m)
      PROVE Themes'
  BY <1>1 DEF Enter
<1>2. CASE \E m \in Messages : kprint_panic(m)
  BY <1>2 DEF kprint_panic
<1>3. ASSUME NEW c \in Contexts, __kprintf(c) PROVE Themes'
  <2>1. CASE SetTheme(c)
    BY <2>1 DEF SetTheme
  <2>2. CASE FormatElement(c) \/ FormatChar(c) \/ FormatEnd(c)
    BY <2>2 DEF FormatElement, FormatChar, FormatEnd
  <2>3. CASE Restore(c)
    BY <2>3 DEF Restore, stack
  <2>4. CASE Switch(c)
    BY <2>4 DEF Switch
  <2>5. CASE CarriageReturn(c) \/ Advance(c) \/ Wrap(c) \/ WrapX(c)
             \/ WrapY(c) \/ Bottom(c) \/ tty_scroll_up(c)
    BY <2>5 DEF CarriageReturn, Advance, Wrap, WrapX, WrapY, Bottom,
                tty_scroll_up, stack
  <2>. QED
    BY <1>3, <2>1, <2>2, <2>3, <2>4, <2>5 DEF __kprintf, tty_put_char
<1>4. CASE UNCHANGED vars
  BY <1>4 DEF vars, stack
<1>. QED
  BY <1>1, <1>2, <1>3, <1>4 DEF Next

(* After any nesting of messages the colours are those of before           *)
(* (kprintf.c:15, 42).                                                     *)
THEOREM ColoursComeBack == Spec => []ThemeRestored
<1>1. Themes => ThemeRestored
  BY DEF Themes, ThemeRestored, Contexts
<1>. QED
  BY <1>1, ThemesInit, ThemesStep, PTL DEF Spec

-----------------------------------------------------------------------------
(* The cursor starts at the top left.                                      *)
LEMMA CursorInit == Init => Cursor
BY ConsoleAssumption DEF Init, Cursor, At, MID, Inside, InRow, Contexts

(* The panic message starts inside of the screen (kprintf.c:54).           *)
LEMMA PanicRow == 11 % TTY_HEIGHT \in 0 .. TTY_HEIGHT - 1
BY ConsoleAssumption

(* Each statement of tty_put_char leaves the cursor where the next one     *)
(* expects it (tty.c:36-58).                                               *)
LEMMA CursorStep == Cursor /\ [Next]_vars => Cursor'
<1> SUFFICES ASSUME Cursor, [Next]_vars PROVE Cursor'
  OBVIOUS
<1> USE ConsoleAssumption
    DEF Cursor, At, MID, Inside, InRow, Contexts, Step, Runs, cursor
<1>1. ASSUME NEW c \in {"main", "timer"}, NEW m \in Messages, Enter(c, m)
      PROVE Cursor'
  BY <1>1 DEF Enter
<1>2. CASE \E m \in Messages : kprint_panic(m)
  BY <1>2, PanicRow DEF kprint_panic
<1>3. ASSUME NEW c \in Contexts, __kprintf(c) PROVE Cursor'
  <2>1. CASE SetTheme(c) \/ FormatElement(c) \/ FormatChar(c) \/ FormatEnd(c) \/ Restore(c)
    BY <2>1 DEF SetTheme, FormatElement, FormatChar, FormatEnd, Restore
  <2>2. CASE Switch(c)
    BY <2>2 DEF Switch
  <2>3. CASE CarriageReturn(c) \/ Advance(c)
    BY <2>3 DEF CarriageReturn, Advance
  <2>4. CASE Wrap(c) \/ WrapX(c) \/ WrapY(c)
    BY <2>4 DEF Wrap, WrapX, WrapY
  <2>5. CASE Bottom(c)
    BY <2>5 DEF Bottom
  <2>6. CASE tty_scroll_up(c)
    BY <2>6 DEF tty_scroll_up
  <2>. QED
    BY <1>3, <2>1, <2>2, <2>3, <2>4, <2>5, <2>6 DEF __kprintf, tty_put_char
<1>4. CASE UNCHANGED vars
  BY <1>4 DEF vars
<1>. QED
  BY <1>1, <1>2, <1>3, <1>4 DEF Next

(* No character is put outside of the screen (tty.c:47), but for those of  *)
(* a callback that came in the middle of another character.                *)
THEOREM CharactersOnScreen == Spec => []OnScreen
<1>1. Cursor => OnScreen
  BY DEF Cursor, At, MID, Inside, InRow, OnScreen, Runs, InChar, Printing, Contexts
<1>. QED
  BY <1>1, CursorInit, CursorStep, PTL DEF Spec
-----------------------------------------------------------------------------
(* The texts that are printed (Format), for every size of an int and every *)
(* set of formats.                                                         *)

(* A set of naturals that is not empty has a least member.                 *)
LEMMA LeastMember ==
  ASSUME NEW T, T \subseteq Nat, T # {}
  PROVE  \E x \in T : \A y \in T : x <= y
<1>1. \E x \in T : \A y \in T : ~ (<<y, x>> \in OpToRel(<, Nat))
  BY NatLessThanWellFounded, WFMin
<1>2. ASSUME NEW x \in Nat, NEW y \in Nat, ~(<<y, x>> \in OpToRel(<, Nat)) PROVE x <= y
  BY <1>2 DEF OpToRel
<1>3. PICK x \in T : \A y \in T : ~(<<y, x>> \in OpToRel(<, Nat))
  BY <1>1
<1>4. \A y \in T : x <= y
  BY <1>2, <1>3
<1>. QED
  BY <1>4

(* The text of a number from the texts of the smaller ones.                *)
Figures(f, base, v) ==
  IF v < base THEN <<base_char[v + 1]>>
              ELSE f[v \div base] \o <<base_char[(v % base) + 1]>>

(* What is left of a number is smaller, and a digit is one of sixteen.   *)
LEMMA Quotient ==
  ASSUME NEW base \in {10, 16}, NEW v \in Nat
  PROVE  /\ v % base \in 0 .. 15
         /\ v >= base => v \div base \in 0 .. v - 1
         /\ v < base => v \in 0 .. 15
<1>1. CASE base = 10
  BY <1>1
<1>2. CASE base = 16
  BY <1>2
<1>. QED
  BY <1>1, <1>2

(* What can be written: the prover has no literal in STRING.               *)
Glyphs ==
  STRING \cup {"0", "1", "2", "3", "4", "5", "6", "7", "8", "9", "a", "b", "c", "d", "e", "f",
               "A", "B", "C", "D", "E", "F", "x", "-", "+", " ", "%", "NUL"}

(* Each digit has a character.                                           *)
LEMMA Figure == \A i \in 0 .. 15 : <<base_char[i + 1]>> \in Seq(Glyphs)
<1>. SUFFICES ASSUME NEW i \in 0 .. 15 PROVE base_char[i + 1] \in Glyphs
  OBVIOUS
<1>1. i + 1 \in 1 .. 16
  OBVIOUS
<1>2. \A j \in 1 .. 16 : base_char[j] \in
        {"0", "1", "2", "3", "4", "5", "6", "7", "8", "9", "a", "b", "c", "d", "e", "f"}
  BY DEF base_char
<1>. QED
  BY <1>1, <1>2 DEF Glyphs

(* The recursion of itoa.c:7-27 has a solution up to any number.  There is*)
(* no least number up to which it has none.                              *)
LEMMA FiguresExist ==
  ASSUME NEW base \in {10, 16}, NEW n \in Nat
  PROVE  \E f \in [0 .. n -> Seq(Glyphs)] : \A v \in 0 .. n : f[v] = Figures(f, base, v)
<1>. DEFINE Built(k) == \E f \in [0 .. k -> Seq(Glyphs)] :
                          \A v \in 0 .. k : f[v] = Figures(f, base, v)
            T == {k \in Nat : ~Built(k)}
<1>1. ASSUME NEW k \in Nat, NEW f,
             \A v \in 0 .. k - 1 : f[v] \in Seq(Glyphs) /\ f[v] = Figures(f, base, v)
      PROVE  Built(k)
  <2>. DEFINE g == [v \in 0 .. k |-> Figures(f, base, v)]
  <2>1. ASSUME NEW v \in 0 .. k PROVE g[v] \in Seq(Glyphs) /\ g[v] = Figures(g, base, v)
    <3>1. CASE v < base
      BY <3>1, Quotient, Figure DEF Figures
    <3>2. CASE v >= base
      <4>1. v \div base \in 0 .. k - 1 /\ v \div base \in 0 .. k
        BY <3>2, Quotient
      <4>2. g[v \div base] = f[v \div base] /\ f[v \div base] \in Seq(Glyphs)
        BY <1>1, <4>1
      <4>3. <<base_char[(v % base) + 1]>> \in Seq(Glyphs)
        BY Quotient, Figure
      <4>7. g[v] = Figures(f, base, v)
        OBVIOUS
      <4>. HIDE DEF g
      <4>4. Figures(f, base, v) = f[v \div base] \o <<base_char[(v % base) + 1]>>
        BY <3>2 DEF Figures
      <4>5. Figures(g, base, v) = g[v \div base] \o <<base_char[(v % base) + 1]>>
        BY <3>2 DEF Figures
      <4>6. f[v \div base] \o <<base_char[(v % base) + 1]>> \in Seq(Glyphs)
        BY <4>2, <4>3
      <4>. QED
        BY <4>2, <4>4, <4>5, <4>6, <4>7
    <3>. QED
      BY <3>1, <3>2
  <2>2. g \in [0 .. k -> Seq(Glyphs)]
    BY <2>1
  <2>. QED
    BY <2>1, <2>2
<1>2. T = {}
  <2>. SUFFICES ASSUME T # {} PROVE FALSE
    OBVIOUS
  <2>1. PICK k \in T : \A j \in T : k <= j
    BY LeastMember
  <2>2. CASE k = 0
    <3>1. \A v \in 0 .. k - 1 : <<>>[v] \in Seq(Glyphs) /\ <<>>[v] = Figures(<<>>, base, v)
      BY <2>2
    <3>2. k \in Nat /\ ~Built(k)
      BY <2>1
    <3>. HIDE DEF Built
    <3>. QED
      BY <1>1, <3>1, <3>2
  <2>3. CASE k > 0
    <3>1. k \in Nat /\ ~Built(k)
      BY <2>1
    <3>2. k - 1 \in Nat /\ ~(k <= k - 1)
      BY <3>1, <2>3
    <3>3. k - 1 \notin T
      BY <2>1, <3>2
    <3>4. Built(k - 1)
      BY <3>2, <3>3
    <3>5. PICK f \in [0 .. k - 1 -> Seq(Glyphs)] :
                 \A v \in 0 .. k - 1 : f[v] = Figures(f, base, v)
      BY <3>4
    <3>6. \A v \in 0 .. k - 1 : f[v] \in Seq(Glyphs) /\ f[v] = Figures(f, base, v)
      BY <3>5
    <3>. HIDE DEF Built
    <3>. QED
      BY <1>1, <3>1, <3>6
  <2>. QED
    BY <2>1, <2>2, <2>3
<1>. QED
  BY <1>2

(* The number of values of an int.                                         *)
LEMMA Word == WORD \in Nat /\ WORD >= 32 /\ WORD - 1 \in Nat
BY FormatAssumption

(* The solution of the recursion is what itoa.c writes.                    *)
LEMMA UitoaUnfolds ==
  ASSUME NEW base \in {10, 16}, NEW v \in 0 .. WORD - 1
  PROVE  __uitoa_internal(v, base) =
           IF v < base THEN <<base_char[v + 1]>>
                       ELSE __uitoa_internal(v \div base, base) \o <<base_char[(v % base) + 1]>>
<1>. DEFINE digits == CHOOSE g : g = [w \in 0 .. WORD - 1 |->
              IF w < base THEN <<base_char[w + 1]>>
                          ELSE g[w \div base] \o <<base_char[(w % base) + 1]>>]
<1>1. \E g : g = [w \in 0 .. WORD - 1 |->
              IF w < base THEN <<base_char[w + 1]>>
                          ELSE g[w \div base] \o <<base_char[(w % base) + 1]>>]
  <2>1. PICK f \in [0 .. WORD - 1 -> Seq(Glyphs)] :
              \A w \in 0 .. WORD - 1 : f[w] = Figures(f, base, w)
    BY Word, FiguresExist
  <2>2. f = [w \in 0 .. WORD - 1 |-> Figures(f, base, w)]
    BY <2>1
  <2>. QED
    BY <2>2 DEF Figures
<1>2. digits = [w \in 0 .. WORD - 1 |->
              IF w < base THEN <<base_char[w + 1]>>
                          ELSE digits[w \div base] \o <<base_char[(w % base) + 1]>>]
  BY <1>1
<1>3. \A w : __uitoa_internal(w, base) = digits[w]
  BY DEF __uitoa_internal
<1>. HIDE DEF digits
<1>4. digits[v] = IF v < base THEN <<base_char[v + 1]>>
                              ELSE digits[v \div base] \o <<base_char[(v % base) + 1]>>
  BY <1>2
<1>. QED
  BY <1>3, <1>4

(* itoa.c writes a text, whatever the number.                              *)
LEMMA DigitsAreText ==
  ASSUME NEW base \in {10, 16}, NEW value \in 0 .. WORD - 1
  PROVE  __uitoa_internal(value, base) \in Seq(Glyphs)
<1>. DEFINE T == {v \in 0 .. WORD - 1 : __uitoa_internal(v, base) \notin Seq(Glyphs)}
<1>1. T = {}
  <2>. SUFFICES ASSUME T # {} PROVE FALSE
    OBVIOUS
  <2>0. T \subseteq Nat
    BY Word
  <2>1. PICK v \in T : \A w \in T : v <= w
    BY <2>0, LeastMember
  <2>2. v \in 0 .. WORD - 1 /\ v \in Nat /\ __uitoa_internal(v, base) \notin Seq(Glyphs)
    BY <2>0, <2>1
  <2>3. CASE v < base
    <3>1. v \in 0 .. 15
      BY <2>2, <2>3, Quotient
    <3>2. __uitoa_internal(v, base) = <<base_char[v + 1]>>
      BY <2>2, <2>3, UitoaUnfolds
    <3>. QED
      BY <2>2, <3>1, <3>2, Figure
  <2>4. CASE ~(v < base)
    <3>1. v \div base \in 0 .. WORD - 1 /\ ~(v <= v \div base)
      BY <2>2, <2>4, Quotient, Word
    <3>2. __uitoa_internal(v \div base, base) \in Seq(Glyphs)
      BY <2>1, <3>1
    <3>3. <<base_char[(v % base) + 1]>> \in Seq(Glyphs)
      BY <2>2, Quotient, Figure
    <3>4. __uitoa_internal(v, base) =
            __uitoa_internal(v \div base, base) \o <<base_char[(v % base) + 1]>>
      BY <2>2, <2>4, UitoaUnfolds
    <3>. QED
      BY <2>2, <3>2, <3>3, <3>4
  <2>. QED
    BY <2>3, <2>4
<1>. QED
  BY <1>1

-----------------------------------------------------------------------------
(* With the sign of itoa.c:36-43 before it.                              *)
LEMMA ItoaIsText ==
  ASSUME NEW base \in {10, 16}, NEW num \in 0 .. WORD - 1
  PROVE  itoa(num, base) \in Seq(Glyphs)
<1>1. WORD \in Nat /\ WORD >= 32 /\ WORD % 2 = 0 /\ num \in Nat
  BY FormatAssumption
<1>2. CASE Signed(num) < 0 /\ base = 10
  <2>1. -Signed(num) \in 0 .. WORD - 1
    BY <1>1, <1>2 DEF Signed
  <2>2. __uitoa_internal(-Signed(num), base) \in Seq(Glyphs)
    BY <2>1, DigitsAreText
  <2>3. <<"-">> \in Seq(Glyphs)
    BY DEF Glyphs
  <2>. QED
    BY <1>2, <2>2, <2>3 DEF itoa
<1>3. CASE ~(Signed(num) < 0 /\ base = 10)
  BY <1>3, DigitsAreText DEF itoa
<1>. QED
  BY <1>2, <1>3

(* The letters of %X (sprintf.c:140-146).                                *)
LEMMA CapitalIsGlyph == \A c \in Glyphs : Capital(c) \in Glyphs
<1>. SUFFICES ASSUME NEW c \in Glyphs PROVE Capital(c) \in Glyphs
  OBVIOUS
<1>1. Capital(c) \in {"A", "B", "C", "D", "E", "F", c}
  BY DEF Capital
<1>2. "A" \in Glyphs /\ "B" \in Glyphs /\ "C" \in Glyphs
  BY DEF Glyphs
<1>3. "D" \in Glyphs /\ "E" \in Glyphs /\ "F" \in Glyphs
  BY DEF Glyphs
<1>. QED
  BY <1>1, <1>2, <1>3

(* Whatever the conversion, the argument becomes a text.                 *)
LEMMA DataIsText ==
  ASSUME NEW e, IsElement(e), e.conv # "char"
  PROVE  Data(e) \in Seq(Glyphs)
<1>1. CASE e.conv \in {"d", "u", "x", "X", "p"}
  <2>. DEFINE num == IF Negative(e) THEN (-Signed(e.arg)) % WORD ELSE e.arg
              text == itoa(num, Base(e))
  <2>1. WORD \in Nat /\ WORD >= 32 /\ WORD % 2 = 0 /\ e.arg \in 0 .. WORD - 1
    BY <1>1, FormatAssumption DEF IsElement
  <2>2. Signed(e.arg) \in Int
    BY <2>1 DEF Signed
  <2>3. num \in 0 .. WORD - 1
    <3>1. \A v \in Int : v % WORD \in 0 .. WORD - 1
      BY <2>1
    <3>. QED
      BY <2>1, <2>2, <3>1
  <2>4. Base(e) \in {10, 16}
    BY DEF Base
  <2>5. text \in Seq(Glyphs)
    BY <2>3, <2>4, ItoaIsText
  <2>6. [i \in DOMAIN text |-> Capital(text[i])] \in Seq(Glyphs)
    <3>1. /\ Len(text) \in Nat /\ DOMAIN text = 1 .. Len(text)
          /\ \A i \in 1 .. Len(text) : text[i] \in Glyphs
      BY <2>5
    <3>. HIDE DEF text
    <3>2. [i \in DOMAIN text |-> Capital(text[i])] \in [1 .. Len(text) -> Glyphs]
      BY <3>1, CapitalIsGlyph
    <3>. QED
      BY <3>1, <3>2
  <2>. HIDE DEF num
  <2>7. Data(e) = IF e.conv = "X" THEN [i \in DOMAIN text |-> Capital(text[i])] ELSE text
    <3>1. Numeric(e)
      BY <1>1 DEF Numeric
    <3>2. e.conv = "X" => Data(e) = [i \in DOMAIN text |-> Capital(text[i])]
      BY <1>1 DEF Data, num
    <3>3. e.conv # "X" => Data(e) = text
      BY <1>1, <3>1 DEF Data, num
    <3>. QED
      BY <3>2, <3>3
  <2>. HIDE DEF text
  <2>. QED
    BY <2>5, <2>6, <2>7
<1>2. CASE e.conv = "s"
  <2>1. e.arg \in Seq(STRING) /\ Data(e) = e.arg
    BY <1>2 DEF IsElement, Data, Numeric
  <2>2. STRING \subseteq Glyphs
    BY DEF Glyphs
  <2>3. \A s \in Seq(STRING) : s \in Seq(Glyphs)
    <3>1. SUFFICES ASSUME NEW s \in Seq(STRING) PROVE s \in Seq(Glyphs)
      OBVIOUS
    <3>2. Len(s) \in Nat /\ s = [i \in 1 .. Len(s) |-> s[i]]
      OBVIOUS
    <3>3. ASSUME NEW i \in 1 .. Len(s) PROVE s[i] \in Glyphs
      <4>1. s[i] \in STRING
        OBVIOUS
      <4>. QED
        BY <2>2, <4>1
    <3>. QED
      BY <3>2, <3>3
  <2>. QED
    BY <2>1, <2>3
<1>3. CASE e.conv = "c"
  <2>1. e.arg \in STRING /\ Data(e) = IF e.arg = "NUL" THEN <<>> ELSE <<e.arg>>
    BY <1>3 DEF IsElement, Data, Numeric
  <2>2. e.arg \in Glyphs
    BY <2>1 DEF Glyphs
  <2>3. <<>> \in Seq(Glyphs) /\ <<e.arg>> \in Seq(Glyphs)
    BY <2>2
  <2>. QED
    BY <2>1, <2>3
<1>4. CASE e.conv = "%"
  <2>1. Data(e) = <<"%">>
    BY <1>4 DEF Data, Numeric
  <2>2. "%" \in Glyphs
    BY DEF Glyphs
  <2>. QED
    BY <2>1, <2>2
<1>. QED
  BY <1>1, <1>2, <1>3, <1>4 DEF IsElement

(* So do sign and prefix, and the padding.                               *)
LEMMA PrefixIsText == ASSUME NEW e PROVE Prefix(e) \in Seq(Glyphs)
<1>1. <<"-">> \in Seq(Glyphs) /\ <<"+">> \in Seq(Glyphs) /\ <<" ">> \in Seq(Glyphs)
      /\ <<"0", "x">> \in Seq(Glyphs) /\ <<>> \in Seq(Glyphs)
  BY DEF Glyphs
<1>. QED
  BY <1>1 DEF Prefix

(* A width below what is written pads with nothing.                      *)
LEMMA RepeatIsText ==
  ASSUME NEW c \in Glyphs, NEW n \in Int
  PROVE  Repeat(c, n) \in Seq(Glyphs)
<1>1. CASE n >= 0
  BY <1>1 DEF Repeat
<1>2. CASE n < 0
  <2>1. 1 .. n = {}
    BY <1>2
  <2>2. Repeat(c, n) \in [1 .. 0 -> Glyphs]
    BY <2>1 DEF Repeat
  <2>. QED
    BY <2>2
<1>. QED
  BY <1>1, <1>2

(* The larger of two numbers.                                            *)
LEMMA LargerOf == ASSUME NEW a \in Int, NEW b \in Int
                  PROVE  Max({a, b}) \in {a, b} /\ Max({a, b}) >= a /\ Max({a, b}) >= b
<1>1. \E x \in {a, b} : \A y \in {a, b} : x >= y
  OBVIOUS
<1>. QED
  BY <1>1 DEF Max

(* strnlen may count one character too many, but not past the end.       *)
LEMMA StrnlenFits ==
  ASSUME NEW s \in Seq(Glyphs), NEW n \in Nat
  PROVE  strnlen(s, n) \in 0 .. Len(s)
<1>1. \E x \in {Len(s), n + 1} : \A y \in {Len(s), n + 1} : x <= y
  OBVIOUS
<1>. QED
  BY <1>1 DEF strnlen, Min

(* Width and precision are numbers, -1 for none.                           *)
LEMMA WidthIsNumber ==
  ASSUME NEW e, IsElement(e)
  PROVE  e.width \in Int /\ e.precision \in Int
<1>1. e.width \in Int /\ e.precision \in Nat \cup {-1}
  BY DEF IsElement
<1>. QED
  BY <1>1

(* There are never fewer than no zeros.                                  *)
LEMMA ZerosIsNumber ==
  ASSUME NEW e, IsElement(e), NEW len \in Nat
  PROVE  Zeros(e, len) \in Nat
<1>1. Len(Prefix(e)) \in Nat
  BY PrefixIsText
<1>2. e.width \in Int /\ e.precision \in Int
  BY WidthIsNumber
<1>3. \A a \in Int : Max({a, 0}) \in Nat
  BY LargerOf
<1>4. /\ Max({e.precision - len, 0}) \in Nat
      /\ Max({e.width - len - Len(Prefix(e)), 0}) \in Nat
  BY <1>1, <1>2, <1>3
<1>. QED
  BY <1>4 DEF Zeros

(* What is written for an element is a text.                               *)
LEMMA FieldIsText ==
  ASSUME NEW e, IsElement(e)
  PROVE  Field(e) \in Seq(Glyphs)
<1>1. CASE e.conv = "char"
  <2>1. e.arg \in STRING
    BY <1>1 DEF IsElement
  <2>2. e.arg \in Glyphs
    BY <2>1 DEF Glyphs
  <2>. QED
    BY <1>1, <2>2 DEF Field
<1>2. CASE e.conv # "char"
  <2>. DEFINE data == Data(e)
              len == IF e.precision >= 0 /\ ~Numeric(e) THEN strnlen(data, e.precision)
                                                        ELSE Len(data)
              zeros == Zeros(e, len)
              space == Repeat(" ", e.width - len - zeros - Len(Prefix(e)))
              text == Prefix(e) \o Repeat("0", zeros) \o SubSeq(data, 1, len)
  <2>1. data \in Seq(Glyphs)
    BY <1>2, DataIsText
  <2>2. e.width \in Int /\ e.precision \in Int
    BY WidthIsNumber
  <2>3. len \in 0 .. Len(data)
    <3>. HIDE DEF data
    <3>1. Len(data) \in 0 .. Len(data)
      BY <2>1
    <3>2. CASE e.precision >= 0
      <4>1. e.precision \in Nat
        BY <2>2, <3>2
      <4>2. strnlen(data, e.precision) \in 0 .. Len(data)
        BY <2>1, <4>1, StrnlenFits
      <4>. QED
        BY <3>1, <4>2
    <3>3. CASE ~(e.precision >= 0)
      BY <3>1, <3>3
    <3>. QED
      BY <3>2, <3>3
  <2>4. zeros \in Nat
    BY <2>1, <2>3, ZerosIsNumber
  <2>5. " " \in Glyphs /\ "0" \in Glyphs
    BY DEF Glyphs
  <2>. HIDE DEF data, len, zeros
  <2>6. Prefix(e) \in Seq(Glyphs) /\ Len(Prefix(e)) \in Nat
    BY PrefixIsText
  <2>7. space \in Seq(Glyphs)
    <3>1. e.width - len - zeros - Len(Prefix(e)) \in Int
      BY <2>1, <2>2, <2>3, <2>4, <2>6
    <3>. QED
      BY <2>5, <3>1, RepeatIsText
  <2>8. text \in Seq(Glyphs)
    <3>1. Repeat("0", zeros) \in Seq(Glyphs)
      <4>1. zeros \in Int
        BY <2>4
      <4>. QED
        BY <2>5, <4>1, RepeatIsText
    <3>2. SubSeq(data, 1, len) \in Seq(Glyphs)
      BY <2>1, <2>3
    <3>. QED
      BY <2>6, <3>1, <3>2
  <2>9. Field(e) = IF "-" \in e.flags THEN text \o space ELSE space \o text
    BY <1>2 DEF Field, Converted, data, len, zeros
  <2>. HIDE DEF text, space
  <2>. QED
    BY <2>7, <2>8, <2>9
<1>. QED
  BY <1>1, <1>2

-----------------------------------------------------------------------------
(* Before an element there is room for a character and the NUL.            *)
Within ==
  /\ format \in Formats /\ max_len \in Limits
  /\ fmt \in Nat \ {0}
  /\ buffer \in Seq(Glyphs) /\ longest \in Nat \ {0}
  /\ format_pc \in {"loop", "done"}
  /\ max_len # 0 =>
       /\ Len(buffer) < max_len + longest
       /\ format_pc = "loop" => Len(buffer) + 1 < max_len + longest

(* The empty text is within any limit.                                   *)
LEMMA WithinInit == FormatInit => Within
BY FormatAssumption DEF FormatInit, Within

(* An element is added below the limit only, the NUL once.               *)
LEMMA WithinStep == Within /\ [__sprintf_internal]_format_vars => Within'
<1>. SUFFICES ASSUME Within, [__sprintf_internal]_format_vars PROVE Within'
  OBVIOUS
<1>0. max_len \in Nat /\ Len(buffer) \in Nat /\ longest \in Nat \ {0}
  BY FormatAssumption DEF Within
<1>1. CASE Element
  <2>. DEFINE field == Field(format[fmt])
  <2>1. field \in Seq(Glyphs) /\ Len(field) \in Nat
    <3>1. fmt \in 1 .. Len(format)
      BY <1>1, FormatAssumption DEF Element, Within
    <3>2. IsElement(format[fmt])
      BY <3>1, FormatAssumption DEF Within
    <3>. QED
      BY <3>2, FieldIsText
  <2>. HIDE DEF field
  <2>2. /\ buffer' = buffer \o field /\ longest' = Max({longest, Len(field)})
        /\ fmt' = fmt + 1 /\ format_pc = "loop"
        /\ UNCHANGED <<format, max_len, format_pc>>
        /\ max_len # 0 => Len(buffer) < max_len - 1
    BY <1>1, <1>0 DEF Element, Full, field
  <2>3. longest' \in Nat \ {0} /\ longest' >= Len(field)
    <3>1. longest \in Int /\ Len(field) \in Int
      BY <1>0, <2>1
    <3>2. /\ Max({longest, Len(field)}) \in {longest, Len(field)}
          /\ Max({longest, Len(field)}) >= longest
          /\ Max({longest, Len(field)}) >= Len(field)
      BY <3>1, LargerOf
    <3>. QED
      BY <1>0, <2>1, <2>2, <3>2
  <2>4. buffer' \in Seq(Glyphs) /\ Len(buffer') = Len(buffer) + Len(field)
    BY <2>1, <2>2 DEF Within
  <2>. QED
    BY <1>0, <2>1, <2>2, <2>3, <2>4 DEF Within
<1>2. CASE Terminate
  <2>1. buffer' \in Seq(Glyphs) /\ Len(buffer') = Len(buffer) + 1
    <3>1. "NUL" \in Glyphs
      BY DEF Glyphs
    <3>. QED
      BY <1>2, <3>1 DEF Terminate, Within
  <2>. QED
    BY <1>0, <1>2, <2>1 DEF Terminate, Within
<1>3. CASE UNCHANGED format_vars
  BY <1>3 DEF format_vars, Within
<1>. QED
  BY <1>1, <1>2, <1>3 DEF __sprintf_internal

(* What is written exceeds the limit by less than the last element       *)
(* (sprintf.c:34-37), whatever the format and its arguments.             *)
THEOREM TextFits == FormatSpec => []LimitHolds
<1>1. Within => LimitHolds
  BY DEF Within, LimitHolds
<1>. QED
  BY <1>1, WithinInit, WithinStep, PTL DEF FormatSpec

-----------------------------------------------------------------------------
(* f has the values of a repeated step.                                    *)
Repeats(f, first, n, step) ==
  f[0] = first /\ \A k \in 1 .. n : f[k] = step[k][f[k - 1]]

(* There is such a function.                                               *)
LEMMA Repetition ==
  ASSUME NEW S, NEW first \in S, NEW n \in Nat, NEW step \in [1 .. n -> [S -> S]]
  PROVE  \E f \in [0 .. n -> S] : Repeats(f, first, n, step)
<1>. DEFINE Built(m) == \E f \in [0 .. m -> S] :
              f[0] = first /\ \A k \in 1 .. m : f[k] = step[k][f[k - 1]]
            T == {m \in 0 .. n : ~Built(m)}
<1>1. Built(0)
  <2>. DEFINE g == [k \in 0 .. 0 |-> first]
  <2>1. g \in [0 .. 0 -> S] /\ g[0] = first /\ 1 .. 0 = {}
    OBVIOUS
  <2>. HIDE DEF g
  <2>. QED
    BY <2>1
<1>2. ASSUME NEW m \in 0 .. n, m > 0, Built(m - 1) PROVE Built(m)
  <2>1. PICK f \in [0 .. m - 1 -> S] :
               f[0] = first /\ \A k \in 1 .. m - 1 : f[k] = step[k][f[k - 1]]
    BY <1>2
  <2>2. m \in 1 .. n /\ m \in Nat /\ f[m - 1] \in S
    BY <1>2, <2>1
  <2>3. step[m][f[m - 1]] \in S
    BY <2>2
  <2>. DEFINE g == [k \in 0 .. m |-> IF k = m THEN step[m][f[m - 1]] ELSE f[k]]
  <2>4. g \in [0 .. m -> S]
    BY <2>1, <2>2, <2>3
  <2>5. g[0] = first
    BY <1>2, <2>1, <2>2
  <2>6. ASSUME NEW k \in 1 .. m PROVE g[k] = step[k][g[k - 1]]
    <3>1. k - 1 \in 0 .. m - 1 /\ g[k - 1] = f[k - 1]
      BY <2>2
    <3>2. CASE k = m
      BY <2>2, <3>1, <3>2
    <3>3. CASE k # m
      <4>1. k \in 1 .. m - 1 /\ g[k] = f[k]
        BY <2>2, <3>3
      <4>. QED
        BY <2>1, <3>1, <4>1
    <3>. QED
      BY <3>2, <3>3
  <2>. HIDE DEF g
  <2>. QED
    BY <2>4, <2>5, <2>6
<1>. HIDE DEF Built
<1>3. T = {}
  <2>. SUFFICES ASSUME T # {} PROVE FALSE
    OBVIOUS
  <2>0. T \subseteq Nat
    OBVIOUS
  <2>1. PICK m \in T : \A k \in T : m <= k
    BY <2>0, LeastMember
  <2>2. m \in 0 .. n /\ m \in Nat /\ ~Built(m)
    BY <2>1
  <2>3. m > 0
    BY <1>1, <2>2
  <2>4. m - 1 \in 0 .. n /\ ~(m <= m - 1)
    BY <2>2, <2>3
  <2>5. Built(m - 1)
    BY <2>1, <2>4
  <2>. QED
    BY <1>2, <2>2, <2>3, <2>5
<1>4. Built(n)
  BY <1>3
<1>. QED
  BY <1>4 DEF Built, Repeats

-----------------------------------------------------------------------------
(* The places of Digits.                                                   *)
IsPlaces(place, base) ==
  place = [k \in 0 .. WORD |-> IF k = 0 THEN 1 ELSE base * place[k - 1]]

(* The places can be computed.                                            *)
LEMMA PlacesExist ==
  ASSUME NEW base \in {10, 16}
  PROVE  \E place : IsPlaces(place, base)
<1>. DEFINE step == [k \in 1 .. WORD |-> [p \in Nat |-> base * p]]
<1>1. step \in [1 .. WORD -> [Nat -> Nat]]
  OBVIOUS
<1>2. PICK f \in [0 .. WORD -> Nat] : Repeats(f, 1, WORD, step)
  <2>1. 1 \in Nat
    OBVIOUS
  <2>. HIDE DEF step
  <2>. QED
    BY <1>1, <2>1, Word, Repetition
<1>3. ASSUME NEW k \in 1 .. WORD PROVE f[k] = base * f[k - 1]
  <2>1. k - 1 \in 0 .. WORD /\ f[k - 1] \in Nat
    BY Word
  <2>. QED
    BY <1>2, <2>1 DEF Repeats
<1>4. f = [k \in 0 .. WORD |-> IF k = 0 THEN 1 ELSE base * f[k - 1]]
  <2>1. ASSUME NEW k \in 0 .. WORD
        PROVE  f[k] = IF k = 0 THEN 1 ELSE base * f[k - 1]
    <3>1. CASE k = 0
      BY <1>2, <3>1 DEF Repeats
    <3>2. CASE k # 0
      BY <1>3, <3>2, Word
    <3>. QED
      BY <3>1, <3>2
  <2>. QED
    BY <1>2, <2>1
<1>. QED
  BY <1>4 DEF IsPlaces

(* Each place is the base times the one before, and above its index.      *)
LEMMA PlaceOf ==
  ASSUME NEW base \in {10, 16}, NEW place, IsPlaces(place, base)
  PROVE  /\ place[0] = 1
         /\ \A k \in 1 .. WORD : place[k] = base * place[k - 1]
         /\ \A k \in 0 .. WORD : place[k] \in Nat /\ place[k] > k
<1>1. place[0] = 1
  BY Word DEF IsPlaces
<1>2. \A k \in 1 .. WORD : place[k] = base * place[k - 1]
  BY Word DEF IsPlaces
<1>. DEFINE T == {k \in 0 .. WORD : ~(place[k] \in Nat /\ place[k] > k)}
<1>3. T = {}
  <2>. SUFFICES ASSUME T # {} PROVE FALSE
    OBVIOUS
  <2>0. T \subseteq Nat
    BY Word
  <2>1. PICK k \in T : \A j \in T : k <= j
    BY <2>0, LeastMember
  <2>2. k \in 0 .. WORD /\ k \in Nat /\ ~(place[k] \in Nat /\ place[k] > k)
    BY <2>1
  <2>3. k > 0
    BY <1>1, <2>2
  <2>4. k \in 1 .. WORD /\ k - 1 \in 0 .. WORD /\ ~(k <= k - 1)
    BY <2>2, <2>3, Word
  <2>5. place[k - 1] \in Nat /\ place[k - 1] > k - 1
    BY <2>1, <2>4
  <2>6. place[k] = base * place[k - 1]
    BY <1>2, <2>4
  <2>7. CASE base = 10
    BY <2>2, <2>3, <2>5, <2>6, <2>7
  <2>8. CASE base = 16
    BY <2>2, <2>3, <2>5, <2>6, <2>8
  <2>. QED
    BY <2>7, <2>8
<1>. QED
  BY <1>1, <1>2, <1>3

(* Places grow with their index.                                          *)
LEMMA PlacesGrow ==
  ASSUME NEW base \in {10, 16}, NEW place, IsPlaces(place, base)
  PROVE  \A j, k \in 0 .. WORD : j <= k => place[j] <= place[k]
<1>. SUFFICES ASSUME NEW j \in 0 .. WORD
              PROVE  \A k \in 0 .. WORD : j <= k => place[j] <= place[k]
  OBVIOUS
<1>. DEFINE T == {k \in 0 .. WORD : j <= k /\ ~(place[j] <= place[k])}
<1>1. T = {}
  <2>. SUFFICES ASSUME T # {} PROVE FALSE
    OBVIOUS
  <2>0. T \subseteq Nat
    BY Word
  <2>1. PICK k \in T : \A i \in T : k <= i
    BY <2>0, LeastMember
  <2>2. k \in 0 .. WORD /\ k \in Nat /\ j <= k /\ ~(place[j] <= place[k])
    BY <2>1
  <2>3. place[j] \in Nat /\ place[k] \in Nat
    BY <2>2, PlaceOf
  <2>4. j < k
    BY <2>2, <2>3
  <2>5. k \in 1 .. WORD /\ k - 1 \in 0 .. WORD /\ j <= k - 1 /\ ~(k <= k - 1)
    BY <2>2, <2>4, Word
  <2>6. place[j] <= place[k - 1]
    BY <2>1, <2>5
  <2>7. place[k] = base * place[k - 1] /\ place[k - 1] \in Nat
    BY <2>5, PlaceOf
  <2>8. CASE base = 10
    BY <2>2, <2>3, <2>6, <2>7, <2>8
  <2>9. CASE base = 16
    BY <2>2, <2>3, <2>6, <2>7, <2>9
  <2>. QED
    BY <2>8, <2>9
<1>. QED
  BY <1>1

Places(base) == CHOOSE place : IsPlaces(place, base)

(* Those that Digits takes are places.                                    *)
LEMMA PlacesAre ==
  ASSUME NEW base \in {10, 16}
  PROVE  IsPlaces(Places(base), base)
BY PlacesExist DEF Places

-----------------------------------------------------------------------------
(* What the quotient is.                                                   *)
LEMMA Division ==
  ASSUME NEW v \in Nat, NEW m \in Nat, m > 0
  PROVE  /\ v \div m \in Nat
         /\ m * (v \div m) <= v /\ v < m * ((v \div m) + 1)
<1>1. v = m * (v \div m) + (v % m) /\ v % m \in 0 .. m - 1 /\ v \div m \in Nat
  OBVIOUS
<1>. DEFINE d == v \div m  r == v % m
<1>2. d \in Nat /\ r \in Int /\ 0 <= r /\ r < m /\ v = m * d + r
  BY <1>1
<1>3. m * (d + 1) = m * d + m
  BY <1>2, Z3
<1>4. m * d \in Int
  BY <1>2
<1>. HIDE DEF d, r
<1>5. m * d <= v /\ v < m * (d + 1)
  BY <1>2, <1>3, <1>4
<1>. QED
  BY <1>1, <1>5 DEF d

(* There is one number whose multiples enclose v.                         *)
LEMMA Between ==
  ASSUME NEW v \in Nat, NEW m \in Nat, m > 0, NEW d \in Nat, NEW t \in Nat,
         m * d <= v, v < m * (d + 1), m * t <= v, v < m * (t + 1)
  PROVE  d = t
<1>1. ASSUME NEW a \in Nat, NEW b \in Nat, a < b PROVE m * (a + 1) <= m * b
  <2>1. a + 1 <= b
    BY <1>1
  <2>. QED
    BY <2>1, Z3
<1>2. /\ m * d \in Int /\ m * t \in Int
      /\ m * (d + 1) \in Int /\ m * (t + 1) \in Int
  OBVIOUS
<1>3. ~(d < t)
  <2>1. SUFFICES ASSUME d < t PROVE FALSE
    OBVIOUS
  <2>2. m * (d + 1) <= m * t
    BY <1>1, <2>1
  <2>. QED
    BY <1>2, <2>2
<1>4. ~(t < d)
  <2>1. SUFFICES ASSUME t < d PROVE FALSE
    OBVIOUS
  <2>2. m * (t + 1) <= m * d
    BY <1>1, <2>1
  <2>. QED
    BY <1>2, <2>2
<1>. QED
  BY <1>3, <1>4

(* Division by a product is division by its factors.                      *)
LEMMA DivideTwice ==
  ASSUME NEW base \in {10, 16}, NEW v \in Nat, NEW p \in Nat, p > 0
  PROVE  v \div (base * p) = (v \div base) \div p
<1>. DEFINE m == base * p  q == v \div base  t == q \div p
<1>1. base \in Nat /\ base > 0 /\ m \in Nat /\ m > 0
  <2>1. CASE base = 10
    BY <2>1
  <2>2. CASE base = 16
    BY <2>2
  <2>. QED
    BY <2>1, <2>2
<1>2. q \in Nat /\ base * q <= v /\ v < base * (q + 1)
  BY <1>1, Division
<1>. HIDE DEF q
<1>3. t \in Nat /\ p * t <= q /\ q < p * (t + 1)
  BY <1>2, Division
<1>. HIDE DEF t
<1>4. m * t <= v /\ v < m * (t + 1)
  <2>. DEFINE x == p * t  y == p * (t + 1)
  <2>1. x \in Nat /\ y \in Nat /\ x <= q /\ q < y
    BY <1>3
  <2>2. m * t = base * x /\ m * (t + 1) = base * y
    BY <1>1, <1>3, Z3
  <2>. HIDE DEF x, y
  <2>3. base * x <= v /\ v < base * y
    <3>1. CASE base = 10
      BY <1>2, <2>1, <3>1
    <3>2. CASE base = 16
      BY <1>2, <2>1, <3>2
    <3>. QED
      BY <3>1, <3>2
  <2>. QED
    BY <2>2, <2>3
<1>. HIDE DEF m
<1>5. v \div m \in Nat /\ m * (v \div m) <= v /\ v < m * ((v \div m) + 1)
  BY <1>1, Division
<1>. QED
  BY <1>1, <1>3, <1>4, <1>5, Between DEF m, q, t

-----------------------------------------------------------------------------
(* How many figures a number has.                                          *)
IsCount(k, n, base) ==
  /\ k \in 1 .. WORD
  /\ n < Places(base)[k]
  /\ k = 1 \/ n >= Places(base)[k - 1]

(* Every value of an int has so many figures.                             *)
LEMMA CountExists ==
  ASSUME NEW base \in {10, 16}, NEW n \in 0 .. WORD - 1
  PROVE  \E k : IsCount(k, n, base)
<1>. DEFINE T == {k \in 1 .. WORD : n < Places(base)[k]}
<1>0. n \in Nat /\ n < WORD /\ WORD \in 0 .. WORD /\ WORD \in 1 .. WORD /\ T \subseteq Nat
  BY Word
<1>1. Places(base)[WORD] \in Nat /\ Places(base)[WORD] > WORD
  BY <1>0, PlacesAre, PlaceOf
<1>2. WORD \in T
  BY <1>0, <1>1
<1>3. PICK k \in T : \A j \in T : k <= j
  BY <1>0, <1>2, LeastMember
<1>4. k \in 1 .. WORD /\ k \in Nat /\ n < Places(base)[k]
  BY <1>3
<1>5. ASSUME k # 1 PROVE n >= Places(base)[k - 1]
  <2>1. k - 1 \in 1 .. WORD /\ k - 1 \in 0 .. WORD /\ ~(k <= k - 1)
    BY <1>4, <1>5, Word
  <2>2. ~(n < Places(base)[k - 1])
    BY <1>3, <2>1
  <2>3. Places(base)[k - 1] \in Nat
    BY <2>1, PlacesAre, PlaceOf
  <2>. QED
    BY <1>0, <2>2, <2>3
<1>. QED
  BY <1>4, <1>5 DEF IsCount

(* And no other number of them.                                           *)
LEMMA CountUnique ==
  ASSUME NEW base \in {10, 16}, NEW n \in 0 .. WORD - 1,
         NEW j, NEW k, IsCount(j, n, base), IsCount(k, n, base)
  PROVE  j = k
<1>1. ASSUME NEW a, NEW b, IsCount(a, n, base), IsCount(b, n, base), a < b PROVE FALSE
  <2>1. a \in 1 .. WORD /\ b \in 1 .. WORD /\ n < Places(base)[a]
    BY <1>1 DEF IsCount
  <2>2. b # 1 /\ b - 1 \in 0 .. WORD /\ a \in 0 .. WORD /\ a <= b - 1
    BY <1>1, <2>1, Word
  <2>3. n >= Places(base)[b - 1]
    BY <1>1, <2>2 DEF IsCount
  <2>4. Places(base)[a] <= Places(base)[b - 1]
    BY <2>2, PlacesAre, PlacesGrow
  <2>5. Places(base)[a] \in Nat /\ Places(base)[b - 1] \in Nat /\ n \in Nat
    BY <2>2, PlacesAre, PlaceOf, Word
  <2>. QED
    BY <2>1, <2>3, <2>4, <2>5
<1>2. j \in Int /\ k \in Int
  BY Word DEF IsCount
<1>3. ~(j < k) /\ ~(k < j)
  BY <1>1
<1>. QED
  BY <1>2, <1>3

(* So Digits is one figure per place.                                     *)
LEMMA DigitsAre ==
  ASSUME NEW base \in {10, 16}, NEW n \in 0 .. WORD - 1, NEW k, IsCount(k, n, base)
  PROVE  Digits(n, base) =
           [i \in 1 .. k |-> base_char[((n \div Places(base)[k - i]) % base) + 1]]
<1>. DEFINE count == CHOOSE c \in 1 .. WORD :
                       n < Places(base)[c] /\ (c = 1 \/ n >= Places(base)[c - 1])
<1>1. IsCount(count, n, base)
  BY DEF IsCount
<1>2. count = k
  BY <1>1, CountUnique
<1>3. Digits(n, base) =
        [i \in 1 .. count |-> base_char[((n \div Places(base)[count - i]) % base) + 1]]
  BY DEF Digits, Places, IsPlaces
<1>. QED
  BY <1>2, <1>3

-----------------------------------------------------------------------------
(* Each remainder has a character.                                         *)
LEMMA FigureIsGlyph ==
  ASSUME NEW base \in {10, 16}, NEW v \in Nat
  PROVE  base_char[(v % base) + 1] \in Glyphs
<1>1. v % base \in 0 .. 15
  BY Quotient
<1>2. <<base_char[(v % base) + 1]>> \in Seq(Glyphs)
  BY <1>1, Figure
<1>. QED
  BY <1>2

(* A number has one figure more than its quotient.                        *)
LEMMA CountGrows ==
  ASSUME NEW base \in {10, 16}, NEW v \in 0 .. WORD - 1, v >= base,
         NEW k, IsCount(k, v \div base, base)
  PROVE  IsCount(k + 1, v, base)
<1>. DEFINE q == v \div base  low == Places(base)[k - 1]  high == Places(base)[k]
<1>1. v \in Nat /\ base \in Nat /\ base > 0 /\ q \in Nat /\ base * q <= v /\ v < base * (q + 1)
  BY Word, Division
<1>2. k \in 1 .. WORD /\ k \in 0 .. WORD /\ k - 1 \in 0 .. WORD /\ q < high
  BY Word DEF IsCount
<1>3. low \in Nat /\ high \in Nat /\ high > k /\ high = base * low
  BY <1>2, PlacesAre, PlaceOf
<1>4. q < high /\ (k = 1 \/ q >= low)
  BY DEF IsCount
<1>5. k = 1 => low = 1
  BY <1>2, PlacesAre, PlaceOf
<1>. HIDE DEF q, low, high
<1>6. v < base * high /\ v >= high
  <2>1. CASE base = 10
    BY <1>1, <1>3, <1>4, <1>5, <2>1
  <2>2. CASE base = 16
    BY <1>1, <1>3, <1>4, <1>5, <2>2
  <2>. QED
    BY <2>1, <2>2
<1>7. k + 1 \in 1 .. WORD /\ (k + 1) - 1 = k
  BY <1>1, <1>2, <1>3, <1>6, Word
<1>8. Places(base)[k + 1] = base * high
  BY <1>7, PlacesAre, PlaceOf DEF high
<1>. QED
  BY <1>6, <1>7, <1>8 DEF IsCount, high

(* t is the text s and one character.                                      *)
IsOneMore(t, s, x) ==
  /\ t = [i \in 1 .. Len(s) + 1 |-> t[i]]
  /\ \A i \in 1 .. Len(s) : t[i] = s[i]
  /\ t[Len(s) + 1] = x

(* It is the text followed by the character.                               *)
LEMMA OneMore ==
  ASSUME NEW S, NEW s \in Seq(S), NEW x \in S, NEW t, IsOneMore(t, s, x)
  PROVE  t = s \o <<x>>
<1>0. Len(s) \in Nat
  OBVIOUS
<1>1. /\ t = [i \in 1 .. Len(s) + 1 |-> t[i]]
      /\ \A i \in 1 .. Len(s) : t[i] = s[i]
      /\ t[Len(s) + 1] = x
  BY Zenon DEF IsOneMore
<1>2. ASSUME NEW i \in 1 .. Len(s) + 1 PROVE t[i] = (s \o <<x>>)[i]
  <2>1. CASE i = Len(s) + 1
    BY <1>0, <1>1, <2>1
  <2>2. CASE i # Len(s) + 1
    BY <1>0, <1>1, <2>2
  <2>. QED
    BY <2>1, <2>2
<1>3. s \o <<x>> = [i \in 1 .. Len(s) + 1 |-> (s \o <<x>>)[i]]
  <2>1. s \o <<x>> \in Seq(S) /\ Len(s \o <<x>>) = Len(s) + 1
    OBVIOUS
  <2>. QED
    BY <2>1
<1>. QED
  BY <1>1, <1>2, <1>3

(* Digits obeys the recursion of itoa.c:7-27.                             *)
LEMMA DigitsUnfold ==
  ASSUME NEW base \in {10, 16}, NEW v \in 0 .. WORD - 1
  PROVE  Digits(v, base) =
           IF v < base THEN <<base_char[v + 1]>>
                       ELSE Digits(v \div base, base) \o <<base_char[(v % base) + 1]>>
<1>0. v \in Nat /\ base \in Nat /\ base > 0 /\ 0 \in 0 .. WORD /\ 1 \in 1 .. WORD /\ 1 \in 0 .. WORD
  BY Word
<1>1. Places(base)[0] = 1 /\ Places(base)[1] = base
  BY <1>0, PlacesAre, PlaceOf
<1>2. CASE v < base
  <2>1. IsCount(1, v, base)
    BY <1>0, <1>1, <1>2 DEF IsCount
  <2>2. Digits(v, base) = [i \in 1 .. 1 |-> base_char[((v \div Places(base)[1 - i]) % base) + 1]]
    BY <2>1, DigitsAre
  <2>3. (v \div Places(base)[0]) % base = v
    BY <1>0, <1>1, <1>2
  <2>4. Digits(v, base) = <<base_char[v + 1]>>
    BY <2>2, <2>3
  <2>. QED
    BY <1>2, <2>4
<1>3. CASE v >= base
  <2>. DEFINE q == v \div base
  <2>1. q \in 0 .. WORD - 1 /\ q \in Nat
    BY <1>0, <1>3, Quotient, Word
  <2>2. PICK k : IsCount(k, q, base)
    BY <2>1, CountExists
  <2>3. k \in 1 .. WORD /\ k \in Nat
    BY <2>2, Word DEF IsCount
  <2>4. IsCount(k + 1, v, base)
    BY <1>3, <2>2, CountGrows
  <2>. HIDE DEF q
  <2>. DEFINE s == [i \in 1 .. k |-> base_char[((q \div Places(base)[k - i]) % base) + 1]]
              t == [i \in 1 .. k + 1 |-> base_char[((v \div Places(base)[(k + 1) - i]) % base) + 1]]
  <2>5. Digits(q, base) = s
    BY <2>1, <2>2, DigitsAre
  <2>6. Digits(v, base) = t
    BY <2>4, DigitsAre
  <2>7. ASSUME NEW i \in 1 .. k
        PROVE  /\ t[i] = s[i]
               /\ s[i] \in Glyphs
    <3>1. /\ k - i \in 0 .. WORD /\ (k + 1) - i \in 1 .. WORD /\ i \in 1 .. k + 1
          /\ ((k + 1) - i) - 1 = k - i
      BY <2>3, <2>4, Word DEF IsCount
    <3>2. /\ Places(base)[k - i] \in Nat /\ Places(base)[k - i] > 0
          /\ Places(base)[(k + 1) - i] = base * Places(base)[k - i]
      BY <3>1, PlacesAre, PlaceOf
    <3>3. v \div Places(base)[(k + 1) - i] = q \div Places(base)[k - i]
      BY <1>0, <3>2, DivideTwice DEF q
    <3>4. q \div Places(base)[k - i] \in Nat
      BY <2>1, <3>2, Division
    <3>5. s[i] \in Glyphs
      BY <3>4, FigureIsGlyph
    <3>. QED
      BY <3>1, <3>3, <3>5
  <2>8. t[k + 1] = base_char[(v % base) + 1]
    <3>1. (k + 1) - (k + 1) = 0 /\ k + 1 \in 1 .. k + 1
      BY <2>3
    <3>2. v \div Places(base)[0] = v
      BY <1>0, <1>1
    <3>. QED
      BY <3>1, <3>2
  <2>9. base_char[(v % base) + 1] \in Glyphs
    BY <1>0, FigureIsGlyph
  <2>10. DOMAIN t = 1 .. k + 1 /\ DOMAIN s = 1 .. k
    OBVIOUS
  <2>11. t = [i \in 1 .. k + 1 |-> t[i]] /\ s = [i \in 1 .. k |-> s[i]]
    OBVIOUS
  <2>. HIDE DEF s, t
  <2>12. s \in Seq(Glyphs) /\ Len(s) = k
    <3>1. \A i \in 1 .. k : s[i] \in Glyphs
      BY <2>7
    <3>2. s \in [1 .. k -> Glyphs]
      BY <2>11, <3>1
    <3>. QED
      BY <2>3, <3>2
  <2>13. t = s \o <<base_char[(v % base) + 1]>>
    <3>. DEFINE x == base_char[(v % base) + 1]
    <3>1. s \in Seq(Glyphs) /\ x \in Glyphs /\ IsOneMore(t, s, x)
      BY <2>7, <2>8, <2>9, <2>11, <2>12 DEF IsOneMore
    <3>. HIDE DEF x
    <3>2. t = s \o <<x>>
      BY <3>1, OneMore
    <3>. QED
      BY <3>2 DEF x
  <2>14. ~(v < base)
    BY <1>0, <1>3
  <2>. QED
    BY <2>5, <2>6, <2>13, <2>14 DEF q
<1>. QED
  BY <1>0, <1>2, <1>3

(* So itoa.c writes the figures of Digits: there is no least number for   *)
(* which it writes others.                                                *)
LEMMA ItoaWritesDigits ==
  ASSUME NEW base \in {10, 16}
  PROVE  \A v \in 0 .. WORD - 1 : __uitoa_internal(v, base) = Digits(v, base)
<1>. DEFINE T == {v \in 0 .. WORD - 1 : __uitoa_internal(v, base) # Digits(v, base)}
<1>1. T = {}
  <2>. SUFFICES ASSUME T # {} PROVE FALSE
    OBVIOUS
  <2>0. T \subseteq Nat
    BY Word
  <2>1. PICK v \in T : \A w \in T : v <= w
    BY <2>0, LeastMember
  <2>2. v \in 0 .. WORD - 1 /\ v \in Nat /\ __uitoa_internal(v, base) # Digits(v, base)
    BY <2>0, <2>1
  <2>3. CASE v < base
    BY <2>2, <2>3, UitoaUnfolds, DigitsUnfold
  <2>4. CASE ~(v < base)
    <3>1. v \div base \in 0 .. WORD - 1 /\ ~(v <= v \div base)
      BY <2>2, <2>4, Quotient, Word
    <3>2. __uitoa_internal(v \div base, base) = Digits(v \div base, base)
      BY <2>1, <3>1
    <3>3. __uitoa_internal(v, base) =
            __uitoa_internal(v \div base, base) \o <<base_char[(v % base) + 1]>>
      BY <2>2, <2>4, UitoaUnfolds
    <3>4. Digits(v, base) = Digits(v \div base, base) \o <<base_char[(v % base) + 1]>>
      BY <2>2, <2>4, DigitsUnfold
    <3>. QED
      BY <2>2, <3>2, <3>3, <3>4
  <2>. QED
    BY <2>3, <2>4
<1>. QED
  BY <1>1

-----------------------------------------------------------------------------
(* A padding of no width is the empty text.                                *)
LEMMA NoPadding ==
  ASSUME NEW c \in Glyphs, NEW n \in Int, n <= 0
  PROVE  Repeat(c, n) = <<>>
<1>1. 1 .. n = {}
  OBVIOUS
<1>2. Repeat(c, n) \in Seq(Glyphs) /\ DOMAIN Repeat(c, n) = {}
  BY <1>1, RepeatIsText DEF Repeat
<1>. QED
  BY <1>2

(* A padding is as long as it is wide.                                    *)
LEMMA PaddingLength ==
  ASSUME NEW c \in Glyphs, NEW n \in Nat
  PROVE  Len(Repeat(c, n)) = n
<1>1. Repeat(c, n) \in Seq(Glyphs) /\ DOMAIN Repeat(c, n) = 1 .. n
  BY RepeatIsText DEF Repeat
<1>. QED
  BY <1>1

(* Two texts are a text as long as both.                                   *)
LEMMA Joined ==
  ASSUME NEW S, NEW s \in Seq(S), NEW t \in Seq(S)
  PROVE  s \o t \in Seq(S) /\ Len(s \o t) = Len(s) + Len(t)
OBVIOUS

(* The figures of a number that fits an int are those C prescribes.        *)
LEMMA DataIsFigures ==
  ASSUME NEW e, IsElement(e), AsInC(e), Numeric(e)
  PROVE  Data(e) = NumberFigures(e)
<1>. DEFINE num == IF Negative(e) THEN (-Signed(e.arg)) % WORD ELSE e.arg
            magnitude == IF Negative(e) THEN -Signed(e.arg) ELSE e.arg
            text == itoa(num, Base(e))
            figures == Digits(magnitude, Base(e))
<1>1. WORD \in Nat /\ WORD >= 32 /\ WORD % 2 = 0 /\ e.arg \in 0 .. WORD - 1 /\ e.arg \in Nat
  <2>1. e.conv \in {"d", "u", "x", "X", "p"}
    BY DEF Numeric
  <2>2. e.arg \in 0 .. WORD - 1
    BY <2>1 DEF IsElement
  <2>. QED
    BY <2>2, FormatAssumption
<1>2. Base(e) \in {10, 16}
  BY DEF Base
<1>3. /\ num = magnitude /\ magnitude \in 0 .. WORD - 1
      /\ Base(e) = 10 => ~(Signed(magnitude) < 0)
  <2>1. CASE Negative(e)
    <3>1. e.arg # WORD \div 2 /\ Signed(e.arg) < 0
      BY <2>1 DEF AsInC, Negative
    <3>2. e.arg > WORD \div 2 /\ Signed(e.arg) = e.arg - WORD
      BY <1>1, <3>1 DEF Signed
    <3>3. WORD - e.arg \in 1 .. WORD - 1 /\ WORD - e.arg < WORD \div 2
      BY <1>1, <3>2
    <3>4. (WORD - e.arg) % WORD = WORD - e.arg
      BY <1>1, <3>3
    <3>5. -Signed(e.arg) = WORD - e.arg
      BY <1>1, <3>2
    <3>6. Signed(WORD - e.arg) = WORD - e.arg
      BY <1>1, <3>3 DEF Signed
    <3>. QED
      BY <1>1, <2>1, <3>3, <3>4, <3>5, <3>6
  <2>2. CASE ~Negative(e)
    <3>1. Base(e) = 10 => e.conv \in {"d", "u"}
      BY DEF Base, Numeric
    <3>2. e.conv = "u" => Signed(e.arg) >= 0
      BY DEF AsInC
    <3>3. Signed(e.arg) \in Int
      BY <1>1 DEF Signed
    <3>4. e.conv = "d" => ~(Signed(e.arg) < 0)
      BY <2>2 DEF Negative
    <3>. QED
      BY <1>1, <2>2, <3>1, <3>2, <3>3, <3>4
  <2>. QED
    BY <2>1, <2>2
<1>. HIDE DEF num, magnitude
<1>4. text = figures
  <2>1. text = __uitoa_internal(magnitude, Base(e))
    BY <1>3 DEF itoa
  <2>. QED
    BY <1>2, <1>3, <2>1, ItoaWritesDigits
<1>. HIDE DEF text, figures
<1>5. e.conv = "X" => /\ Data(e) = [i \in DOMAIN text |-> Capital(text[i])]
                      /\ NumberFigures(e) = [i \in DOMAIN figures |-> Capital(figures[i])]
  BY DEF Data, NumberFigures, num, magnitude, text, figures
<1>6. e.conv # "X" => Data(e) = text /\ NumberFigures(e) = figures
  BY DEF Data, NumberFigures, Numeric, num, magnitude, text, figures
<1>. QED
  BY <1>4, <1>5, <1>6

(* Sign and prefix are those of C.                                         *)
LEMMA PrefixIsSign ==
  ASSUME NEW e, IsElement(e), AsInC(e)
  PROVE  Prefix(e) = Sign(e)
<1>1. CASE e.conv = "d"
  <2>1. {"+", " "} \cap e.flags = {" "} <=> "+" \notin e.flags /\ " " \in e.flags
    <3>1. "+" # " "
      OBVIOUS
    <3>2. ASSUME {"+", " "} \cap e.flags = {" "} PROVE "+" \notin e.flags /\ " " \in e.flags
      <4>1. " " \in {"+", " "} \cap e.flags /\ "+" \notin {"+", " "} \cap e.flags
        BY <3>1, <3>2, Zenon
      <4>. QED
        BY <4>1, Zenon
    <3>3. ASSUME "+" \notin e.flags, " " \in e.flags PROVE {"+", " "} \cap e.flags = {" "}
      BY <3>3, Zenon
    <3>. QED
      BY <3>2, <3>3
  <2>2. CASE Negative(e)
    BY <1>1, <2>2 DEF Prefix, Sign
  <2>3. CASE ~Negative(e)
    BY <1>1, <2>1, <2>3 DEF Prefix, Sign
  <2>. QED
    BY <2>2, <2>3
<1>2. CASE e.conv # "d"
  <2>1. ~Negative(e)
    BY <1>2 DEF Negative
  <2>2. e.conv = "X" => "#" \notin e.flags
    BY DEF AsInC
  <2>. QED
    BY <1>2, <2>1, <2>2 DEF Prefix, Sign
<1>. QED
  BY <1>1, <1>2

(* What is written for an element that C and the code agree on.            *)
LEMMA FieldIsStandard ==
  ASSUME NEW e, IsElement(e), AsInC(e)
  PROVE  Field(e) = Standard(e)
<1>1. e.width \in Int /\ e.precision \in Int /\ e.width >= -1
  BY WidthIsNumber DEF AsInC
<1>2. " " \in Glyphs /\ "0" \in Glyphs /\ "%" \in Glyphs
  BY DEF Glyphs
<1>. DEFINE Padded(text) == IF "-" \in e.flags
                            THEN text \o Repeat(" ", e.width - Len(text))
                            ELSE Repeat(" ", e.width - Len(text)) \o text
<1>3. Standard(e) = Padded(Shown(e))
  BY DEF Standard, Repeat
<1>4. CASE e.conv = "char"
  <2>1. e.arg \in STRING /\ e.width = -1
    BY <1>4 DEF IsElement
  <2>2. Shown(e) = <<e.arg>> /\ Len(<<e.arg>>) = 1 /\ <<e.arg>> \in Seq(STRING)
    BY <1>4, <2>1 DEF Shown
  <2>3. Repeat(" ", e.width - Len(Shown(e))) = <<>>
    <3>1. e.width - Len(Shown(e)) \in Int /\ e.width - Len(Shown(e)) <= 0
      BY <2>1, <2>2
    <3>. QED
      BY <1>2, <3>1, NoPadding
  <2>4. <<e.arg>> \o <<>> = <<e.arg>> /\ <<>> \o <<e.arg>> = <<e.arg>>
    OBVIOUS
  <2>5. Padded(Shown(e)) = <<e.arg>>
    BY <2>2, <2>3, <2>4
  <2>. QED
    BY <1>3, <1>4, <2>5 DEF Field
<1>5. CASE e.conv # "char"
  <2>. DEFINE data == Data(e)
              len == IF e.precision >= 0 /\ ~Numeric(e) THEN strnlen(data, e.precision)
                                                        ELSE Len(data)
              zeros == Zeros(e, len)
              space == Repeat(" ", e.width - len - zeros - Len(Prefix(e)))
              text == Prefix(e) \o Repeat("0", zeros) \o SubSeq(data, 1, len)
  <2>1. data \in Seq(Glyphs) /\ Len(data) \in Nat
    BY <1>5, DataIsText
  <2>2. len = Len(data) /\ SubSeq(data, 1, len) = data
    <3>1. ASSUME e.precision >= 0, ~Numeric(e) PROVE strnlen(data, e.precision) = Len(data)
      <4>1. e.precision + 1 >= Len(data)
        <5>1. CASE e.conv = "s"
          BY <1>1, <2>1, <3>1, <5>1 DEF AsInC, Data, Numeric
        <5>2. CASE e.conv # "s"
          <6>1. e.conv \in {"c", "%"}
            BY <1>5, <3>1, <5>2 DEF IsElement, Numeric
          <6>2. data = <<e.arg>> \/ data = <<"%">>
            BY <6>1 DEF AsInC, Data, Numeric
          <6>3. Len(data) = 1
            BY <6>2
          <6>. QED
            BY <1>1, <3>1, <6>3
        <5>. QED
          BY <5>1, <5>2
      <4>. HIDE DEF data
      <4>2. \E x \in {Len(data), e.precision + 1} : \A y \in {Len(data), e.precision + 1} : x <= y
        BY <1>1, <2>1, <4>1
      <4>. QED
        BY <1>1, <2>1, <4>1, <4>2 DEF strnlen, Min
    <3>2. len = Len(data)
      BY <3>1
    <3>. HIDE DEF data, len
    <3>. QED
      BY <2>1, <3>2
  <2>3. zeros \in Nat
    <3>. HIDE DEF data
    <3>. QED
      BY <2>1, <2>2, ZerosIsNumber
  <2>4. Prefix(e) \in Seq(Glyphs) /\ Len(Prefix(e)) \in Nat
    BY PrefixIsText
  <2>5. Field(e) = IF "-" \in e.flags THEN text \o space ELSE space \o text
    BY <1>5 DEF Field, Converted
  <2>. HIDE DEF data, len, zeros
  <2>6. text = Prefix(e) \o Repeat("0", zeros) \o data
    BY <2>2
  <2>7. Len(text) = Len(Prefix(e)) + zeros + len /\ text \in Seq(Glyphs)
    <3>1. Repeat("0", zeros) \in Seq(Glyphs) /\ Len(Repeat("0", zeros)) = zeros
      <4>1. zeros \in Int
        BY <2>3
      <4>. QED
        BY <1>2, <2>3, <4>1, RepeatIsText, PaddingLength
    <3>2. Prefix(e) \o Repeat("0", zeros) \in Seq(Glyphs)
          /\ Len(Prefix(e) \o Repeat("0", zeros)) = Len(Prefix(e)) + zeros
      BY <2>4, <3>1, Joined
    <3>. HIDE DEF text
    <3>. QED
      BY <2>1, <2>2, <2>6, <3>2, Joined
  <2>. HIDE DEF text
  <2>8. e.width - len - zeros - Len(Prefix(e)) = e.width - Len(text)
    BY <1>1, <2>1, <2>2, <2>3, <2>4, <2>7
  <2>9. Field(e) = Padded(text)
    BY <2>5, <2>8
  <2>10. text = Shown(e)
    <3>1. CASE Numeric(e)
      <4>1. data = NumberFigures(e) /\ Prefix(e) = Sign(e)
        BY <3>1, DataIsFigures, PrefixIsSign DEF data
      <4>2. zeros = Max({(IF "0" \in e.flags /\ "-" \notin e.flags /\ e.precision < 0
                         THEN e.width - Len(Sign(e)) ELSE e.precision) - Len(NumberFigures(e)), 0})
        <5>1. CASE e.precision >= 0
          <6>1. ~(e.precision < 0)
            BY <1>1, <5>1
          <6>2. zeros = Max({e.precision - len, 0})
            BY <3>1, <5>1, <6>1 DEF zeros, Zeros
          <6>. QED
            BY <2>2, <4>1, <6>1, <6>2
        <5>2. CASE e.precision < 0 /\ "0" \in e.flags /\ "-" \notin e.flags
          <6>1. zeros = Max({e.width - len - Len(Prefix(e)), 0})
            BY <1>1, <3>1, <5>2 DEF zeros, Zeros
          <6>2. e.width - len - Len(Prefix(e)) = (e.width - Len(Sign(e))) - Len(NumberFigures(e))
            BY <1>1, <2>1, <2>2, <2>4, <4>1
          <6>. QED
            BY <5>2, <6>1, <6>2
        <5>3. CASE e.precision < 0 /\ ~("0" \in e.flags /\ "-" \notin e.flags)
          <6>1. zeros = 0
            BY <1>1, <5>3 DEF zeros, Zeros
          <6>2. /\ e.precision - Len(NumberFigures(e)) \in Int
                /\ e.precision - Len(NumberFigures(e)) < 0
            BY <1>1, <2>1, <4>1, <5>3
          <6>3. Max({e.precision - Len(NumberFigures(e)), 0}) = 0
            <7>. DEFINE x == e.precision - Len(NumberFigures(e))
            <7>1. x \in Int /\ x < 0 /\ 0 \in Int
              BY <6>2
            <7>. HIDE DEF x
            <7>2. Max({x, 0}) \in {x, 0} /\ Max({x, 0}) >= 0
              BY <7>1, LargerOf
            <7>3. Max({x, 0}) = 0
              BY <7>1, <7>2
            <7>. QED
              BY <7>3 DEF x
          <6>. QED
            BY <5>3, <6>1, <6>3
        <5>. QED
          BY <1>1, <5>1, <5>2, <5>3
      <4>3. Shown(e) = Number(e)
        BY <3>1 DEF Shown, Numeric
      <4>4. Number(e) = Sign(e) \o Repeat("0", zeros) \o NumberFigures(e)
        BY <4>2 DEF Number, Repeat
      <4>. QED
        BY <2>6, <4>1, <4>3, <4>4
    <3>2. CASE ~Numeric(e)
      <4>1. zeros = 0 /\ Prefix(e) = <<>>
        BY <3>2 DEF zeros, Zeros, Prefix, Numeric, Negative
      <4>2. Repeat("0", zeros) = <<>>
        <5>1. zeros \in Int /\ zeros <= 0
          BY <4>1
        <5>. QED
          BY <1>2, <5>1, NoPadding
      <4>3. text = data
        BY <2>1, <2>6, <4>1, <4>2
      <4>4. data = Shown(e)
        <5>1. CASE e.conv = "s"
          <6>1. data = e.arg /\ e.arg \in Seq(Glyphs)
            BY <2>1, <5>1 DEF data, Data, Numeric
          <6>2. CASE e.precision < 0
            BY <1>1, <5>1, <6>1, <6>2 DEF Shown
          <6>3. CASE e.precision >= 0
            <7>1. e.precision >= Len(e.arg)
              BY <1>1, <5>1, <6>3 DEF AsInC
            <7>2. Min({e.precision, Len(e.arg)}) = Len(e.arg)
              BY <1>1, <6>1, <7>1 DEF Min
            <7>3. Shown(e) = SubSeq(e.arg, 1, Len(e.arg))
              <8>1. ~(e.precision < 0)
                BY <1>1, <6>3
              <8>2. Shown(e) = SubSeq(e.arg, 1, Min({e.precision, Len(e.arg)}))
                BY <5>1, <6>3, <8>1 DEF Shown
              <8>. QED
                BY <7>2, <8>2
            <7>. QED
              BY <6>1, <7>3
          <6>. QED
            BY <1>1, <6>2, <6>3
        <5>2. CASE e.conv = "c"
          <6>1. e.arg # "NUL"
            BY <5>2 DEF AsInC
          <6>. QED
            BY <5>2, <6>1 DEF data, Data, Shown, Numeric
        <5>3. CASE e.conv = "%"
          BY <5>3 DEF data, Data, Shown, Numeric
        <5>. QED
          BY <1>5, <3>2, <5>1, <5>2, <5>3 DEF IsElement, Numeric
      <4>. QED
        BY <4>3, <4>4
    <3>. QED
      BY <3>1, <3>2
  <2>. QED
    BY <1>3, <2>9, <2>10
<1>. QED
  BY <1>4, <1>5

-----------------------------------------------------------------------------
(* What FlattenSeq has joined after each text.                             *)
Joins(f, texts, n) ==
  /\ f \in [0 .. n -> Seq(Glyphs)] /\ f[0] = <<>>
  /\ \A k \in 1 .. n : f[k] = f[k - 1] \o texts[k]

(* Texts can be joined.                                                   *)
LEMMA JoinsExist ==
  ASSUME NEW n \in Nat, NEW texts \in [1 .. n -> Seq(Glyphs)]
  PROVE  \E f : Joins(f, texts, n)
<1>. DEFINE step == [k \in 1 .. n |-> [s \in Seq(Glyphs) |-> s \o texts[k]]]
<1>1. step \in [1 .. n -> [Seq(Glyphs) -> Seq(Glyphs)]]
  <2>1. ASSUME NEW k \in 1 .. n, NEW s \in Seq(Glyphs) PROVE s \o texts[k] \in Seq(Glyphs)
    BY Joined
  <2>. QED
    BY <2>1
<1>2. PICK f \in [0 .. n -> Seq(Glyphs)] : Repeats(f, <<>>, n, step)
  <2>1. <<>> \in Seq(Glyphs)
    OBVIOUS
  <2>. HIDE DEF step
  <2>. QED
    BY <1>1, <2>1, Repetition
<1>3. ASSUME NEW k \in 1 .. n PROVE f[k] = f[k - 1] \o texts[k]
  <2>1. f[k - 1] \in Seq(Glyphs)
    OBVIOUS
  <2>. QED
    BY <1>2, <2>1 DEF Repeats
<1>. QED
  BY <1>2, <1>3 DEF Joins, Repeats

(* FlattenSeq joins them.                                                 *)
LEMMA FlattenJoins ==
  ASSUME NEW n \in Nat, NEW texts \in [1 .. n -> Seq(Glyphs)], NEW f, Joins(f, texts, n)
  PROVE  FlattenSeq(texts) = f[n]
<1>1. texts \in Seq(Seq(Glyphs)) /\ Len(texts) = n
  OBVIOUS
<1>2. CASE n = 0
  <2>1. texts = <<>>
    BY <1>1, <1>2
  <2>. QED
    BY <1>1, <1>2, <2>1 DEF FlattenSeq, Joins
<1>3. CASE n # 0
  <2>. DEFINE flatten == CHOOSE g : g = [i \in 1 .. Len(texts) |->
                           IF i = 1 THEN texts[i] ELSE g[i - 1] \o texts[i]]
              h == [i \in 1 .. n |-> f[i]]
  <2>0. f[1] = texts[1]
    <3>1. 1 \in 1 .. n /\ 1 - 1 = 0 /\ texts[1] \in Seq(Glyphs)
      BY <1>3
    <3>2. f[1] = <<>> \o texts[1]
      BY <3>1 DEF Joins
    <3>3. \A s \in Seq(Glyphs) : <<>> \o s = s
      OBVIOUS
    <3>. QED
      BY <3>1, <3>2, <3>3
  <2>1. FlattenSeq(texts) = flatten[n]
    BY <1>1, <1>3 DEF FlattenSeq
  <2>2. h = [i \in 1 .. Len(texts) |-> IF i = 1 THEN texts[i] ELSE h[i - 1] \o texts[i]]
    <3>1. ASSUME NEW i \in 1 .. n
          PROVE  f[i] = IF i = 1 THEN texts[i] ELSE h[i - 1] \o texts[i]
      <4>1. f[i] = f[i - 1] \o texts[i]
        BY DEF Joins
      <4>2. CASE i = 1
        BY <2>0, <4>2
      <4>3. CASE i # 1
        <5>1. i - 1 \in 1 .. n
          BY <4>3
        <5>. QED
          BY <4>1, <4>3, <5>1
      <4>. QED
        BY <4>2, <4>3
    <3>. QED
      BY <1>1, <3>1
  <2>3. flatten = [i \in 1 .. Len(texts) |->
                     IF i = 1 THEN texts[i] ELSE flatten[i - 1] \o texts[i]]
    <3>. HIDE DEF h
    <3>. QED
      BY <2>2
  <2>. HIDE DEF flatten
  <2>. DEFINE T == {i \in 1 .. n : flatten[i] # f[i]}
  <2>4. T = {}
    <3>. SUFFICES ASSUME T # {} PROVE FALSE
      OBVIOUS
    <3>1. T \subseteq Nat
      OBVIOUS
    <3>2. PICK i \in T : \A j \in T : i <= j
      BY <3>1, LeastMember
    <3>3. i \in 1 .. n /\ i \in Nat /\ flatten[i] # f[i] /\ f[i] = f[i - 1] \o texts[i]
      <4>1. i \in 1 .. n /\ flatten[i] # f[i]
        BY <3>2
      <4>2. \A k \in 1 .. n : f[k] = f[k - 1] \o texts[k]
        BY DEF Joins
      <4>. QED
        BY <4>1, <4>2
    <3>4. CASE i = 1
      <4>1. flatten[i] = texts[i]
        BY <1>1, <2>3, <3>3, <3>4
      <4>. QED
        BY <2>0, <3>3, <3>4, <4>1
    <3>5. CASE i # 1
      <4>1. i - 1 \in 1 .. n /\ ~(i <= i - 1)
        BY <3>3, <3>5
      <4>2. flatten[i - 1] = f[i - 1]
        BY <3>2, <4>1
      <4>3. flatten[i] = flatten[i - 1] \o texts[i]
        BY <1>1, <2>3, <3>3, <3>5
      <4>. QED
        BY <3>3, <4>2, <4>3
    <3>. QED
      BY <3>4, <3>5
  <2>5. n \in 1 .. n
    BY <1>3
  <2>. QED
    BY <2>1, <2>4, <2>5
<1>. QED
  BY <1>2, <1>3

(* One more text is joined behind the others.                              *)
LEMMA FlattenMore ==
  ASSUME NEW n \in Nat, NEW texts \in [1 .. n -> Seq(Glyphs)],
         NEW more \in [1 .. n + 1 -> Seq(Glyphs)], \A i \in 1 .. n : more[i] = texts[i]
  PROVE  FlattenSeq(more) = FlattenSeq(texts) \o more[n + 1] /\ FlattenSeq(texts) \in Seq(Glyphs)
<1>1. PICK f : Joins(f, more, n + 1)
  BY JoinsExist
<1>. DEFINE g == [k \in 0 .. n |-> f[k]]
<1>2. Joins(g, texts, n)
  <2>1. g \in [0 .. n -> Seq(Glyphs)] /\ g[0] = <<>>
    BY <1>1 DEF Joins
  <2>2. ASSUME NEW k \in 1 .. n PROVE g[k] = g[k - 1] \o texts[k]
    <3>1. k \in 1 .. n + 1 /\ k \in 0 .. n /\ k - 1 \in 0 .. n
      OBVIOUS
    <3>. QED
      BY <1>1, <3>1 DEF Joins
  <2>. QED
    BY <2>1, <2>2 DEF Joins
<1>3. g[n] = f[n] /\ g[n] \in Seq(Glyphs)
  BY <1>1 DEF Joins
<1>4. f[n + 1] = f[n] \o more[n + 1]
  <2>1. n + 1 \in 1 .. n + 1 /\ (n + 1) - 1 = n
    OBVIOUS
  <2>. QED
    BY <1>1, <2>1 DEF Joins
<1>. HIDE DEF g
<1>5. FlattenSeq(texts) = g[n]
  BY <1>2, FlattenJoins
<1>6. FlattenSeq(more) = f[n + 1]
  <2>1. n + 1 \in Nat
    OBVIOUS
  <2>. QED
    BY <1>1, <2>1, FlattenJoins
<1>. QED
  BY <1>3, <1>4, <1>5, <1>6

-----------------------------------------------------------------------------
(* The elements so far, if C and the code agree on them, have been written *)
(* as C prescribes.                                                        *)
Agreed(n) == \A i \in 1 .. n : AsInC(format[i])
Texts(n) == [i \in 1 .. n |-> Standard(format[i])]

Written ==
  /\ format \in Formats /\ fmt \in Nat \ {0} /\ fmt - 1 <= Len(format)
  /\ format_pc \in {"loop", "done"}
  /\ Agreed(fmt - 1) =>
       buffer = IF format_pc = "done" THEN Append(FlattenSeq(Texts(fmt - 1)), "NUL")
                                      ELSE FlattenSeq(Texts(fmt - 1))

(* Nothing is written at first.                                           *)
LEMMA WrittenInit == FormatInit => Written
<1>. SUFFICES ASSUME FormatInit PROVE Written
  OBVIOUS
<1>1. /\ format \in Formats /\ fmt = 1 /\ buffer = <<>> /\ format_pc = "loop"
      /\ Len(format) \in Nat
  BY FormatAssumption DEF FormatInit
<1>2. 1 .. fmt - 1 = {}
  BY <1>1
<1>3. Texts(fmt - 1) = <<>>
  BY <1>2 DEF Texts
<1>4. FlattenSeq(Texts(fmt - 1)) = <<>>
  BY <1>3 DEF FlattenSeq
<1>. QED
  BY <1>1, <1>4 DEF Written

(* An element adds what C prescribes for it, the end a NUL.               *)
LEMMA WrittenStep == Written /\ [__sprintf_internal]_format_vars => Written'
<1>. SUFFICES ASSUME Written, [__sprintf_internal]_format_vars PROVE Written'
  OBVIOUS
<1>0. Len(format) \in Nat /\ \A i \in 1 .. Len(format) : IsElement(format[i])
  BY FormatAssumption DEF Written
<1>1. CASE Element
  <2>1. /\ format_pc = "loop" /\ fmt <= Len(format) /\ fmt' = fmt + 1
        /\ buffer' = buffer \o Field(format[fmt])
        /\ UNCHANGED <<format, format_pc>>
    BY <1>1 DEF Element
  <2>2. /\ fmt \in Nat /\ fmt - 1 \in Nat /\ fmt \in 1 .. Len(format)
        /\ fmt' - 1 = fmt /\ (fmt - 1) + 1 = fmt
        /\ \A i \in 1 .. fmt : i \in 1 .. Len(format)
    BY <1>0, <2>1 DEF Written
  <2>3. ASSUME Agreed(fmt) PROVE buffer' = FlattenSeq(Texts(fmt))
    <3>1. ASSUME NEW i \in 1 .. fmt
          PROVE  Standard(format[i]) = Field(format[i]) /\ Standard(format[i]) \in Seq(Glyphs)
      <4>1. IsElement(format[i]) /\ AsInC(format[i])
        BY <1>0, <2>2, <2>3 DEF Agreed
      <4>. QED
        BY <4>1, FieldIsStandard, FieldIsText
    <3>2. Agreed(fmt - 1)
      BY <2>2, <2>3 DEF Agreed
    <3>3. buffer = FlattenSeq(Texts(fmt - 1))
      BY <2>1, <3>2 DEF Written
    <3>. DEFINE n == fmt - 1  texts == Texts(fmt - 1)  more == Texts(fmt)
    <3>4. /\ n \in Nat /\ n + 1 = fmt
          /\ texts \in [1 .. n -> Seq(Glyphs)] /\ more \in [1 .. n + 1 -> Seq(Glyphs)]
          /\ \A i \in 1 .. n : more[i] = texts[i]
          /\ more[n + 1] = Field(format[fmt])
      BY <2>2, <3>1 DEF Texts
    <3>. HIDE DEF n, texts, more
    <3>5. FlattenSeq(more) = FlattenSeq(texts) \o more[n + 1]
      BY <3>4, FlattenMore
    <3>. QED
      BY <2>1, <3>3, <3>4, <3>5 DEF texts, more
  <2>4. Agreed(fmt - 1)' <=> Agreed(fmt)
    BY <2>1, <2>2 DEF Agreed
  <2>5. Texts(fmt - 1)' = Texts(fmt)
    BY <2>1, <2>2 DEF Texts
  <2>. QED
    BY <1>0, <2>1, <2>2, <2>3, <2>4, <2>5 DEF Written
<1>2. CASE Terminate
  <2>1. /\ format_pc = "loop" /\ format_pc' = "done" /\ buffer' = Append(buffer, "NUL")
        /\ UNCHANGED <<format, fmt>>
    BY <1>2 DEF Terminate
  <2>2. (Agreed(fmt - 1)' <=> Agreed(fmt - 1)) /\ Texts(fmt - 1)' = Texts(fmt - 1)
    BY <2>1 DEF Agreed, Texts
  <2>. QED
    BY <2>1, <2>2 DEF Written
<1>3. CASE UNCHANGED format_vars
  BY <1>3 DEF format_vars, Written, Agreed, Texts
<1>. QED
  BY <1>1, <1>2, <1>3 DEF __sprintf_internal

(* A finished text is the one C prescribes, as far as it goes              *)
(* (sprintf.c:34-197), where the code does as C does (AsInC).              *)
THEOREM TextIsStandard == FormatSpec => []FormatsLikeC
<1>1. Written => FormatsLikeC
  BY DEF Written, FormatsLikeC, Agreed, Texts
<1>. QED
  BY <1>1, WrittenInit, WrittenStep, PTL DEF FormatSpec
=============================================================================
