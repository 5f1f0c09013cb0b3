------------------------------ MODULE Console ------------------------------
(***************************************************************************)
(* kernel/kprintf.c on kernel/tty/tty.c: one cursor, one theme and one     *)
(* static buffer, used by the interrupted code, by a timer callback in the *)
(* middle of it, and by a panic in the middle of either.                   *)
(*                                                                         *)
(* One step is one statement that touches the shared state.  Characters    *)
(* are "c" (any that is displayed), "\t", "\n" and "\r"; what is on the    *)
(* screen is left out, where the next character goes is kept.              *)
(*                                                                         *)
(* A message is a sequence of elements, as the format string has them: an  *)
(* ordinary character, or the field a conversion makes (see Format).  The  *)
(* limit is tested before an element, so a long field is written over the  *)
(* end of the buffer; the memory there, which belongs to others, is kept   *)
(* as far as a field can reach.                                            *)
(***************************************************************************)
EXTENDS Integers, Sequences

CONSTANTS
  TTY_WIDTH, TTY_HEIGHT,
  BUF,           \* MAX_KPRINTF_BUF_SIZE
  MAX_FIELD,     \* length of the longest element
  Messages       \* [level, elements]: what is printed

LAST == BUF - 2 + MAX_FIELD
Chars == {"c", "\t", "\n", "\r"}
Contexts == {"main", "timer", "panic"}

ASSUME ConsoleAssumption ==
  /\ TTY_WIDTH \in Nat \ {0} /\ TTY_HEIGHT \in Nat \ {0}
  /\ BUF \in Nat \ {0} /\ MAX_FIELD \in Nat \ {0}
  /\ \A m \in Messages :
       /\ Len(m.elements) \in Nat
       /\ \A k \in 1 .. Len(m.elements) :
            m.elements[k] \in Seq(Chars) /\ Len(m.elements[k]) <= MAX_FIELD

VARIABLES
  tty_x, tty_y, tty_theme_color,   \* tty.c
  buf,           \* kprintf.c: 0 .. BUF - 1, and what is behind up to LAST
  pc,            \* per context, where it is
  msg,           \* per context, the message it prints
  elem,          \* per context, elements it has begun to write
  rest,          \* per context, what is left of the element it writes
  ptr,           \* per context, the index it writes or reads in buf
  current_theme  \* per context, on its stack

cursor == <<tty_x, tty_y>>
stack == <<msg, elem, rest, ptr, current_theme>>
vars == <<cursor, tty_theme_color, buf, pc, stack>>

Init ==
  /\ tty_x = 0 /\ tty_y = 0 /\ tty_theme_color = "default"
  /\ buf = [i \in 0 .. LAST |-> IF i < BUF THEN "NUL" ELSE "others"]
  /\ pc = [c \in Contexts |-> "idle"]
  /\ msg \in [Contexts -> Messages]
  /\ elem = [c \in Contexts |-> 0] /\ rest = [c \in Contexts |-> <<>>]
  /\ ptr = [c \in Contexts |-> 0]
  /\ current_theme = [c \in Contexts |-> "default"]

(* Handlers run with interrupts off and return to what they interrupted.   *)
Runs(c) ==
  /\ c = "main" => pc["timer"] = "idle"
  /\ c # "panic" => pc["panic"] = "idle"

Step(c, here, there) ==
  /\ Runs(c) /\ pc[c] = here /\ pc' = [pc EXCEPT ![c] = there]

-----------------------------------------------------------------------------
(* __kprintf, lines 12 to 43.                                              *)

(* Seeded fault: the theme is kept in one variable for all.                *)
Enter_StaticTheme(c, m) ==
  /\ Step(c, "idle", "theme")
  /\ msg' = [msg EXCEPT ![c] = m]
  /\ current_theme' = [k \in Contexts |-> tty_theme_color]
  /\ UNCHANGED <<cursor, tty_theme_color, buf, elem, rest, ptr>>

Enter(c, m) ==
  /\ Step(c, "idle", "theme")
  /\ msg' = [msg EXCEPT ![c] = m]
  /\ current_theme' = [current_theme EXCEPT ![c] = tty_theme_color]
  /\ UNCHANGED <<cursor, tty_theme_color, buf, elem, rest, ptr>>

SetTheme(c) ==
  /\ Step(c, "theme", "format")
  /\ tty_theme_color' = CASE msg[c].level = "1" -> "brown"
                          [] msg[c].level = "2" -> "red"
                          [] OTHER -> tty_theme_color
  /\ ptr' = [ptr EXCEPT ![c] = 0] /\ elem' = [elem EXCEPT ![c] = 0]
  /\ UNCHANGED <<cursor, buf, msg, rest, current_theme>>

(* __sprintf_internal into buf (sprintf.c:34-197).                         *)
(* Seeded fault: the limit leaves no room for the NUL.                     *)
Room_NoNul(c) == elem[c] < Len(msg[c].elements) /\ ptr[c] < BUF

(* Another element, and the test of sprintf.c:35.                          *)
Room(c) == elem[c] < Len(msg[c].elements) /\ ptr[c] < BUF - 1

FormatElement(c) ==
  /\ rest[c] = <<>> /\ Room(c)
  /\ Step(c, "format", "format")
  /\ elem' = [elem EXCEPT ![c] = @ + 1]
  /\ rest' = [rest EXCEPT ![c] = msg[c].elements[elem[c] + 1]]
  /\ UNCHANGED <<cursor, tty_theme_color, buf, msg, ptr, current_theme>>

FormatChar(c) ==
  /\ rest[c] # <<>>
  /\ Step(c, "format", "format")
  /\ buf' = [buf EXCEPT ![ptr[c]] = Head(rest[c])]
  /\ ptr' = [ptr EXCEPT ![c] = @ + 1]
  /\ rest' = [rest EXCEPT ![c] = Tail(@)]
  /\ UNCHANGED <<cursor, tty_theme_color, msg, elem, current_theme>>

FormatEnd(c) ==
  /\ rest[c] = <<>> /\ ~Room(c)
  /\ Step(c, "format", "str")
  /\ buf' = [buf EXCEPT ![ptr[c]] = "NUL"]
  /\ ptr' = [ptr EXCEPT ![c] = 0]
  /\ UNCHANGED <<cursor, tty_theme_color, msg, elem, rest, current_theme>>

Restore(c) ==
  /\ buf[ptr[c]] = "NUL"
  /\ Step(c, "str", IF c = "panic" THEN "spin" ELSE "idle")
  /\ tty_theme_color' = IF c = "panic" THEN tty_theme_color ELSE current_theme[c]
  /\ UNCHANGED <<cursor, buf, stack>>

(* kprint_panic, up to its __sprintf_internal.                             *)
kprint_panic(m) ==
  /\ Step("panic", "idle", "format")
  /\ msg' = [msg EXCEPT !["panic"] = m]
  /\ ptr' = [ptr EXCEPT !["panic"] = 0] /\ elem' = [elem EXCEPT !["panic"] = 0]
  /\ tty_theme_color' = "panic"
  /\ tty_x' = 0 /\ tty_y' = 11 % TTY_HEIGHT
  /\ UNCHANGED <<buf, rest, current_theme>>

-----------------------------------------------------------------------------
(* tty_put_str and tty_put_char.                                           *)

Char(c) == buf[ptr[c]]

(* The switch of lines 36-50 up to its first store to the cursor.          *)
Switch(c) ==
  /\ Char(c) # "NUL"
  /\ Step(c, "str", IF Char(c) = "\n" THEN "cr" ELSE IF Char(c) = "c" THEN "inc" ELSE "wrap")
  /\ tty_x' = IF Char(c) = "\t" THEN tty_x + 4 ELSE IF Char(c) = "\r" THEN 0 ELSE tty_x
  /\ tty_y' = IF Char(c) = "\n" THEN tty_y + 1 ELSE tty_y
  /\ ptr' = [ptr EXCEPT ![c] = @ + 1]
  /\ UNCHANGED <<tty_theme_color, buf, msg, elem, rest, current_theme>>

CarriageReturn(c) ==
  /\ Step(c, "cr", "wrap")
  /\ tty_x' = 0
  /\ UNCHANGED <<tty_y, tty_theme_color, buf, stack>>

Advance(c) ==
  /\ Step(c, "inc", "wrap")
  /\ tty_x' = tty_x + 1
  /\ UNCHANGED <<tty_y, tty_theme_color, buf, stack>>

(* The test of line 52 and the two stores after it.                        *)
Wrap(c) ==
  /\ Step(c, "wrap", IF tty_x >= TTY_WIDTH THEN "wrap_x" ELSE "bottom")
  /\ UNCHANGED <<cursor, tty_theme_color, buf, stack>>

WrapX(c) ==
  /\ Step(c, "wrap_x", "wrap_y")
  /\ tty_x' = 0
  /\ UNCHANGED <<tty_y, tty_theme_color, buf, stack>>

WrapY(c) ==
  /\ Step(c, "wrap_y", "bottom")
  /\ tty_y' = tty_y + 1
  /\ UNCHANGED <<tty_x, tty_theme_color, buf, stack>>

(* The test of line 56.                                                    *)
Bottom(c) ==
  /\ Step(c, "bottom", IF tty_y >= TTY_HEIGHT THEN "scroll" ELSE "str")
  /\ UNCHANGED <<cursor, tty_theme_color, buf, stack>>

(* Seeded fault: one line too far down.                                    *)
tty_scroll_up_Below(c) ==
  /\ Step(c, "scroll", "str")
  /\ tty_y' = IF tty_y = 0 THEN 0 ELSE TTY_HEIGHT
  /\ UNCHANGED <<tty_x, tty_theme_color, buf, stack>>

tty_scroll_up(c) ==
  /\ Step(c, "scroll", "str")
  /\ tty_y' = IF tty_y = 0 THEN 0 ELSE TTY_HEIGHT - 1
  /\ UNCHANGED <<tty_x, tty_theme_color, buf, stack>>

tty_put_char(c) ==
  \/ Switch(c) \/ CarriageReturn(c) \/ Advance(c) \/ Wrap(c) \/ WrapX(c)
  \/ WrapY(c) \/ Bottom(c) \/ tty_scroll_up(c)

__kprintf(c) ==
  \/ SetTheme(c) \/ FormatElement(c) \/ FormatChar(c) \/ FormatEnd(c)
  \/ tty_put_char(c) \/ Restore(c)

Next ==
  \/ \E c \in {"main", "timer"}, m \in Messages : Enter(c, m)
  \/ \E m \in Messages : kprint_panic(m)
  \/ \E c \in Contexts : __kprintf(c)

Spec == Init /\ [][Next]_vars

-----------------------------------------------------------------------------
(* Whoever reads the buffer finds a NUL, and only text before it, however  *)
(* many messages were formatted over the one it prints (kprintf.c:40-41,   *)
(* tty.c:64); also when one of them has overwritten the last byte of the   *)
(* buffer (sprintf.c:35): then behind it, by less than the longest         *)
(* element.  The owner of that memory does not write to it meanwhile.      *)
Printing(c) == pc[c] \notin {"idle", "theme", "format", "spin"}

StringEnds ==
  \A c \in Contexts : Printing(c) /\ Runs(c) =>
    \E i \in ptr[c] .. LAST :
      buf[i] = "NUL" /\ \A k \in ptr[c] .. i : buf[k] # "others"

(* However messages interrupt each other, the colours are those of before  *)
(* when all are out (kprintf.c:15, 42).                                    *)
ThemeRestored ==
  (\A c \in Contexts : pc[c] = "idle") => tty_theme_color = "default"

(* A character is put inside of the screen (tty.c:47), although the cursor *)
(* is moved and tested in several statements.  Excepted is a callback that *)
(* comes in the middle of a character: it may find the cursor outside.     *)
InChar(c) == Printing(c) /\ pc[c] # "str"

OnScreen ==
  \A c \in Contexts :
    Runs(c) /\ pc[c] = "str" /\ Char(c) = "c" /\ ~(c = "timer" /\ InChar("main")) =>
      tty_x \in 0 .. TTY_WIDTH - 1 /\ tty_y \in 0 .. TTY_HEIGHT - 1
=============================================================================
