------------------------------- MODULE Format -------------------------------
(***************************************************************************)
(* libs/klibc: __sprintf_internal with itoa and the string functions it    *)
(* calls, one element of the format string per step.                       *)
(*                                                                         *)
(* Characters are one-letter strings, texts sequences of them.  A format   *)
(* is a sequence of elements: an ordinary character, or a conversion with  *)
(* the flags, width and precision the parser of lines 44-81 finds (-1 for  *)
(* none; a width given by * may be negative) and its argument.  An int and *)
(* a long have the same size, so the modifiers l and z change nothing.     *)
(***************************************************************************)
EXTENDS Integers, Sequences, SequencesExt, FiniteSetsExt

CONSTANTS
  WORD,          \* values of an int: 2^32 in the code
  Formats,       \* sequences of elements
  Limits         \* values of max_len, 0 for none

(* What the parser finds, and an argument of the type that is read for it. *)
IsElement(e) ==
  /\ e.flags \subseteq {"#", "0", "-", " ", "+"}
  /\ e.width \in Int /\ e.precision \in Nat \cup {-1}
  /\ \/ e.conv \in {"d", "u", "x", "X", "p"} /\ e.arg \in 0 .. WORD - 1
     \/ e.conv = "s" /\ e.arg \in Seq(STRING)
     \/ e.conv = "c" /\ e.arg \in STRING
     \/ e.conv = "char" /\ e.arg \in STRING /\ e.width = -1
     \/ e.conv = "%"

ASSUME FormatAssumption ==
  /\ WORD \in Nat /\ WORD >= 32 /\ WORD % 2 = 0
  /\ Limits \subseteq Nat
  /\ \A f \in Formats : Len(f) \in Nat /\ \A i \in 1 .. Len(f) : IsElement(f[i])

(* Named so that ConsoleProofs can extend this module beside Console.      *)
VARIABLES
  format,        \* the format string
  fmt,           \* the element that is next
  max_len,
  buffer,        \* what has been written
  longest,       \* history: length of the longest element written
  format_pc      \* "loop" or "done"

format_vars == <<format, fmt, max_len, buffer, longest, format_pc>>

-----------------------------------------------------------------------------
(* itoa.c and strlen.c.                                                    *)

base_char == <<"0", "1", "2", "3", "4", "5", "6", "7", "8", "9",
               "a", "b", "c", "d", "e", "f">>
Capital(c) == CASE c = "a" -> "A" [] c = "b" -> "B" [] c = "c" -> "C"
                [] c = "d" -> "D" [] c = "e" -> "E" [] c = "f" -> "F"
                [] OTHER -> c

__uitoa_internal(value, base) ==
  LET digits[v \in 0 .. WORD - 1] ==
        IF v < base THEN <<base_char[v + 1]>>
                    ELSE digits[v \div base] \o <<base_char[(v % base) + 1]>>
  IN  digits[value]

Signed(num) == IF num >= WORD \div 2 THEN num - WORD ELSE num

(* The parameter is an int: an unsigned argument is taken as a signed one. *)
itoa(num, base) ==
  IF Signed(num) < 0 /\ base = 10
  THEN <<"-">> \o __uitoa_internal(-Signed(num), base)
  ELSE __uitoa_internal(num, base)

(* The test of strlen.c:15 is len <= max_len: one character too many.     *)
strnlen(s, n) == Min({Len(s), n + 1})

-----------------------------------------------------------------------------
(* __sprintf_internal.                                                     *)

Numeric(e) == e.conv \in {"d", "u", "x", "X", "p"}
Base(e) == IF e.conv \in {"x", "X", "p"} THEN 16 ELSE 10
Negative(e) == e.conv = "d" /\ Signed(e.arg) < 0

(* Lines 84-147: the text of the argument without prefix and padding, up   *)
(* to its NUL.                                                             *)
Data(e) ==
  LET num == IF Negative(e) THEN (-Signed(e.arg)) % WORD ELSE e.arg
      text == itoa(num, Base(e))
  IN  CASE e.conv = "X" -> [i \in DOMAIN text |-> Capital(text[i])]
        [] e.conv \in {"d", "u", "x", "p"} -> text
        [] e.conv = "s" -> e.arg
        [] e.conv = "c" -> IF e.arg = "NUL" THEN <<>> ELSE <<e.arg>>
        [] OTHER -> <<"%">>

(* Lines 149-162.                                                          *)
Prefix(e) ==
  CASE e.conv = "d" /\ Negative(e) -> <<"-">>
    [] e.conv = "d" /\ ~Negative(e) /\ "+" \in e.flags -> <<"+">>
    [] e.conv = "d" /\ ~Negative(e) /\ "+" \notin e.flags /\ " " \in e.flags -> <<" ">>
    [] e.conv = "p" -> <<"0", "x">>
    [] e.conv \in {"x", "X"} /\ "#" \in e.flags /\ e.arg # 0 -> <<"0", "x">>
    [] OTHER -> <<>>

Repeat(c, n) == [i \in 1 .. n |-> c]

(* Seeded fault: the sign is not part of the width.                        *)
Zeros_PrefixForgotten(e, len) ==
  CASE Numeric(e) /\ e.precision >= 0 -> Max({e.precision - len, 0})
    [] Numeric(e) /\ e.precision < 0 /\ "0" \in e.flags /\ "-" \notin e.flags ->
         Max({e.width - len, 0})
    [] OTHER -> 0

(* Lines 170-179.                                                          *)
Zeros(e, len) ==
  CASE Numeric(e) /\ e.precision >= 0 -> Max({e.precision - len, 0})
    [] Numeric(e) /\ e.precision < 0 /\ "0" \in e.flags /\ "-" \notin e.flags ->
         Max({e.width - len - Len(Prefix(e)), 0})
    [] OTHER -> 0

(* Lines 149-195.                                                          *)
Converted(e) ==
  LET data == Data(e)
      len == IF e.precision >= 0 /\ ~Numeric(e) THEN strnlen(data, e.precision)
                                                ELSE Len(data)
      zeros == Zeros(e, len)
      space == Repeat(" ", e.width - len - zeros - Len(Prefix(e)))
      text == Prefix(e) \o Repeat("0", zeros) \o SubSeq(data, 1, len)
  IN  IF "-" \in e.flags THEN text \o space ELSE space \o text

Field(e) == IF e.conv = "char" THEN <<e.arg>> ELSE Converted(e)

FormatInit ==
  /\ format \in Formats /\ fmt = 1 /\ max_len \in Limits
  /\ buffer = <<>> /\ longest = 1 /\ format_pc = "loop"

(* Seeded fault: no room is kept for the NUL.                              *)
Full_NoNul == max_len # 0 /\ Len(buffer) >= max_len

Full == max_len # 0 /\ Len(buffer) >= max_len - 1

Element ==
  /\ format_pc = "loop" /\ fmt <= Len(format) /\ ~Full
  /\ buffer' = buffer \o Field(format[fmt])
  /\ longest' = Max({longest, Len(Field(format[fmt]))})
  /\ fmt' = fmt + 1
  /\ UNCHANGED <<format, max_len, format_pc>>

Terminate ==
  /\ format_pc = "loop" /\ (fmt > Len(format) \/ Full)
  /\ buffer' = Append(buffer, "NUL")
  /\ format_pc' = "done"
  /\ UNCHANGED <<format, fmt, max_len, longest>>

__sprintf_internal == Element \/ Terminate

FormatSpec == FormatInit /\ [][__sprintf_internal]_format_vars

-----------------------------------------------------------------------------
(* What C prescribes for a conversion, put together from its own rules.    *)

(* One figure per place, none for a leading zero.                          *)
Digits(n, base) ==
  LET place[k \in 0 .. WORD] == IF k = 0 THEN 1 ELSE base * place[k - 1]
      count == CHOOSE k \in 1 .. WORD : n < place[k] /\ (k = 1 \/ n >= place[k - 1])
  IN  [i \in 1 .. count |-> base_char[((n \div place[count - i]) % base) + 1]]

NumberFigures(e) ==
  LET figures == Digits(IF Negative(e) THEN -Signed(e.arg) ELSE e.arg, Base(e))
  IN  IF e.conv = "X" THEN [i \in DOMAIN figures |-> Capital(figures[i])] ELSE figures

Sign(e) ==
  CASE Negative(e) -> <<"-">>
    [] "+" \in e.flags /\ e.conv = "d" /\ ~Negative(e) -> <<"+">>
    [] {"+", " "} \cap e.flags = {" "} /\ e.conv = "d" /\ ~Negative(e) -> <<" ">>
    [] e.conv = "p" \/ (e.conv = "x" /\ "#" \in e.flags /\ e.arg # 0) -> <<"0", "x">>
    [] OTHER -> <<>>

Number(e) ==
  LET zeroFill == "0" \in e.flags /\ "-" \notin e.flags /\ e.precision < 0
      wanted == IF zeroFill THEN e.width - Len(Sign(e)) ELSE e.precision
      figures == NumberFigures(e)
  IN  Sign(e) \o [i \in 1 .. Max({wanted - Len(figures), 0}) |-> "0"] \o figures

Shown(e) ==
  CASE e.conv = "s" /\ e.precision < 0 -> e.arg
    [] e.conv = "s" /\ e.precision >= 0 -> SubSeq(e.arg, 1, Min({e.precision, Len(e.arg)}))
    [] e.conv \in {"c", "char"} -> <<e.arg>>
    [] e.conv = "%" -> <<"%">>
    [] OTHER -> Number(e)

Standard(e) ==
  LET blanks == [i \in 1 .. e.width - Len(Shown(e)) |-> " "]
  IN  IF "-" \in e.flags THEN Shown(e) \o blanks ELSE blanks \o Shown(e)

(* The conversions the code does as C does.  It does not where a number    *)
(* does not fit an int (itoa.c:30: %u of 2^31 or more, %d of the least     *)
(* integer), for a string cut short by its precision (strlen.c:15), for a *)
(* zero of precision 0, for %#X, for a negative width, and for the         *)
(* character NUL, which %c leaves out (sprintf.c:124-126).                 *)
AsInC(e) ==
  /\ e.width >= -1
  /\ e.conv \in {"d", "u"} =>
       IF e.conv = "u" THEN Signed(e.arg) >= 0 ELSE e.arg # WORD \div 2
  /\ e.conv = "s" => e.precision < 0 \/ e.precision >= Len(e.arg)
  /\ Numeric(e) => ~(e.arg = 0 /\ e.precision = 0)
  /\ e.conv = "X" => "#" \notin e.flags
  /\ e.conv = "c" => e.arg # "NUL"

(* A finished text is the one C prescribes, or what of it comes before the *)
(* element at which the limit stopped the loop (sprintf.c:34-197).         *)
FormatsLikeC ==
  LET texts == [i \in 1 .. fmt - 1 |-> Standard(format[i])]
  IN  format_pc = "done" /\ (\A i \in 1 .. fmt - 1 : AsInC(format[i])) =>
        buffer = Append(FlattenSeq(texts), "NUL")

(* The limit is tested before an element only (sprintf.c:35): what is      *)
(* written, with its NUL, exceeds max_len by less than the last element,   *)
(* and not at all if every element is one character.                       *)
LimitHolds == format_pc = "done" /\ max_len # 0 => Len(buffer) < max_len + longest
=============================================================================
