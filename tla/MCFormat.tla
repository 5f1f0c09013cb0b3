------------------------------ MODULE MCFormat ------------------------------
EXTENDS Format

Element1(flags, width, precision, conv, arg) ==
  [flags |-> flags, width |-> width, precision |-> precision, conv |-> conv, arg |-> arg]

Char == Element1({}, -1, -1, "char", "k")

Conversions ==
  LET flags == SUBSET {"#", "0", "-", " ", "+"}
      widths == {-3, -1, 2, 4}
      precisions == {-1, 0, 3}
  IN  {Element1(f, w, p, c, a) : f \in flags, w \in widths, p \in precisions,
                                 c \in {"d", "u", "x", "X", "p"}, a \in {0, 7, 11, 31, 32, 53}}
      \cup {Element1(f, w, p, "s", s) : f \in flags, w \in widths, p \in precisions,
                                 s \in {<<>>, <<"k">>, <<"k", "s", "k">>}}
      \cup {Element1(f, w, -1, c, a) : f \in flags, w \in widths, c \in {"c", "%"},
                                 a \in {"k", "NUL"}}

(* Every conversion alone, and short messages around a long field.         *)
MCFormats ==
  {<<e>> : e \in Conversions}
  \cup {<<Char, e, Char>> : e \in {Element1({"0"}, 2, -1, "u", 7), Element1({}, 4, -1, "x", 53)}}
  \cup {[i \in 1 .. n |-> Char] : n \in 0 .. 6}
=============================================================================
