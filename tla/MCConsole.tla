----------------------------- MODULE MCConsole -----------------------------
EXTENDS Console

(* A message with a field that ends behind the buffer, one that is cut off *)
(* before such a field, one that wraps, control characters.                *)
MCMessages ==
  {[level |-> "0", elements |-> <<<<"c">>, <<"c">>, <<"c", "c", "c">>>>],
   [level |-> "0", elements |-> <<<<"c">>, <<"c">>, <<"c">>, <<"c", "c", "c">>>>],
   [level |-> "1", elements |-> <<<<"\t">>, <<"c">>, <<"\r">>>>],
   [level |-> "2", elements |-> <<<<>>, <<"c">>, <<"\n">>, <<"\n">>>>]}
=============================================================================
