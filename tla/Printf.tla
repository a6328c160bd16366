------------------------------- MODULE Printf -------------------------------
(***************************************************************************)
(* kvprintf and ksprintf of src/common/lib/printf.c.  A text is a sequence  *)
(* of characters; a format is a sequence of literals, each a text, and      *)
(* conversions, each the letter behind the % as a string.                   *)
(***************************************************************************)
EXTENDS Integers, Sequences

\* do { buf[i++] = n % base; n /= base; } while (n), emitted backwards
Digits(base) ==
  LET D[n \in Nat] ==
        IF n < base THEN <<n>> ELSE Append(D[n \div base], n % base)
  IN D

Decimal(n) == IF n < 0 THEN <<"-">> \o Digits(10)[-n] ELSE Digits(10)[n]

\* What a conversion puts out for its argument.
Converted(letter, arg) ==
  CASE letter = "d" -> Decimal(arg)
    [] letter \in {"x", "X"} -> Digits(16)[arg]
    [] letter = "c" -> <<arg>>
    [] letter = "s" -> arg

\* Only these letters fetch an argument; "%%" puts out a %, and any other
\* letter is skipped together with the %, its argument left for the next one.
Fetches == {"c", "s", "d", "x", "X"}

\* Item: <<"lit", text>> or <<"%", letter>>
Kvprintf(format, args) ==
  LET Out[i \in 0 .. Len(format)] ==      \* text so far, arguments fetched
        IF i = 0 THEN [text |-> <<>>, used |-> 0]
        ELSE LET before == Out[i - 1]
                 item == format[i]
             IN CASE item[1] = "lit" ->
                       [before EXCEPT !.text = @ \o item[2]]
                  [] item[1] = "%" /\ item[2] \in Fetches ->
                       [text |-> before.text \o
                                 Converted(item[2], args[before.used + 1]),
                        used |-> before.used + 1]
                  [] item = <<"%", "%">> ->
                       [before EXCEPT !.text = Append(@, "%")]
                  [] OTHER -> before
  IN Out[Len(format)].text
=============================================================================
