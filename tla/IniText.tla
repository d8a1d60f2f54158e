-------------------------------- MODULE IniText --------------------------------
(***************************************************************************)
(* The text behind the '=' of a line, character by character: what         *)
(* writekey makes of a value and what getkeystring and ini_browse make of  *)
(* the text.  Both directions copy through a buffer of a given size.       *)
(***************************************************************************)
EXTENDS Integers, Sequences, SequencesExt

Quote == "\""
Backslash == "\\"
Comment == ";"                 \* '#' is treated alike everywhere
Blanks == {" ", "\t"}          \* isspace, for minIni: '\0' < c <= ' '

At(s, i, c) == i \in DOMAIN s /\ s[i] = c

(* skipleading, striptrailing *)
SkipLeading(s) ==
    LET first == SelectInSeq(s, LAMBDA c : c \notin Blanks) IN
    IF first = 0 THEN <<>> ELSE SubSeq(s, first, Len(s))

StripTrailing(s) == SubSeq(s, 1, SelectLastInSeq(s, LAMBDA c : c \notin Blanks))
-------------------------------------------------------------------------------
(* ini_strncpy, into a buffer of maxlen characters with the final '\0'     *)

CopyNone(s, maxlen) == SubSeq(s, 1, Min({Len(s), maxlen - 1}))

(* Every quote with a backslash before it, up to a character *)
Escaped(s) ==
    LET escaped[i \in 0 .. Len(s)] ==
            IF i = 0 THEN <<>>
            ELSE escaped[i - 1] \o IF s[i] = Quote THEN <<Backslash, Quote>> ELSE <<s[i]>>
    IN escaped

(* Between two quotes, as much as fits.  Two characters that do not fit    *)
(* together are left out together.                                         *)
CopyEnquote(s, maxlen) ==
    LET escaped == Escaped(s)
        fitting == {i \in 0 .. Len(s) : Len(escaped[i]) <= maxlen - 3}
    IN IF maxlen < 3 THEN CopyNone(s, maxlen)
       ELSE <<Quote>> \o escaped[Max(fitting)] \o <<Quote>>

(* A quote after a quote or a backslash stands for both. *)
Unescaped(s) ==
    LET unescaped[i \in 1 .. Len(s) + 2] ==
            IF i > Len(s) THEN <<>>
            ELSE IF s[i] \in {Quote, Backslash} /\ At(s, i + 1, Quote)
            THEN <<Quote>> \o unescaped[i + 2]
            ELSE <<s[i]>> \o unescaped[i + 1]
    IN unescaped

CopyDequote(s, maxlen) == CopyNone(Unescaped(s)[1], maxlen)
-------------------------------------------------------------------------------
(* mutant of NeedsQuotes: only for what would be taken for a comment *)
NeedsQuotesComment(v) == \E i \in DOMAIN v : v[i] = Comment

(* check_enquote *)
NeedsQuotes(v) ==
    \/ \E i \in DOMAIN v : v[i] \in {Quote, Comment}
    \/ At(v, Len(v), " ")

(* writekey, for the value *)
RawText(v, maxlen) == IF NeedsQuotes(v) THEN CopyEnquote(v, maxlen) ELSE CopyNone(v, maxlen)

(* cleanstring: where a comment begins that is in no string, from a        *)
(* character on, in a string or not                                        *)
CommentFrom(s) ==
    LET from[i \in 1 .. Len(s) + 2] == [inString \in BOOLEAN |->
            IF i > Len(s) THEN Len(s) + 1
            ELSE IF s[i] = Comment /\ ~inString THEN i
            ELSE IF s[i] \in {Quote, Backslash} /\ At(s, i + 1, Quote) THEN from[i + 2][inString]
            ELSE IF s[i] = Quote THEN from[i + 1][~inString]
            ELSE from[i + 1][inString]]
    IN from

CommentStart(s) == CommentFrom(s)[1][FALSE]

(* skipleading, cleanstring and the copy to a buffer of a given size *)
ReadText(raw, size) ==
    LET text == SkipLeading(raw)
        s == StripTrailing(SubSeq(text, 1, CommentStart(text) - 1)) IN
    IF At(s, 1, Quote) /\ At(s, Len(s), Quote)
    THEN CopyDequote(SubSeq(s, 2, Len(s) - 1), size)
    ELSE CopyNone(s, size)
-------------------------------------------------------------------------------
Digits == <<"0", "1", "2", "3", "4", "5", "6", "7", "8", "9">>
Digit(n) == Digits[n + 1]
DigitOf(c) == CHOOSE d \in 0 .. 9 : Digit(d) = c

(* long2str, as ini_putl calls it: C's division by ten rounds to zero and   *)
(* its remainder has the sign of the number, whose lowest digit is the      *)
(* remainder without its sign. The number itself is never negated: the most *)
(* negative one has no opposite at the width of a long.                     *)
Quotient(n) == IF n < 0 THEN (n + 9) \div 10 ELSE n \div 10
ABS(n) == IF n < 0 THEN -n ELSE n
LastDigit(n) == Digit(ABS(n - 10 * Quotient(n)))

Decimal(value) ==
    LET digits[n \in IF value < 0 THEN value .. 0 ELSE 0 .. value] ==
            IF Quotient(n) = 0 THEN <<LastDigit(n)>>
            ELSE digits[Quotient(n)] \o <<LastDigit(n)>>
    IN digits[value]

Long2Str(value) == IF value < 0 THEN <<"-">> \o Decimal(value) ELSE Decimal(value)

(* ini_getl of a decimal text *)
Number(digits) ==
    LET number[i \in 0 .. Len(digits)] ==
            IF i = 0 THEN 0
            ELSE 10 * number[i - 1] + DigitOf(digits[i])
    IN number[Len(digits)]

GetL(text, default) ==
    IF text = <<>> THEN default
    ELSE IF text[1] = "-" THEN -Number(Tail(text)) ELSE Number(text)
================================================================================
