-------------------------------- MODULE IniFile --------------------------------
(***************************************************************************)
(* The text of the configuration file, line by line, as far as minIni and  *)
(* Config tell lines apart: what ini_browse reads out of it for Config,    *)
(* what SetConfigValues puts into it, and what ini_putsection should make  *)
(* of a file.                                                              *)
(*                                                                         *)
(* Lines fit into LocalBuffer.  The number in an entry stands for its text *)
(* (module Config says what the texts mean).                               *)
(***************************************************************************)
EXTENDS Integers, Sequences, SequencesExt

(* [values], a section whose name differs from it in case, another one *)
Sections == {"values", "Values", "other"}

Heading(s, indented) == [kind |-> "heading", section |-> s, indented |-> indented]
Bracket(indented)    == [kind |-> "bracket", indented |-> indented] \* '[' without a ']'
Entry(k, n)          == [kind |-> "entry", key |-> k, text |-> n]
Text                 == [kind |-> "text"]   \* a comment, or nothing that parses
Blank                == [kind |-> "blank"]  \* nothing but the line terminator

(* Where the loops of ini_putsection stop: the first one at the section,   *)
(* compared without case; the second one at anything with a bracket.       *)
Matches(line) == line.kind = "heading" /\ line.section \in {"values", "Values"}
Bracketed(line) == line.kind \in {"heading", "bracket"}

(* ini_browse wants the closing bracket too, and BrowseIniFunc compares    *)
(* with case; the last entry for a key stands.                             *)
IsRead(file, i) ==
    /\ file[i].kind = "entry"
    /\ \E h \in 1 .. i - 1 :
          /\ file[h].kind = "heading" /\ file[h].section = "values"
          /\ \A j \in h + 1 .. i - 1 : file[j].kind # "heading"

Read(file) ==
    LET places(k) == {i \in DOMAIN file : IsRead(file, i) /\ file[i].key = k}
        keys == {file[i].key : i \in {j \in DOMAIN file : IsRead(file, j)}} IN
    [k \in keys |-> file[Max(places(k))].text]

(* putsection: no section at all when there is nothing to write *)
Section(vals) ==
    LET keys == SetToSeq(DOMAIN vals) IN
    IF keys = <<>> THEN <<>>
    ELSE <<Heading("values", FALSE)>>
         \o [i \in DOMAIN keys |-> Entry(keys[i], vals[keys[i]])] \o <<Blank>>
-------------------------------------------------------------------------------
(* What a rewrite should do: put the section in the place of the first one *)
(* that matches, or at the end.                                            *)

First(file) == CHOOSE i \in 1 .. Len(file) + 1 :
    /\ i <= Len(file) => Matches(file[i])
    /\ \A j \in 1 .. i - 1 : ~Matches(file[j])

Following(file) == CHOOSE i \in First(file) + 1 .. Len(file) + 1 :
    /\ i <= Len(file) => Bracketed(file[i])
    /\ \A j \in First(file) + 1 .. i - 1 : ~Bracketed(file[j])

Replaced(file, vals) ==
    IF \E i \in DOMAIN file : Matches(file[i])
    THEN SubSeq(file, 1, First(file) - 1) \o Section(vals)
         \o SubSeq(file, Following(file), Len(file))
    ELSE file \o Section(vals)
================================================================================
