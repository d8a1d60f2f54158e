------------------------------- MODULE PutString -------------------------------
(***************************************************************************)
(* ini_puts and ini_putl of minIni.c, and the functions that read single   *)
(* settings back: ini_gets, ini_getl, ini_getsection, ini_getkey.  ini_puts *)
(* writes one key, deletes one, or deletes a section; it shares its buffer *)
(* and the copying of lines with ini_putsection (module PutSection).       *)
(*                                                                         *)
(* An entry holds its raw text, as in module IniText.  Keys are one        *)
(* character long.  Opening, reading and writing succeed here.             *)
(***************************************************************************)
EXTENDS PutSection, IniText

CONSTANTS
    None,        \* the null pointer
    PutFiles,    \* files that may be found
    Settings,    \* arguments ini_puts is called with when there is a file ...
    Values,      \* ... and values it writes to a new one
    Numbers,     \* values of ini_putl among them
    LineSize     \* INI_BUFFERSIZE, in characters

ASSUME PutFilesAssumption == \A f \in PutFiles : f \in Seq(Range(f))
ASSUME SettingsAssumption ==
    \A s \in Settings : s.section \in {None, "values", "Values"}
ASSUME ValuesAssumption ==
    \A v \in Values \cup {s.value : s \in Settings} : v # None => v \in Seq(Range(v))
ASSUME LineAssumption == LineSize \in Nat /\ LineSize >= 8
ASSUME NumbersAssumption ==
    \A n \in Numbers : n \in Int /\ Len(Long2Str(n)) <= LineSize - 5

VARIABLES
    setting,     \* [section, key, value]
    exists       \* the file exists

putVars == <<vars, setting, exists>>
puts == <<inputs, setting, exists>>

(* _tcsnicmp on the keys that occur *)
SameKey(k, l) == k = l \/ {k, l} = {"k", "K"}

Setting(s, k, v) == [section |-> s, key |-> k, value |-> v]
Writes == setting.key # None /\ setting.value # None

PutInit ==
    /\ \/ /\ exists = TRUE
          /\ file \in PutFiles
          /\ setting \in Settings
       \/ /\ exists = FALSE
          /\ file = <<>>
          /\ setting \in Settings \cup {Setting("values", "k", v) : v \in Values}
    /\ terminated \in BOOLEAN
    /\ ~terminated => file # <<>> /\ Last(file) # Blank
    /\ vals = [k \in {} |-> <<>>]
    /\ pc = "puts"
    /\ rpos = 1
    /\ mark = 1
    /\ cachelen = 0
    /\ buffer = Text
    /\ wiped = FALSE
    /\ out = <<>>
-------------------------------------------------------------------------------
(* Reading                                                                 *)

(* The line of a section's heading; 0 for the keys above all of them *)
SectionLines(lines, s) == IF s = None THEN {0} ELSE {h \in DOMAIN lines : Matches(lines[h])}

(* getkeystring: the key has to stand before the next bracket *)
KeyLines(lines, s, k) ==
    {i \in DOMAIN lines :
        /\ lines[i].kind = "entry" /\ SameKey(lines[i].key, k)
        /\ SectionLines(lines, s) # {}
        /\ LET h == Min(SectionLines(lines, s)) IN
           h < i /\ \A j \in h + 1 .. i : ~Bracketed(lines[j])}

(* ini_gets, with a buffer as large as a line *)
Gets(lines, s, k, default) ==
    IF KeyLines(lines, s, k) = {} THEN default
    ELSE ReadText(lines[Min(KeyLines(lines, s, k))].text, LineSize)

(* _tcsnicmp on the names of sections *)
SameSection(s, t) == s = t \/ {s, t} \subseteq {"values", "Values"}

Headings(lines) == {h \in DOMAIN lines : lines[h].kind = "heading"}

(* mutant of Under: does not stop at the next bracket *)
UnderThrough(lines, s) ==
    {i \in DOMAIN lines :
        /\ lines[i].kind = "entry"
        /\ \E h \in Headings(lines) : h < i /\ SameSection(lines[h].section, s)}

(* The entries below the first heading with that name, up to a bracket *)
Under(lines, s) ==
    {i \in DOMAIN lines :
        /\ lines[i].kind = "entry"
        /\ \E h \in Headings(lines) :
              /\ h < i /\ SameSection(lines[h].section, s)
              /\ \A g \in Headings(lines) : g < h => ~SameSection(lines[g].section, s)
              /\ \A j \in h + 1 .. i : ~Bracketed(lines[j])}

(* getkeystring counts lines up to the one with the index. *)
HasIndex(S, i, n) == Cardinality({j \in S : j < i}) = n
WithIndex(S, n) == CHOOSE i \in S : HasIndex(S, i, n)

(* Called with one index after the other, as long as there is a line *)
Indexes(S) == {n \in 0 .. Cardinality(S) : \A k \in 0 .. n : \E i \in S : HasIndex(S, i, k)}

(* ini_getsection, and for each section that it names ini_getkey: the two  *)
(* indexes, and the line they lead to                                      *)
Enumerated(lines) ==
    LET heads == Headings(lines)
        keys(n) == Under(lines, lines[WithIndex(heads, n)].section)
    IN UNION {{<<n, m, WithIndex(keys(n), m)>> : m \in Indexes(keys(n))} : n \in Indexes(heads)}

(* ini_browse: the entries, one after the other, that are in a section *)
Browsed(lines) ==
    {i \in DOMAIN lines : lines[i].kind = "entry" /\ \E h \in Headings(lines) : h < i}
-------------------------------------------------------------------------------
(* Writing: the shortcuts                                                  *)

(* writesection, writekey *)
NewHeading == IF setting.section = None THEN <<>> ELSE <<Heading(setting.section, FALSE)>>
NewEntry == Entry(setting.key, RawText(setting.value, LineSize - 4))

Old == KeyLines(file, setting.section, setting.key)

Done(lines) ==
    /\ pc' = "done"
    /\ out' = lines
    /\ UNCHANGED <<puts, rpos, mark, cachelen, buffer, wiped>>

NewFile ==
    /\ pc = "puts"
    /\ ~exists
    /\ Done(IF Writes THEN NewHeading \o <<NewEntry>> ELSE <<>>)

(* The setting is there already. *)
SameValue == Writes /\ Old # {} /\ ReadText(file[Min(Old)].text, LineSize) = setting.value

(* The new line is as long as the old one, terminators included. *)
SameLength ==
    /\ Writes /\ Old # {}
    /\ LET i == Min(Old) IN
       Len(NewEntry.text) + 1
           = Len(file[i].text) + IF i = Len(file) /\ ~terminated THEN 0 ELSE 1

KeepValue ==
    /\ pc = "puts"
    /\ exists
    /\ SameValue
    /\ Done(file)

RewriteInPlace ==
    /\ pc = "puts"
    /\ exists
    /\ ~SameValue /\ SameLength
    /\ Done([file EXCEPT ![Min(Old)] = NewEntry])

OpenCopy ==
    /\ pc = "puts"
    /\ exists
    /\ ~SameValue /\ ~SameLength
    /\ pc' = IF setting.section = None THEN "putFound" ELSE "putSearch"
    /\ UNCHANGED <<puts, rpos, mark, cachelen, buffer, wiped, out>>
-------------------------------------------------------------------------------
(* Writing: copying the file                                               *)

(* The heading is copied with what precedes it, unless the section goes. *)
PutSearchLine ==
    /\ pc = "putSearch"
    /\ ~AtEnd
    /\ ReadLine(rpos)
    /\ IF Matches(file[rpos]) /\ setting.key = None
       THEN UNCHANGED <<mark, cachelen, out>>
       ELSE Accumulate
    /\ pc' = IF Matches(file[rpos]) THEN "putFound" ELSE pc
    /\ UNCHANGED puts

PutSearchEnd ==
    /\ pc = "putSearch"
    /\ AtEnd
    /\ Done(IF Writes THEN Ended(out \o Cached) \o NewHeading \o <<NewEntry>> ELSE out \o Cached)

(* The flush; the heading of a section that goes is skipped. *)
PutFound ==
    /\ pc = "putFound"
    /\ out' = out \o Cached
    /\ cachelen' = 0
    /\ LET next == mark + cachelen IN
       rpos' = IF setting.key = None /\ next <= Len(file) THEN next + 1 ELSE next
    /\ mark' = rpos'
    /\ pc' = "putKeys"
    /\ UNCHANGED <<puts, buffer, wiped>>

IsKey(line) == setting.key # None /\ line.kind = "entry" /\ SameKey(line.key, setting.key)

(* mutant of PutKeyLine: goes back to the mark instead of moving it *)
PutKeyLineBack ==
    /\ pc = "putKeys"
    /\ ~AtEnd
    /\ buffer' = file[rpos]
    /\ wiped' = FALSE
    /\ IF IsKey(file[rpos]) \/ Bracketed(file[rpos])
       THEN rpos' = rpos + 1 /\ pc' = "putKey" /\ UNCHANGED <<mark, cachelen, out>>
       ELSE /\ pc' = pc
            /\ IF setting.key = None
               THEN rpos' = mark /\ UNCHANGED <<mark, cachelen, out>>
               ELSE rpos' = rpos + 1 /\ Accumulate
    /\ UNCHANGED puts

PutKeyLine ==
    /\ pc = "putKeys"
    /\ ~AtEnd
    /\ ReadLine(rpos)
    /\ IF IsKey(file[rpos]) \/ Bracketed(file[rpos])
       THEN pc' = "putKey" /\ UNCHANGED <<mark, cachelen, out>>
       ELSE pc' = pc /\ IF setting.key = None
                        THEN mark' = rpos' /\ UNCHANGED <<cachelen, out>>
                        ELSE Accumulate
    /\ UNCHANGED puts

PutKeysEnd ==
    /\ pc = "putKeys"
    /\ AtEnd
    /\ Done(IF Writes THEN Ended(out \o Cached) \o <<NewEntry>> ELSE out \o Cached)

(* mutant of PutKey: forgets the line it stopped at, whatever it is *)
PutKeyForgetting ==
    /\ pc = "putKey"
    /\ out' = out \o Cached \o IF Writes THEN <<NewEntry>> ELSE <<>>
    /\ ReadLine(mark + cachelen)
    /\ cachelen' = 0
    /\ mark' = rpos'
    /\ pc' = "rest"
    /\ UNCHANGED puts

(* The flush takes the read position back to the line the loop stopped at; *)
(* it is read again, and is the first line of the rest or the old key.     *)
PutKey ==
    /\ pc = "putKey"
    /\ out' = out \o Cached \o IF Writes THEN <<NewEntry>> ELSE <<>>
    /\ ReadLine(mark + cachelen)
    /\ cachelen' = IF Bracketed(buffer) THEN 1 ELSE 0
    /\ mark' = IF Bracketed(buffer) THEN mark + cachelen ELSE rpos'
    /\ pc' = "rest"
    /\ UNCHANGED puts

(* The rest is copied as in ini_putsection. *)
PutRest == (RestLine \/ RestEnd) /\ UNCHANGED <<setting, exists>>

PutReturned == pc = "done" /\ UNCHANGED putVars

PutNext ==
    \/ NewFile \/ KeepValue \/ RewriteInPlace \/ OpenCopy
    \/ PutSearchLine \/ PutSearchEnd \/ PutFound \/ PutKeyLine \/ PutKeysEnd \/ PutKey
    \/ PutRest \/ PutReturned

PutSpec == PutInit /\ [][PutNext]_putVars
-------------------------------------------------------------------------------
(* What ini_puts should do: put the line in the place of the first line    *)
(* with that key, or at the end of the section, or behind the file;        *)
(* or take out the key, or the section down to the next bracket.           *)
Edited ==
    LET heads == SectionLines(file, setting.section)
        h == Min(heads)
        end == Min({i \in h + 1 .. Len(file) + 1 : i <= Len(file) => Bracketed(file[i])}) IN
    IF Writes THEN
        IF SameValue THEN file
        ELSE IF Old # {} THEN [file EXCEPT ![Min(Old)] = NewEntry]
        ELSE IF heads # {} THEN InsertAt(file, end, NewEntry)
        ELSE file \o NewHeading \o <<NewEntry>>
    ELSE IF setting.key # None THEN IF Old # {} THEN RemoveAt(file, Min(Old)) ELSE file
    ELSE IF heads = {} THEN file
    ELSE SubSeq(file, 1, h - 1) \o SubSeq(file, end, Len(file))

(* Deleting the keys above the first section skips the first line as if it *)
(* were the heading of a section: a heading there is lost.                 *)
LosesHeading ==
    setting.section = None /\ setting.key = None /\ file # <<>> /\ Bracketed(file[1])

(* However the lines are accumulated, flushed and read again, ini_puts     *)
(* changes the one line (or section) it was asked to and keeps all others, *)
(* each in its place; what it adds behind the file may follow a blank line. *)
EditsOneKey ==
    pc = "done" /\ exists /\ ~LosesHeading =>
        \/ out = Edited
        \/ /\ Writes
           /\ \E added \in {<<NewEntry>>, NewHeading \o <<NewEntry>>} :
                 Edited = file \o added /\ out = Append(file, Blank) \o added

(* What test.c expects of every write: ini_gets returns the value, with    *)
(* the quotes, semicolons, backslashes and blanks in it -- or the          *)
(* beginning of it, if the line cannot hold it all.  Blanks around it      *)
(* survive only where the value is put between quotes, or was there        *)
(* already.  Numbers written by ini_putl are read back by ini_getl, the    *)
(* most negative one too.                                                  *)
PutIsGot ==
    pc = "done" /\ Writes =>
        LET v == setting.value
            kept == IF NeedsQuotes(v) THEN v ELSE StripTrailing(SkipLeading(v))
            fits == RawText(v, LineSize - 4) = RawText(v, 2 * Len(v) + 4)
            got == Gets(out, setting.section, setting.key, None) IN
        /\ IF exists /\ SameValue THEN got = v
           ELSE IF fits THEN got = kept
           ELSE IsPrefix(got, v) \/ IsPrefix(got, SkipLeading(v))
        /\ \A n \in Numbers : v = Long2Str(n) => GetL(got, 0) = n

(* No section occurs twice, and no bracket stands alone. *)
SectionsDiffer(lines) ==
    /\ \A i \in DOMAIN lines : lines[i].kind # "bracket"
    /\ \A g, h \in Headings(lines) : SameSection(lines[g].section, lines[h].section) => g = h

(* The two ways test.c lists a file agree: going through the sections and  *)
(* their keys by index, until there is no next one, comes to the entries   *)
(* ini_browse hands to its callback, each once and in the same order.      *)
EnumerationIsBrowse ==
    pc = "done" /\ SectionsDiffer(out) =>
        /\ {p[3] : p \in Enumerated(out)} = Browsed(out)
        /\ \A p, q \in Enumerated(out) :
              p[1] < q[1] \/ (p[1] = q[1] /\ p[2] < q[2]) => p[3] < q[3]

(* ini_puts comes to an end: within a loop every step leaves fewer lines to *)
(* read, although the flushes go back in the file, and no loop is entered  *)
(* again.  (That none is stuck before its end is the check for deadlock.)  *)
Loop(at) == CHOOSE i \in 1 .. 7 :
    <<"puts", "putSearch", "putFound", "putKeys", "putKey", "rest", "done">>[i] = at

PutAdvances ==
    [][Loop(pc') > Loop(pc) \/ (pc' = pc /\ rpos' > rpos)]_putVars
================================================================================
