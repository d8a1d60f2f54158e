------------------------------- MODULE PutSection -------------------------------
(***************************************************************************)
(* ini_putsection of minIni.c on a file that exists: it copies the file to *)
(* the temporary one, with the section replaced.  One read position, one   *)
(* marked position and a count of accumulated lines tell what has still to *)
(* be copied; one buffer serves for reading, for flushing and for writing. *)
(*                                                                         *)
(* Opening, closing and renaming the files are steps of module Config;     *)
(* reads and writes succeed here.                                          *)
(***************************************************************************)
EXTENDS IniFile

CONSTANTS
    Files,       \* files that may be found
    Saves,       \* sections that may be saved: functions from keys to texts
    BufferSize   \* INI_BUFFERSIZE, in lines (all count the same)

ASSUME BufferAssumption == BufferSize \in Nat \ {0, 1}
ASSUME FilesAssumption == \A f \in Files : f \in Seq(Range(f))
ASSUME SavesAssumption ==
    \A v \in Saves : IsFiniteSet(DOMAIN v) /\ v \in [DOMAIN v -> Range(v)]

VARIABLES
    file, terminated,  \* the file; whether its last line has its terminator
    vals,        \* Keys and Values
    pc,          \* the loop the function is in
    rpos,        \* number of the line read next
    mark,        \* number of the first line accumulated
    cachelen,    \* number of lines accumulated
    buffer,      \* the line in LocalBuffer ...
    wiped,       \* ... whose first character was overwritten by '\0'
    out          \* the temporary file

vars == <<file, terminated, vals, pc, rpos, mark, cachelen, buffer, wiped, out>>
inputs == <<file, terminated, vals>>

Init ==
    /\ file \in Files
    /\ terminated \in BOOLEAN
    /\ ~terminated => file # <<>> /\ Last(file) # Blank
    /\ vals \in Saves
    /\ pc = "search"
    /\ rpos = 1
    /\ mark = 1
    /\ cachelen = 0
    /\ buffer = Text
    /\ wiped = FALSE
    /\ out = <<>>

(* ini_read fails *)
AtEnd == rpos > Len(file)

(* ini_read of a line that is there *)
ReadLine(n) ==
    /\ buffer' = file[n]
    /\ wiped' = FALSE
    /\ rpos' = n + 1

(* What cache_flush reads again and writes.  (It uses the same buffer; but *)
(* where that matters, in SectionEnd, nothing is accumulated.)             *)
Cached == SubSeq(file, mark, mark + cachelen - 1)

(* mutant of Accumulate: the line that did not fit is not read again *)
AccumulateLosing ==
    IF cachelen + 1 < BufferSize
    THEN cachelen' = cachelen + 1 /\ UNCHANGED <<mark, out>>
    ELSE cachelen' = 0 /\ mark' = mark + cachelen + 1 /\ out' = out \o Cached

(* mutant of Accumulate: fills the buffer up, terminator and all *)
AccumulateFull ==
    IF cachelen + 1 <= BufferSize
    THEN cachelen' = cachelen + 1 /\ UNCHANGED <<mark, out>>
    ELSE cachelen' = 1 /\ mark' = mark + cachelen /\ out' = out \o Cached

(* cache_accum of the line just read; if it does not fit, cache_flush      *)
(* first, and read it again                                                *)
Accumulate ==
    IF cachelen + 1 < BufferSize
    THEN cachelen' = cachelen + 1 /\ UNCHANGED <<mark, out>>
    ELSE cachelen' = 1 /\ mark' = mark + cachelen /\ out' = out \o Cached
-------------------------------------------------------------------------------
(* Looking for the section                                                 *)

SearchLine ==
    /\ pc = "search"
    /\ ~AtEnd
    /\ ReadLine(rpos)
    /\ IF Matches(file[rpos])
       THEN pc' = "found" /\ UNCHANGED <<mark, cachelen, out>>
       ELSE Accumulate /\ UNCHANGED pc
    /\ UNCHANGED inputs

(* The line terminator that is written unless cache_flush says that what   *)
(* it flushed ended with one: it ends the last line, or adds a blank one.  *)
Ended(copied) ==
    IF copied = <<>> \/ (terminated /\ Cached \in {<<>>, <<Blank>>})
    THEN Append(copied, Blank)
    ELSE copied

(* No such section: it goes to the end. *)
SearchEnd ==
    /\ pc = "search"
    /\ AtEnd
    /\ out' = Ended(out \o Cached) \o Section(vals)
    /\ pc' = "done"
    /\ UNCHANGED <<inputs, rpos, mark, cachelen, buffer, wiped>>

(* The flush takes the read position back before the heading, which is     *)
(* read, and so skipped, again.                                            *)
Found ==
    /\ pc = "found"
    /\ out' = out \o Cached
    /\ ReadLine(mark + cachelen)
    /\ mark' = rpos'
    /\ cachelen' = 0
    /\ pc' = "section"
    /\ UNCHANGED inputs
-------------------------------------------------------------------------------
(* Skipping what the section held                                          *)

SectionLine ==
    /\ pc = "section"
    /\ ~AtEnd
    /\ ReadLine(rpos)
    /\ IF Bracketed(file[rpos])
       THEN pc' = "replace" /\ UNCHANGED mark
       ELSE mark' = rpos' /\ UNCHANGED pc
    /\ UNCHANGED <<inputs, cachelen, out>>

(* The flush of nothing wipes the buffer, which sp still points into. *)
SectionEnd ==
    /\ pc = "section"
    /\ AtEnd
    /\ wiped' = TRUE
    /\ rpos' = mark
    /\ pc' = "replace"
    /\ UNCHANGED <<inputs, mark, cachelen, buffer, out>>

(* mutant of Flag: sp is set, whatever it points to *)
FlagAlways == TRUE

(* sp && *sp == '[': the first character that is no blank of the line last *)
(* looked at, or what has become of it                                     *)
Flag == Bracketed(buffer) /\ (wiped => buffer.indented)

(* Write the section and read on at the mark.  At the end of the file that *)
(* read leaves the buffer as it is: the entry written last, or nothing.    *)
Replace ==
    /\ pc = "replace"
    /\ out' = out \o Section(vals)
    /\ IF mark <= Len(file)
       THEN /\ ReadLine(mark)
            /\ cachelen' = IF Flag THEN 1 ELSE 0
            /\ mark' = IF Flag THEN mark ELSE rpos'
       ELSE /\ cachelen' = IF Flag /\ Section(vals) # <<>> THEN 1 ELSE 0
            /\ rpos' = mark
            /\ wiped' = (Section(vals) = <<>>)
            /\ UNCHANGED <<mark, buffer>>
    /\ pc' = "rest"
    /\ UNCHANGED inputs
-------------------------------------------------------------------------------
(* Copying the rest                                                        *)

RestLine ==
    /\ pc = "rest"
    /\ ~AtEnd
    /\ ReadLine(rpos)
    /\ Accumulate
    /\ UNCHANGED <<inputs, pc>>

(* The last flush.  It reads as many characters as were accumulated, and   *)
(* does not stop at the end of the file.                                   *)
RestEnd ==
    /\ pc = "rest"
    /\ AtEnd
    /\ IF mark + cachelen <= Len(file) + 1
       THEN pc' = "done" /\ out' = out \o Cached
       ELSE pc' = "reading" /\ UNCHANGED out
    /\ UNCHANGED <<inputs, rpos, mark, cachelen, buffer, wiped>>

Next ==
    \/ SearchLine \/ SearchEnd \/ Found
    \/ SectionLine \/ SectionEnd \/ Replace
    \/ RestLine \/ RestEnd

Spec == Init /\ [][Next]_vars

(* It runs on the thread that called it. *)
FairSpec == Spec /\ WF_vars(Next)
-------------------------------------------------------------------------------
Pcs == {"search", "found", "section", "replace", "rest", "reading", "done"}

(* The type of every variable; what is accumulated fits into the buffer,   *)
(* and as long as lines are copied it ends where the next one is read.     *)
TypeOK ==
    /\ terminated \in BOOLEAN
    /\ pc \in Pcs
    /\ rpos \in 1 .. Len(file) + 1
    /\ mark \in 1 .. Len(file) + 1
    /\ cachelen \in 0 .. BufferSize - 1
    /\ wiped \in BOOLEAN
    /\ pc = "search" => rpos = mark + cachelen

(* A file with at most one section that matches [values] in any case, and  *)
(* no line with an opening bracket only.  (In others ini_browse reads      *)
(* entries that ini_putsection leaves where they are.)                     *)
Plain ==
    /\ \A i, j \in DOMAIN file : Matches(file[i]) /\ Matches(file[j]) => i = j
    /\ \A i \in DOMAIN file : file[i].kind # "bracket"

(* The reference, line by line; a file without the section may get a blank *)
(* line in front of it.                                                    *)
Rewritten ==
    \/ out = Replaced(file, vals)
    \/ /\ out = Append(file, Blank) \o Section(vals)
       /\ \A i \in DOMAIN file : ~Matches(file[i])

(* A rewrite that ends has replaced the first section that matches, or     *)
(* added one at the end, and kept every other line in its place: with any  *)
(* alternation of accumulating, flushing and going back.  What was saved   *)
(* is then what the next Load reads from a plain file.                     *)
RewritesSection ==
    pc = "done" => Rewritten /\ (Plain => Read(out) = vals)

(* The comment in ini_putsection: when flag is set, "the new section       *)
(* heading needs to be copied to the output file", so there is one, at the *)
(* position to read on from.                                               *)
FlagMeansHeading ==
    pc = "replace" /\ Flag => mark <= Len(file) /\ Bracketed(file[mark])

(* The rewrite comes to an end, unless the section's heading is indented   *)
(* and the last line of the file (see FlagMeansHeading).                   *)
EndsInHeading == file # <<>> /\ Matches(Last(file)) /\ Last(file).indented
Terminates == ~EndsInHeading ~> pc = "done"
===============================================================================
