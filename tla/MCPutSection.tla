------------------------------ MODULE MCPutSection ------------------------------
(* Small instances of PutSection: see MCPutSection.cfg, MCPutSection_flag.cfg. *)
EXTENDS PutSection, FiniteSets

CONSTANTS tick, MaxLines

MCLines ==
    {Heading("values", FALSE), Heading("values", TRUE), Heading("Values", FALSE),
     Heading("Values", TRUE), Heading("other", FALSE), Bracket(FALSE), Entry(tick, 1),
     Text, Blank}

(* Every file of up to MaxLines lines *)
MCFiles == UNION {[1 .. n -> MCLines] : n \in 0 .. MaxLines}

(* An empty section, and one with an entry *)
MCSaves == {[k \in K |-> 2] : K \in SUBSET {tick}}

===============================================================================
