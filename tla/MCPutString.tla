------------------------------ MODULE MCPutString ------------------------------
(* A small instance of PutString: see MCPutString.cfg.                      *)
EXTENDS PutString

CONSTANTS MaxLines, MaxChars

MCNumbers == {-128, -10, -1, 0, 7, 10, 127}

MCLines ==
    {Heading("values", FALSE), Heading("other", FALSE), Bracket(FALSE),
     Entry("k", <<"a">>), Entry("K", <<Quote, " ", "a", Quote>>), Entry("o", <<"a">>), Text, Blank}

(* Every file of up to MaxLines lines *)
MCPutFiles == UNION {[1 .. n -> MCLines] : n \in 0 .. MaxLines}

(* A value that is there already, one that is there between quotes, one as *)
(* long as it, a longer one; deleting a key, and a section                 *)
MCSettings ==
    {Setting(s, "k", v) : s \in {"values", None}, v \in {<<"a">>, <<" ", "a">>, <<"b">>, <<"b", ";">>, None}}
    \cup {Setting(s, None, None) : s \in {"values", None}}

(* Every text of up to MaxChars characters; the numbers *)
MCValues ==
    UNION {[1 .. n -> {"a", Quote, Backslash, Comment} \cup Blanks] : n \in 0 .. MaxChars}
    \cup {Long2Str(n) : n \in MCNumbers}
================================================================================
