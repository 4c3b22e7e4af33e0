------------------------------ MODULE MCEscape ------------------------------
(* Names of up to three bytes, well-formed and not, by themselves and with the *)
(* decorations of colors, -F and -V; messages shorter and longer than small.   *)
(* The locale has as many characters as that takes.                            *)
EXTENDS Escape

Ascii(b, class) == [bytes |-> <<b>>, columns |-> IF class = "print" THEN 1 ELSE -1,
                    class |-> class]
Wide(bytes, columns, class) == [bytes |-> bytes, columns |-> columns, class |-> class]

\* UTF-8: e acute, a combining grave accent, CSI, a Han character, one that is
\* not assigned, and a printable one wcwidth() knows nothing of.
MCChars ==
    {Ascii(b, "print") : b \in {Backslash, Question, 32, 45, 62, 64} \cup 48..55
                               \cup {97, 98, 102, 110, 114, 116, 118}}
    \cup {Ascii(b, "cntrl") : b \in {1, Newline, 27, 127}}
    \cup {Wide(<<195, 169>>, 1, "print"), Wide(<<204, 128>>, 0, "print"),
          Wide(<<194, 155>>, -1, "cntrl"), Wide(<<228, 184, 173>>, 2, "print"),
          Wide(<<205, 184>>, -1, "other"), Wide(<<194, 173>>, -1, "print")}

Bytes == {48, Backslash, 110, Newline, 127, 195, 169, 194, 155, 228, 184}

Texts(n) == UNION {[1..k -> Bytes] : k \in 1..n}

Shown(string, columns) == [name |-> FALSE, string |-> string, columns |-> columns]
Name(string) == [name |-> TRUE, string |-> string, columns |-> 0]

Field(escape, theCalls) == [escape |-> escape, calls |-> theCalls, message |-> <<>>]
Message(string) == [escape |-> "none", calls |-> <<>>, message |-> string]

Red == Shown(<<27, 91, 51, 49, 109>>, 0)
Reset == Shown(<<27, 91, 109>>, 0)
Arrow == Shown(<<32, 45, 62, 32>>, 4)

Han == <<228, 184, 173>>
Unassigned == <<205, 184>>
Accent == <<97, 204, 128>>

MCJobs ==
    {Field(e, <<Name(s)>>) : e \in {"none", "question", "c"}, s \in Texts(3)}
    \cup {Field(e, <<Red, Name(s), Reset, Shown(<<64>>, 1), Arrow, Name(t)>>) :
             e \in {"none", "question", "c"},
             s \in Texts(1), t \in {Han, Unassigned, Accent, <<92, 92, 48>>, <<194, 173>>}}
    \cup {Message(s \o t) : s \in Texts(3), t \in {<<>>, <<10>>, Han \o <<10>>}}
=============================================================================
