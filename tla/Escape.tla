------------------------------- MODULE Escape -------------------------------
(* How text reaches the terminal: the buffers of buf.c, which a name is        *)
(* escaped into and a name field is put together in, and the messages of       *)
(* logging.c.  Bytes are the numbers they are.                                 *)
EXTENDS Integers, Sequences, SequencesExt

CONSTANTS
    Chars,          \* the characters of the locale
    Jobs,           \* the fields and messages to make
    InitialSize,    \* what newbuf() allocates, 1024
    SmallSize,      \* the size of a message that needs no malloc(), 1024
    MaxShortages    \* bound on the calls to malloc() and realloc() that fail

Byte == 1..255
Backslash == 92
Question == 63
Newline == 10

Piece(string, columns) == [string |-> string, columns |-> columns]

\* A call getnamefield() makes: bufappend() of flags and colors, or
\* printtobuf() of a name.
Call == [name : BOOLEAN, string : Seq(Byte), columns : Nat]

\* Encodings without shift states, none of whose characters begins another,
\* and the printable characters that escapes are made of.
ASSUME EscapeAssumption ==
    /\ InitialSize \in Nat \ {0} /\ SmallSize \in Nat \ {0} /\ MaxShortages \in Nat
    /\ Chars \subseteq [bytes : Seq(Byte) \ {<<>>}, columns : Nat \cup {-1},
                        class : {"print", "cntrl", "other"}]
    /\ \A c, d \in Chars : IsPrefix(c.bytes, d.bytes) => c = d
    /\ \A b \in {Backslash, Question} \cup 48..55 \cup {97, 98, 102, 110, 114, 116, 118} :
          [bytes |-> <<b>>, columns |-> 1, class |-> "print"] \in Chars
    /\ \A j \in Jobs : /\ j.calls \in Seq(Call)
                       /\ j.escape \in {"none", "question", "c"}
                       /\ j.message \in Seq(Byte)

VARIABLES
    job,        \* the field to make, or the message to write
    calls,      \* the calls getnamefield() has yet to make
    bufs,       \* its buffer, and printtobuf()'s
    text,       \* the name or message being escaped
    p,          \* how many of its bytes have been
    todo,       \* the pieces that have yet to be appended
    err,        \* what has been written to stderr of the message
    shortages,
    pc

vars == <<job, calls, bufs, text, p, todo, err, shortages, pc>>

\* size is that of data's allocation, newsize what bufappend() works out.
NewBuf == [size |-> InitialSize, newsize |-> InitialSize, data |-> <<>>, screenpos |-> 0]
NoBuf == [size |-> 0, newsize |-> 0, data |-> <<>>, screenpos |-> 0]

Shortage == shortages < MaxShortages /\ shortages' = shortages + 1

-----------------------------------------------------------------------------
(* What a name becomes.                                                        *)

\* mbrtowc(): the character at p of the text, or what is wrong with it.  Of one
\* that the text ends in the middle of, the library may say either.
Decode ==
    LET rest == SubSeq(text, p + 1, Len(text))
        starts == {c \in Chars : IsPrefix(c.bytes, rest)}
    IN  IF starts # {} THEN starts
        ELSE {[class |-> "invalid"]}
             \cup {[class |-> "incomplete"] : c \in {c \in Chars : IsPrefix(rest, c.bytes)}}

Octal(b) == Piece(<<Backslash, 48 + (b \div 64), 48 + ((b \div 8) % 8), 48 + (b % 8)>>, 4)

\* "\a" to "\r"
Named == [b \in 7..13 |-> <<97, 98, 116, 110, 118, 102, 114>>[b - 6]]

\* cescape(), and octal for what it does not know.
CEscape(b) ==
    IF b \in DOMAIN Named THEN Piece(<<Backslash, Named[b]>>, 2) ELSE Octal(b)

AsIs(c) == Piece(c.bytes, IF c.columns < 0 THEN 0 ELSE c.columns)

\* printwesctobuf(): wctob() knows the characters of one byte.
Escapes(c) ==
    IF Len(c.bytes) = 1 THEN <<CEscape(c.bytes[1])>>
    ELSE [i \in 1..Len(c.bytes) |-> Octal(c.bytes[i])]

\* Faulty: the backslash stands for itself.
CharPiecesPlain(c) ==
    CASE c.class = "print" \/ job.escape = "none" -> <<AsIs(c)>>
      [] c.class # "print" /\ job.escape = "question" -> <<Piece(<<Question>>, 1)>>
      [] OTHER -> Escapes(c)

\* printwchartobuf()
CharPieces(c) ==
    CASE c.bytes = <<Backslash>> /\ job.escape = "c" ->
            << Piece(<<Backslash>>, 1), Piece(<<Backslash>>, 1) >>
      [] c.class = "print" /\ ~(c.bytes = <<Backslash>> /\ job.escape = "c") -> <<AsIs(c)>>
      [] c.class # "print" /\ job.escape = "c" -> Escapes(c)
      [] c.class # "print" /\ job.escape = "question" -> << Piece(<<Question>>, 1) >>
      [] c.class # "print" /\ job.escape = "none" -> <<AsIs(c)>>

\* Faulty: a byte that is no character is taken for one column, as it is.
BytePieceRaw(b) == IF job.escape = "c" THEN Octal(b) ELSE Piece(<<b>>, 1)

\* A byte that is no part of a character.
BytePiece(b) ==
    CASE job.escape = "c"        -> Octal(b)
      [] job.escape = "question" -> Piece(<<Question>>, 1)
      [] job.escape = "none"     -> Piece(<<b>>, 1)

-----------------------------------------------------------------------------
(* bufappend(), one piece after the other.                                     *)

\* The buffer that is appended to.
Into == IF pc \in {"text", "bytes"} THEN "bytebuf" ELSE "buf"

\* Faulty: without room for the terminator.
FitsExactly(b, width) == Len(b.data) + width <= b.newsize

\* buf->pos + width < newsize
Fits(b, width) == Len(b.data) + width < b.newsize

Grown(b) == [b EXCEPT !.newsize = 2 * b.newsize]

Grow ==
    /\ todo # <<>> /\ ~Fits(bufs[Into], Len(todo[1].string))
    /\ bufs' = [bufs EXCEPT ![Into] = Grown(bufs[Into])]
    /\ UNCHANGED <<job, calls, text, p, todo, err, shortages, pc>>

\* memcpy(), and the terminator behind it.
Appended(b, piece) ==
    [size |-> b.newsize, newsize |-> b.newsize,
     data |-> b.data \o piece.string, screenpos |-> b.screenpos + piece.columns]

AppendPiece ==
    /\ todo # <<>> /\ Fits(bufs[Into], Len(todo[1].string))
    /\ bufs' = [bufs EXCEPT ![Into] = Appended(bufs[Into], todo[1])]
    /\ todo' = Tail(todo)
    /\ UNCHANGED <<job, calls, text, p, err, shortages, pc>>

\* realloc() fails: the piece is dropped.
Dropped(b) == [b EXCEPT !.newsize = b.size]

DropPiece ==
    /\ todo # <<>> /\ Fits(bufs[Into], Len(todo[1].string))
    /\ bufs[Into].newsize > bufs[Into].size /\ Shortage
    /\ bufs' = [bufs EXCEPT ![Into] = Dropped(bufs[Into])]
    /\ todo' = Tail(todo)
    /\ UNCHANGED <<job, calls, text, p, err, pc>>

-----------------------------------------------------------------------------
(* getnamefield() and printtobuf().                                            *)

NewNameBuf ==
    /\ pc = "new" /\ job.calls # <<>>
    /\ \/ bufs' = [bufs EXCEPT !["buf"] = NewBuf] /\ pc' = "calls" /\ UNCHANGED shortages
       \/ Shortage /\ pc' = "failed" /\ UNCHANGED bufs
    /\ UNCHANGED <<job, calls, text, p, todo, err>>

AppendCall ==
    /\ pc = "calls" /\ todo = <<>> /\ calls # <<>> /\ ~calls[1].name
    /\ todo' = << Piece(calls[1].string, calls[1].columns) >>
    /\ calls' = Tail(calls)
    /\ UNCHANGED <<job, bufs, text, p, err, shortages, pc>>

\* Without a buffer for its bytes, the name is left out.
NameCall ==
    /\ pc = "calls" /\ todo = <<>> /\ calls # <<>> /\ calls[1].name
    /\ \/ /\ bufs' = [bufs EXCEPT !["bytebuf"] = NewBuf] /\ pc' = "text"
          /\ text' = calls[1].string /\ p' = 0 /\ UNCHANGED shortages
       \/ Shortage /\ UNCHANGED <<bufs, text, p, pc>>
    /\ calls' = Tail(calls)
    /\ UNCHANGED <<job, todo, err>>

ReadChar ==
    /\ pc = "text" /\ todo = <<>> /\ p < Len(text)
    /\ \E c \in Decode :
          CASE c.class = "incomplete" -> pc' = "bytes" /\ UNCHANGED <<p, todo>>
            [] c.class = "invalid" ->
                  todo' = << BytePiece(text[p + 1]) >> /\ p' = p + 1 /\ UNCHANGED pc
            [] OTHER ->
                  todo' = CharPieces(c) /\ p' = p + Len(c.bytes) /\ UNCHANGED pc
    /\ UNCHANGED <<job, calls, bufs, text, err, shortages>>

\* The rest of the name, byte by byte.
ReadByte ==
    /\ pc = "bytes" /\ todo = <<>> /\ p < Len(text)
    /\ todo' = << BytePiece(text[p + 1]) >> /\ p' = p + 1
    /\ UNCHANGED <<job, calls, bufs, text, err, shortages, pc>>

\* bufappendbuf()
EndOfText ==
    /\ pc \in {"text", "bytes"} /\ todo = <<>> /\ p = Len(text)
    /\ todo' = << Piece(bufs["bytebuf"].data, bufs["bytebuf"].screenpos) >>
    /\ pc' = "join"
    /\ UNCHANGED <<job, calls, bufs, text, p, err, shortages>>

FreeBytes ==
    /\ pc = "join" /\ todo = <<>>
    /\ bufs' = [bufs EXCEPT !["bytebuf"] = NoBuf]
    /\ pc' = "calls"
    /\ UNCHANGED <<job, calls, text, p, todo, err, shortages>>

\* newfield(bufstring(buf), align, bufscreenpos(buf))
MakeField ==
    /\ pc = "calls" /\ todo = <<>> /\ calls = <<>>
    /\ \/ pc' = "field" /\ UNCHANGED shortages
       \/ pc' = "failed" /\ Shortage
    /\ UNCHANGED <<job, calls, bufs, text, p, todo, err>>

-----------------------------------------------------------------------------
(* errorf2() and fputsescaped().                                               *)

\* A long message is cut where there is no memory for it.
FormatMessage ==
    /\ pc = "new" /\ job.calls = <<>>
    /\ \/ text' = job.message /\ UNCHANGED shortages
       \/ /\ Len(job.message) >= SmallSize /\ Shortage
          /\ text' = SubSeq(job.message, 1, SmallSize - 1)
    /\ pc' = "puts"
    /\ UNCHANGED <<job, calls, bufs, p, todo, err>>

IsLastNewline == p + 1 = Len(text) /\ text[p + 1] = Newline

PutChar ==
    /\ pc = "puts" /\ p < Len(text)
    /\ \/ /\ IsLastNewline
          /\ err' = Append(err, Newline) /\ p' = p + 1
       \/ /\ ~IsLastNewline
          /\ \E c \in Decode :
                IF c.class \in {"invalid", "incomplete"}
                THEN err' = err \o Octal(text[p + 1]).string /\ p' = p + 1
                ELSE /\ err' = err \o (IF c.class = "print" THEN c.bytes
                                       ELSE FlattenSeq([i \in 1..Len(c.bytes) |->
                                                           Octal(c.bytes[i]).string]))
                     /\ p' = p + Len(c.bytes)
    /\ UNCHANGED <<job, calls, bufs, text, todo, shortages, pc>>

MessageDone ==
    /\ pc = "puts" /\ p = Len(text)
    /\ pc' = "written"
    /\ UNCHANGED <<job, calls, bufs, text, p, todo, err, shortages>>

Init ==
    /\ job \in Jobs /\ calls = job.calls
    /\ bufs = [b \in {"buf", "bytebuf"} |-> NoBuf]
    /\ text = <<>> /\ p = 0 /\ todo = <<>> /\ err = <<>>
    /\ shortages = 0 /\ pc = "new"

Program ==
    \/ Grow \/ AppendPiece \/ DropPiece
    \/ NewNameBuf \/ AppendCall \/ NameCall \/ ReadChar \/ ReadByte
    \/ EndOfText \/ FreeBytes \/ MakeField
    \/ FormatMessage \/ PutChar \/ MessageDone

Terminated == pc \in {"field", "failed", "written"} /\ UNCHANGED vars

Next == Program \/ Terminated

Spec == Init /\ [][Next]_vars

-----------------------------------------------------------------------------
(* Properties.                                                                 *)

\* What a terminal makes of bytes: characters, or bytes that are none.
CharAt(bytes, i) ==
    LET starts == {c \in Chars : IsPrefix(c.bytes, SubSeq(bytes, i, Len(bytes)))}
    IN  IF starts = {} THEN [bytes |-> <<bytes[i]>>, columns |-> 0, class |-> "bad"]
        ELSE CHOOSE c \in starts : TRUE

Read(bytes) ==
    LET from[i \in 1..Len(bytes) + 1] ==
            IF i > Len(bytes) THEN <<>>
            ELSE <<CharAt(bytes, i)>> \o from[i + Len(CharAt(bytes, i).bytes)]
    IN  from[1]

Columns(chars) == FoldLeft(LAMBDA n, c : n + AsIs(c).columns, 0, chars)

\* What escapes stand for: the bytes of the name that the characters at i show,
\* and how many characters do.
IsEscape(chars, i) == chars[i].bytes = <<Backslash>> /\ i < Len(chars)
IsOctal(chars, i) ==
    IsEscape(chars, i) /\ i + 3 <= Len(chars) /\ chars[i + 1].bytes \in {<<d>> : d \in 48..55}

ShownWidth(chars, i) ==
    IF IsOctal(chars, i) THEN 4 ELSE IF IsEscape(chars, i) THEN 2 ELSE 1

Meaning(chars, i) ==
    LET digit(k) == chars[i + k].bytes[1] - 48
        named    == {b \in DOMAIN Named : chars[i + 1].bytes = <<Named[b]>>}
    IN  IF IsOctal(chars, i) THEN << (64 * digit(1)) + (8 * digit(2)) + digit(3) >>
        ELSE IF ~IsEscape(chars, i) THEN chars[i].bytes
        ELSE IF named # {} THEN << CHOOSE b \in named : TRUE >> ELSE chars[i + 1].bytes

Undo(chars) ==
    LET from[i \in 1..Len(chars) + 1] ==
            IF i > Len(chars) THEN <<>>
            ELSE Meaning(chars, i) \o from[i + ShownWidth(chars, i)]
    IN  from[1]

\* Text and its terminator are inside what is allocated, however long a piece
\* is, however often a buffer grows and whichever realloc() fails.
StaysInside ==
    \A b \in DOMAIN bufs :
        bufs[b] # NoBuf => Len(bufs[b].data) < bufs[b].size /\ bufs[b].size <= bufs[b].newsize

\* Nothing a terminal could take for a command is shown of a name that is to be
\* escaped, nor of any message; and a name is as wide as its field says, which
\* columns are aligned by.  It holds whatever could not be allocated.
ShownSafely ==
    /\ job.escape # "none" =>
        LET shown == Read(bufs["bytebuf"].data)
        IN  /\ \A i \in DOMAIN shown : shown[i].class = "print"
            /\ Columns(shown) = bufs["bytebuf"].screenpos
    /\ LET written == Read(err)
       IN  \A i \in DOMAIN written :
              \/ written[i].class = "print"
              \/ written[i].bytes = <<Newline>> /\ i = Len(written) /\ p = Len(text)

\* Under -e no two names are shown alike: from the characters that are seen what
\* has been escaped of a name can be read back, and without escaping it is the
\* name.  (Of characters that cannot be allocated some are missing.)
EscapingCanBeUndone ==
    pc \in {"text", "bytes"} /\ todo = <<>> /\ shortages = 0 =>
        LET data == bufs["bytebuf"].data
        IN  /\ job.escape = "c" => Undo(Read(data)) = SubSeq(text, 1, p)
            /\ job.escape = "none" => data = SubSeq(text, 1, p)
=============================================================================
