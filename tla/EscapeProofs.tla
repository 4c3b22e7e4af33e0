---------------------------- MODULE EscapeProofs ----------------------------
(* Theorems about the buffers, for every locale, every field and message, and  *)
(* any number of failed allocations.                                           *)
EXTENDS Escape, TLAPS, FiniteSetTheorems, SequenceTheorems, WellFoundedInduction

Pieces == [string : Seq(Int), columns : Int]
Buffers == [size : Nat, newsize : Nat, data : Seq(Int), screenpos : Int]

\* Text and terminator are inside, and there is something to multiply by two.
Inside(b) == b = NoBuf \/ (Len(b.data) < b.size /\ b.size <= b.newsize)

TypeInv ==
    /\ job \in Jobs /\ calls \in Seq(Call)
    /\ bufs \in [{"buf", "bytebuf"} -> Buffers]
    /\ text \in Seq(Byte) /\ p \in Nat
    /\ todo \in Seq(Pieces)

BufInv ==
    /\ \A b \in {"buf", "bytebuf"} : Inside(bufs[b])
    /\ pc \in {"calls", "text", "bytes", "join"} => bufs["buf"] # NoBuf
    /\ pc \in {"text", "bytes"} => bufs["bytebuf"] # NoBuf
    /\ pc \notin {"calls", "text", "bytes", "join"} => todo = <<>>

LEMMA ByteIsInt == Byte \subseteq Int
  BY DEF Byte

LEMMA BytesAreInts == \A s \in Seq(Byte) : s \in Seq(Int)
<1> SUFFICES ASSUME NEW s \in Seq(Byte) PROVE s \in Seq(Int)
  OBVIOUS
<1>1. Len(s) \in Nat /\ (\A i \in 1..Len(s) : s[i] \in Int) /\ s = [i \in 1..Len(s) |-> s[i]]
  BY ByteIsInt
<1> QED
  BY <1>1

LEMMA OctalType == \A b \in Int : Octal(b) \in Pieces
  BY DEF Octal, Piece, Pieces, Backslash

LEMMA BytePieceType ==
    ASSUME NEW b \in Int, job \in Jobs
    PROVE  BytePiece(b) \in Pieces
<1>1. job.escape \in {"none", "question", "c"}
  BY EscapeAssumption DEF EscapeAssumption
<1>2. Octal(b) \in Pieces /\ Piece(<<Question>>, 1) \in Pieces /\ Piece(<<b>>, 1) \in Pieces
  BY OctalType DEF Piece, Pieces, Question
<1> QED
  BY <1>1, <1>2 DEF BytePiece

LEMMA CEscapeType == \A b \in Int : CEscape(b) \in Pieces
<1>1. ASSUME NEW b \in 7..13 PROVE Piece(<<Backslash, Named[b]>>, 2) \in Pieces
  BY DEF Named, Piece, Pieces, Backslash
<1>2. DOMAIN Named = 7..13
  BY DEF Named
<1> QED
  BY <1>1, <1>2, OctalType DEF CEscape

LEMMA EscapesType ==
    ASSUME NEW c, c.bytes \in Seq(Int) \ {<<>>}
    PROVE  Escapes(c) \in Seq(Pieces)
<1>1. PICK s \in Seq(Int) : s = c.bytes /\ s # <<>>
  OBVIOUS
<1>2. Len(s) \in Nat /\ 1 \in DOMAIN s /\ \A i \in 1..Len(s) : s[i] \in Int
  BY <1>1
<1>3. CEscape(s[1]) \in Pieces /\ \A i \in 1..Len(s) : Octal(s[i]) \in Pieces
  BY <1>2, CEscapeType, OctalType
<1>4. [i \in 1..Len(s) |-> Octal(s[i])] \in Seq(Pieces)
  BY <1>2, <1>3
<1>5. <<CEscape(s[1])>> \in Seq(Pieces)
  BY <1>3
<1> QED
  BY <1>1, <1>4, <1>5 DEF Escapes

LEMMA CharPiecesType ==
    ASSUME NEW c \in Chars, job \in Jobs
    PROVE  CharPieces(c) \in Seq(Pieces)
<1>1. c \in [bytes : Seq(Byte) \ {<<>>}, columns : Nat \cup {-1},
             class : {"print", "cntrl", "other"}]
      /\ job.escape \in {"none", "question", "c"}
  BY EscapeAssumption DEF EscapeAssumption
<1>2. c.bytes \in Seq(Int) \ {<<>>} /\ c.columns \in Int /\ c.class \in {"print", "cntrl", "other"}
  BY <1>1, BytesAreInts
<1>3. << AsIs(c) >> \in Seq(Pieces)
  <2>1. AsIs(c) \in Pieces
    BY <1>2 DEF AsIs, Piece, Pieces
  <2> QED
    BY <2>1
<1>4. << Piece(<<Question>>, 1) >> \in Seq(Pieces)
      /\ << Piece(<<Backslash>>, 1), Piece(<<Backslash>>, 1) >> \in Seq(Pieces)
  <2>1. Piece(<<Question>>, 1) \in Pieces /\ Piece(<<Backslash>>, 1) \in Pieces
    BY DEF Piece, Pieces, Question, Backslash
  <2> QED
    BY <2>1
<1>5. Escapes(c) \in Seq(Pieces)
  BY <1>2, EscapesType
<1> HIDE DEF Pieces
<1> QED
  BY <1>1, <1>2, <1>3, <1>4, <1>5 DEF CharPieces

-----------------------------------------------------------------------------

LEMMA InvInit == Init => TypeInv /\ BufInv
<1> SUFFICES ASSUME Init PROVE TypeInv /\ BufInv
  OBVIOUS
<1>1. job \in Jobs /\ calls \in Seq(Call)
  BY EscapeAssumption DEF EscapeAssumption, Init
<1>2. NoBuf \in Buffers
  BY DEF NoBuf, Buffers
<1>3. TypeInv
  BY <1>1, <1>2 DEF Init, TypeInv
<1>4. BufInv
  BY DEF Init, BufInv, Inside
<1> QED
  BY <1>3, <1>4

LEMMA NewBufType == NewBuf \in Buffers /\ Inside(NewBuf) /\ NewBuf # NoBuf
<1>1. InitialSize \in Nat /\ InitialSize > 0
  BY EscapeAssumption DEF EscapeAssumption
<1> QED
  BY <1>1 DEF NewBuf, NoBuf, Buffers, Inside

\* What becomes of a buffer that a piece is to go into.
LEMMA GrownInside ==
    ASSUME NEW b \in Buffers, Inside(b), b # NoBuf
    PROVE  /\ Grown(b) \in Buffers /\ Inside(Grown(b)) /\ Grown(b) # NoBuf
           /\ Dropped(b) \in Buffers /\ Inside(Dropped(b)) /\ Dropped(b) # NoBuf
<1>1. b.size \in Nat /\ b.newsize \in Nat /\ b.data \in Seq(Int) /\ Len(b.data) \in Nat
  BY DEF Buffers
<1>2. Grown(b) \in Buffers /\ Dropped(b) \in Buffers
  <2>1. PICK m \in Nat, n \in Nat, d \in Seq(Int), s \in Int :
           b = [size |-> m, newsize |-> n, data |-> d, screenpos |-> s]
    BY DEF Buffers
  <2>2. /\ Grown(b) = [size |-> m, newsize |-> 2 * n, data |-> d, screenpos |-> s]
        /\ Dropped(b) = [size |-> m, newsize |-> m, data |-> d, screenpos |-> s]
    BY <2>1 DEF Grown, Dropped
  <2> QED
    BY <2>2 DEF Buffers
<1>3. /\ Grown(b).size = b.size /\ Grown(b).newsize = 2 * b.newsize /\ Grown(b).data = b.data
      /\ Dropped(b).size = b.size /\ Dropped(b).newsize = b.size /\ Dropped(b).data = b.data
  BY <1>1 DEF Grown, Dropped, Buffers
<1>4. Len(b.data) < b.size /\ b.size <= b.newsize
  BY DEF Inside
<1>5. NoBuf.size = 0
  BY DEF NoBuf
<1>6. Grown(b) # NoBuf /\ Dropped(b) # NoBuf
  BY <1>1, <1>3, <1>4, <1>5
<1>7. Inside(Grown(b)) /\ Inside(Dropped(b))
  BY <1>1, <1>3, <1>4 DEF Inside
<1> QED
  BY <1>2, <1>6, <1>7

LEMMA AppendedInside ==
    ASSUME NEW b \in Buffers, NEW piece \in Pieces, Fits(b, Len(piece.string))
    PROVE  LET new == Appended(b, piece)
           IN  new \in Buffers /\ Inside(new) /\ new # NoBuf
<1>1. /\ b.newsize \in Nat /\ b.data \in Seq(Int) /\ b.screenpos \in Int
      /\ piece.string \in Seq(Int) /\ piece.columns \in Int
  BY DEF Buffers, Pieces
<1>2. PICK data \in Seq(Int) : /\ data = b.data \o piece.string
                               /\ Len(data) = Len(b.data) + Len(piece.string)
                               /\ Len(data) \in Nat
  <2>1. PICK d \in Seq(Int), s \in Seq(Int) : d = b.data /\ s = piece.string
    BY <1>1
  <2>2. d \o s \in Seq(Int) /\ Len(d \o s) = Len(d) + Len(s) /\ Len(d \o s) \in Nat
    OBVIOUS
  <2> QED
    BY <2>1, <2>2
<1>3. Len(data) < b.newsize /\ Len(data) \in Nat
  <2>1. Len(data) < b.newsize
    BY <1>2 DEF Fits
  <2>2. Len(data) \in Nat
    BY <1>2
  <2> QED
    BY <2>1, <2>2
<1>4. PICK new : new = Appended(b, piece)
  OBVIOUS
<1>5. new = [size |-> b.newsize, newsize |-> b.newsize, data |-> data,
             screenpos |-> b.screenpos + piece.columns]
  BY <1>2, <1>4 DEF Appended
<1>6. new \in Buffers
  BY <1>1, <1>5 DEF Buffers
<1>7. Inside(new)
  BY <1>1, <1>3, <1>5 DEF Inside
<1>8. new # NoBuf
  <2>1. new.size = b.newsize /\ NoBuf.size = 0
    BY <1>5 DEF NoBuf
  <2> QED
    BY <1>1, <1>3, <2>1
<1> QED
  BY <1>4, <1>6, <1>7, <1>8

\* The buffer that is appended to, and what may be done to it.
LEMMA IntoStep ==
    ASSUME TypeInv, BufInv, Grow \/ AppendPiece \/ DropPiece
    PROVE  /\ todo # <<>> /\ todo' \in Seq(Pieces)
           /\ \E b \in Buffers : /\ Inside(b) /\ b # NoBuf
                                 /\ bufs' = [bufs EXCEPT ![Into] = b]
           /\ UNCHANGED <<job, calls, text, p, pc>>
           /\ pc \in {"calls", "text", "bytes", "join"}
<1>1. /\ todo # <<>> /\ UNCHANGED <<job, calls, text, p, pc>>
      /\ todo' = todo \/ todo' = Tail(todo)
  BY DEF Grow, AppendPiece, DropPiece
<1>2. todo' \in Seq(Pieces) /\ todo[1] \in Pieces
  <2>1. PICK s \in Seq(Pieces) : s = todo /\ s # <<>>
    BY <1>1 DEF TypeInv
  <2>2. Tail(s) \in Seq(Pieces) /\ s[1] \in Pieces
    BY <2>1
  <2> QED
    BY <1>1, <2>1, <2>2
<1>3. pc \in {"calls", "text", "bytes", "join"}
  BY <1>1 DEF BufInv
<1>4. Into \in {"buf", "bytebuf"} /\ bufs[Into] # NoBuf
  BY <1>3 DEF Into, BufInv
<1>5. PICK old \in Buffers : old = bufs[Into] /\ Inside(old) /\ old # NoBuf
  BY <1>4 DEF TypeInv, BufInv
<1>6. PICK piece \in Pieces : piece = todo[1]
  BY <1>2
<1>7. CASE Grow
  <2>1. bufs' = [bufs EXCEPT ![Into] = Grown(old)]
    BY <1>5, <1>7 DEF Grow
  <2>2. PICK b \in Buffers : b = Grown(old) /\ Inside(b) /\ b # NoBuf
    BY <1>5, <2>1, GrownInside
  <2>3. bufs' = [bufs EXCEPT ![Into] = b]
    BY <2>1, <2>2
  <2> QED
    BY <1>1, <1>2, <1>3, <2>2, <2>3
<1>8. CASE AppendPiece
  <2>1. bufs' = [bufs EXCEPT ![Into] = Appended(old, piece)] /\ Fits(old, Len(piece.string))
    BY <1>5, <1>6, <1>8 DEF AppendPiece
  <2>2. PICK b \in Buffers : b = Appended(old, piece) /\ Inside(b) /\ b # NoBuf
    BY <1>5, <1>6, <2>1, AppendedInside
  <2>3. bufs' = [bufs EXCEPT ![Into] = b]
    BY <2>1, <2>2
  <2> QED
    BY <1>1, <1>2, <1>3, <2>2, <2>3
<1>9. CASE DropPiece
  <2>1. bufs' = [bufs EXCEPT ![Into] = Dropped(old)]
    BY <1>5, <1>9 DEF DropPiece
  <2>2. PICK b \in Buffers : b = Dropped(old) /\ Inside(b) /\ b # NoBuf
    BY <1>5, <2>1, GrownInside
  <2>3. bufs' = [bufs EXCEPT ![Into] = b]
    BY <2>1, <2>2
  <2> QED
    BY <1>1, <1>2, <1>3, <2>2, <2>3
<1> QED
  BY <1>7, <1>8, <1>9

LEMMA NextByte ==
    ASSUME TypeInv, p < Len(text)
    PROVE  text[p + 1] \in Int
<1>1. PICK s \in Seq(Byte), n \in Nat : s = text /\ n = p
  BY DEF TypeInv
<1>2. n + 1 \in 1..Len(s)
  BY <1>1
<1>3. s[n + 1] \in Byte
  BY <1>2
<1> QED
  BY <1>1, <1>3, ByteIsInt

LEMMA TypeStep == TypeInv /\ BufInv /\ [Next]_vars => TypeInv'
<1> SUFFICES ASSUME TypeInv, BufInv, [Next]_vars PROVE TypeInv'
  OBVIOUS
<1>1. CASE Grow \/ AppendPiece \/ DropPiece
  <2>1. PICK b \in Buffers : bufs' = [bufs EXCEPT ![Into] = b]
    BY <1>1, IntoStep
  <2>2. bufs' \in [{"buf", "bytebuf"} -> Buffers]
    BY <2>1 DEF TypeInv
  <2>3. todo' \in Seq(Pieces) /\ UNCHANGED <<job, calls, text, p>>
    BY <1>1, IntoStep
  <2> QED
    BY <2>2, <2>3 DEF TypeInv
<1>2. CASE NewNameBuf
  BY <1>2, NewBufType DEF NewNameBuf, TypeInv
<1>3. CASE AppendCall
  <2>1. PICK c \in Call : c = calls[1]
    BY <1>3 DEF AppendCall, TypeInv
  <2>2. Piece(c.string, c.columns) \in Pieces
    BY BytesAreInts DEF Piece, Pieces, Call
  <2>3. calls' \in Seq(Call)
    BY <1>3 DEF AppendCall, TypeInv
  <2> QED
    BY <1>3, <2>1, <2>2, <2>3 DEF AppendCall, TypeInv
<1>4. CASE NameCall
  <2>1. PICK c \in Call : c = calls[1]
    BY <1>4 DEF NameCall, TypeInv
  <2>2. c.string \in Seq(Byte)
    BY DEF Call
  <2>3. calls' \in Seq(Call)
    BY <1>4 DEF NameCall, TypeInv
  <2>4. text' \in Seq(Byte) /\ p' \in Nat /\ bufs' \in [{"buf", "bytebuf"} -> Buffers]
    BY <1>4, <2>1, <2>2, NewBufType DEF NameCall, TypeInv
  <2> QED
    BY <1>4, <2>3, <2>4 DEF NameCall, TypeInv
<1>5. CASE ReadChar
  <2>1. text[p + 1] \in Int
    BY <1>5, NextByte DEF ReadChar
  <2>2. BytePiece(text[p + 1]) \in Pieces
    BY <2>1, BytePieceType DEF TypeInv
  <2>3. todo' \in Seq(Pieces) /\ p' \in Nat
    <3>1. PICK c \in Decode :
          CASE c.class = "incomplete" -> pc' = "bytes" /\ UNCHANGED <<p, todo>>
            [] c.class = "invalid" ->
                  todo' = << BytePiece(text[p + 1]) >> /\ p' = p + 1 /\ UNCHANGED pc
            [] OTHER ->
                  todo' = CharPieces(c) /\ p' = p + Len(c.bytes) /\ UNCHANGED pc
      BY <1>5 DEF ReadChar
    <3>2. c \in Chars \/ c.class \in {"incomplete", "invalid"}
      BY DEF Decode
    <3>3. CASE c.class = "incomplete"
      BY <3>1, <3>3 DEF TypeInv
    <3>4. CASE c.class = "invalid"
      <4>1. PICK b \in Pieces : b = BytePiece(text[p + 1])
        BY <2>2
      <4>2. todo' = <<b>> /\ p' = p + 1
        BY <3>1, <3>4, <4>1
      <4> QED
        BY <4>2 DEF TypeInv
    <3>5. CASE c.class \notin {"incomplete", "invalid"}
      <4>1. CharPieces(c) \in Seq(Pieces)
        BY <3>2, <3>5, CharPiecesType DEF TypeInv
      <4>2. Len(c.bytes) \in Nat
        BY <3>2, <3>5, EscapeAssumption DEF EscapeAssumption
      <4>3. todo' = CharPieces(c) /\ p' = p + Len(c.bytes)
        BY <3>1, <3>5
      <4> QED
        BY <4>1, <4>2, <4>3 DEF TypeInv
    <3> QED
      BY <3>3, <3>4, <3>5
  <2> QED
    BY <1>5, <2>3 DEF ReadChar, TypeInv
<1>6. CASE ReadByte
  <2>1. text[p + 1] \in Int
    BY <1>6, NextByte DEF ReadByte
  <2>2. PICK b \in Pieces : b = BytePiece(text[p + 1])
    BY <2>1, BytePieceType DEF TypeInv
  <2>3. todo' = <<b>> /\ p' = p + 1 /\ UNCHANGED <<job, calls, bufs, text>>
    BY <1>6, <2>2 DEF ReadByte
  <2> QED
    BY <2>3 DEF TypeInv
<1>7. CASE EndOfText
  <2>1. Piece(bufs["bytebuf"].data, bufs["bytebuf"].screenpos) \in Pieces
    BY DEF TypeInv, Buffers, Piece, Pieces
  <2> QED
    BY <1>7, <2>1 DEF EndOfText, TypeInv
<1>8. CASE FreeBytes
  <2>1. NoBuf \in Buffers
    BY DEF NoBuf, Buffers
  <2> QED
    BY <1>8, <2>1 DEF FreeBytes, TypeInv
<1>9. CASE FormatMessage
  <2>1. job.message \in Seq(Byte)
    BY EscapeAssumption DEF EscapeAssumption, TypeInv
  <2>2. Len(job.message) >= SmallSize => SubSeq(job.message, 1, SmallSize - 1) \in Seq(Byte)
    BY <2>1, EscapeAssumption DEF EscapeAssumption
  <2> QED
    BY <1>9, <2>1, <2>2 DEF FormatMessage, TypeInv
<1>10. CASE PutChar
  <2>1. p' \in Nat
    <3>1. CASE p' = p + 1
      BY <3>1 DEF TypeInv
    <3>2. CASE \E c \in Decode : c.class \notin {"invalid", "incomplete"} /\ p' = p + Len(c.bytes)
      <4>1. PICK c \in Decode : c.class \notin {"invalid", "incomplete"} /\ p' = p + Len(c.bytes)
        BY <3>2
      <4>2. c \in Chars
        BY <4>1 DEF Decode
      <4>3. Len(c.bytes) \in Nat
        BY <4>2, EscapeAssumption DEF EscapeAssumption
      <4> QED
        BY <4>1, <4>3 DEF TypeInv
    <3> QED
      BY <1>10, <3>1, <3>2 DEF PutChar
  <2> QED
    BY <1>10, <2>1 DEF PutChar, TypeInv
<1>11. CASE MakeField \/ MessageDone \/ Terminated \/ UNCHANGED vars
  BY <1>11 DEF MakeField, MessageDone, Terminated, vars, TypeInv
<1> QED
  BY <1>1, <1>2, <1>3, <1>4, <1>5, <1>6, <1>7, <1>8, <1>9, <1>10, <1>11 DEF Next, Program

LEMMA BufStep == TypeInv /\ BufInv /\ [Next]_vars => BufInv'
<1> SUFFICES ASSUME TypeInv, BufInv, [Next]_vars PROVE BufInv'
  OBVIOUS
<1>1. CASE Grow \/ AppendPiece \/ DropPiece
  <2>1. PICK b \in Buffers : Inside(b) /\ b # NoBuf /\ bufs' = [bufs EXCEPT ![Into] = b]
    BY <1>1, IntoStep
  <2>2. pc' = pc /\ pc \in {"calls", "text", "bytes", "join"}
    BY <1>1, IntoStep
  <2>3. \A x \in {"buf", "bytebuf"} : bufs'[x] = bufs[x] \/ bufs'[x] = b
    BY <2>1 DEF TypeInv
  <2> QED
    BY <2>1, <2>2, <2>3 DEF BufInv
<1>2. CASE NewNameBuf
  BY <1>2, NewBufType DEF NewNameBuf, TypeInv, BufInv
<1>3. CASE NameCall
  BY <1>3, NewBufType DEF NameCall, TypeInv, BufInv
<1>4. CASE FreeBytes
  BY <1>4 DEF FreeBytes, TypeInv, BufInv, Inside
<1>5. CASE AppendCall \/ EndOfText \/ MakeField \/ FormatMessage \/ MessageDone
  BY <1>5 DEF AppendCall, EndOfText, MakeField, FormatMessage, MessageDone, BufInv
<1>6. CASE ReadChar \/ ReadByte
  <2>1. bufs' = bufs /\ pc \in {"text", "bytes"} /\ pc' \in {"text", "bytes"}
    BY <1>6 DEF ReadChar, ReadByte
  <2> QED
    BY <2>1 DEF BufInv
<1>7. CASE PutChar
  <2>1. bufs' = bufs /\ pc' = pc /\ todo' = todo
    BY <1>7 DEF PutChar
  <2> QED
    BY <2>1 DEF BufInv
<1>8. CASE Terminated \/ UNCHANGED vars
  BY <1>8 DEF Terminated, vars, BufInv
<1> QED
  BY <1>1, <1>2, <1>3, <1>4, <1>5, <1>6, <1>7, <1>8 DEF Next, Program

\* Whatever is appended to a buffer, text and terminator are inside what is
\* allocated, however often it grows and whichever realloc() fails.
THEOREM StaysInsideHolds == Spec => []StaysInside
<1>1. TypeInv /\ BufInv => StaysInside
  BY DEF TypeInv, BufInv, Inside, StaysInside
<1>2. TypeInv /\ BufInv /\ [Next]_vars => (TypeInv /\ BufInv)'
  BY TypeStep, BufStep
<1> QED
  BY InvInit, <1>1, <1>2, PTL DEF Spec

-----------------------------------------------------------------------------
(* Joining: what is read of a sequence, at one place after the other.          *)

\* Induction: a set that has 0 and with every n also n + 1 has every number,
\* as the least one it lacked would be neither.
LEMMA InductionInSet ==
    ASSUME NEW S, 0 \in S, \A n \in Nat : n \in S => n + 1 \in S
    PROVE  Nat \subseteq S
<1> DEFINE Missing == Nat \ S
<1>1. SUFFICES ASSUME Missing # {} PROVE FALSE
  OBVIOUS
<1>2. PICK n \in Missing : \A m \in Missing : ~ (<<m, n>> \in OpToRel(<, Nat))
  <2>1. Missing \subseteq Nat
    OBVIOUS
  <2> HIDE DEF Missing
  <2> QED BY <1>1, <2>1, WFMin, NatLessThanWellFounded, Zenon
<1>3. n \in Nat /\ n # 0 /\ n - 1 \in Nat /\ n - 1 < n
  OBVIOUS
<1>4. n - 1 \notin Missing
  BY <1>2, <1>3 DEF OpToRel
<1> QED BY <1>3, <1>4

\* f[i] joins the items from place i to the last place n; the item at i is
\* followed by that at i + width[i].
JoinAt(f, n, item, width, i) ==
    IF i > n THEN << >> ELSE item[i] \o f[i + width[i]]

IsJoin(f, n, item, width) == f = [i \in 1..n + 1 |-> JoinAt(f, n, item, width, i)]

IsJoined(f, n, item, width) ==
    f[n + 1] = << >> /\ \A i \in 1..n : f[i] = item[i] \o f[i + width[i]]

Joinable(n, item, width, V) ==
    \A i \in 1..n : /\ item[i] \in Seq(V)
                    /\ width[i] \in Nat /\ width[i] > 0 /\ i + width[i] <= n + 1

LEMMA JoinableAt ==
    ASSUME NEW n \in Nat, NEW item, NEW width, NEW V, Joinable(n, item, width, V),
           NEW i \in 1..n
    PROVE  /\ item[i] \in Seq(V)
           /\ width[i] \in Nat /\ width[i] > 0 /\ i + width[i] <= n + 1
           /\ i + width[i] \in 1..n + 1
<1>1. /\ item[i] \in Seq(V)
      /\ width[i] \in Nat /\ width[i] > 0 /\ i + width[i] <= n + 1
  BY Zenon DEF Joinable
<1> QED BY <1>1

LEMMA JoinValue ==
    ASSUME NEW n \in Nat, NEW item, NEW width, NEW f, IsJoin(f, n, item, width)
    PROVE  IsJoined(f, n, item, width)
<1>1. \A i \in 1..n + 1 : f[i] = JoinAt(f, n, item, width, i)
  BY Zenon DEF IsJoin
<1>2. n + 1 \in 1..n + 1 /\ n + 1 > n
  OBVIOUS
<1>3. ASSUME NEW i \in 1..n PROVE f[i] = item[i] \o f[i + width[i]]
  <2>1. i \in 1..n + 1 /\ ~(i > n)
    OBVIOUS
  <2> QED BY <1>1, <2>1, Zenon DEF JoinAt
<1>4. f[n + 1] = << >>
  BY <1>1, <1>2, Zenon DEF JoinAt
<1> QED BY <1>3, <1>4, Zenon DEF IsJoined

LEMMA JoinExists ==
    ASSUME NEW n \in Nat, NEW item, NEW width, NEW V, Joinable(n, item, width, V)
    PROVE  \E f : IsJoin(f, n, item, width)
<1> DEFINE S == {k \in Nat : k <= n =>
                   \E f : f = [i \in n + 1 - k..n + 1 |-> JoinAt(f, n, item, width, i)]}
<1>1. 0 \in S
  <2>1. PICK f : f = [i \in n + 1..n + 1 |-> << >>]
    OBVIOUS
  <2>2. \A i \in n + 1..n + 1 : JoinAt(f, n, item, width, i) = << >>
    BY DEF JoinAt
  <2>3. f = [i \in n + 1..n + 1 |-> JoinAt(f, n, item, width, i)]
    BY <2>1, <2>2
  <2>4. n + 1 - 0 = n + 1
    OBVIOUS
  <2> QED BY <2>3, <2>4
<1>2. ASSUME NEW k \in Nat, k \in S PROVE k + 1 \in S
  <2> SUFFICES ASSUME k + 1 <= n
               PROVE  \E g : g = [i \in n + 1 - (k + 1)..n + 1 |-> JoinAt(g, n, item, width, i)]
    OBVIOUS
  <2>1. PICK f : f = [i \in n + 1 - k..n + 1 |-> JoinAt(f, n, item, width, i)]
    BY <1>2
  <2>2. PICK m \in 1..n : m = n + 1 - (k + 1) /\ m + 1 = n + 1 - k
    OBVIOUS
  <2>3. PICK g : g = [i \in m..n + 1 |-> IF i = m THEN JoinAt(f, n, item, width, i) ELSE f[i]]
    OBVIOUS
  <2>4. ASSUME NEW i \in m..n + 1 PROVE g[i] = JoinAt(g, n, item, width, i)
    <3>1. CASE i = n + 1
      BY <2>1, <2>2, <2>3, <3>1 DEF JoinAt
    <3>2. CASE i # n + 1
      <4>0. i \in 1..n
        BY <2>2, <3>2
      <4>1. width[i] \in Nat /\ width[i] > 0 /\ i + width[i] <= n + 1
        BY <4>0, JoinableAt
      <4>2. i + width[i] \in m + 1..n + 1
        BY <2>2, <4>1
      <4>3. g[i + width[i]] = f[i + width[i]]
        BY <2>2, <2>3, <4>2
      <4>4. g[i] = JoinAt(f, n, item, width, i)
        BY <2>1, <2>2, <2>3
      <4> QED BY <4>0, <4>1, <4>3, <4>4 DEF JoinAt
    <3> QED BY <3>1, <3>2
  <2>5. g = [i \in m..n + 1 |-> JoinAt(g, n, item, width, i)]
    BY <2>3, <2>4, Zenon
  <2> QED BY <2>2, <2>5
<1>3. n \in S
  <2> HIDE DEF S
  <2> QED BY <1>1, <1>2, InductionInSet
<1>4. PICK f : f = [i \in n + 1 - n..n + 1 |-> JoinAt(f, n, item, width, i)]
  BY <1>3
<1>5. n + 1 - n = 1
  OBVIOUS
<1> QED BY <1>4, <1>5 DEF IsJoin

LEMMA JoinType ==
    ASSUME NEW n \in Nat, NEW item, NEW width, NEW V, Joinable(n, item, width, V),
           NEW f, IsJoin(f, n, item, width)
    PROVE  \A i \in 1..n + 1 : f[i] \in Seq(V)
<1> DEFINE S == {k \in Nat : \A i \in 1..n + 1 : i >= n + 1 - k => f[i] \in Seq(V)}
<1>0. IsJoined(f, n, item, width)
  BY JoinValue, Zenon
<1>1. f[n + 1] = << >> /\ \A i \in 1..n : f[i] = item[i] \o f[i + width[i]]
  BY <1>0, Zenon DEF IsJoined
<1>2. f[n + 1] \in Seq(V)
  <2>1. << >> \in Seq(V)
    OBVIOUS
  <2> QED BY <1>1, <2>1, Zenon
<1>3. 0 \in S
  BY <1>2
<1>4. ASSUME NEW k \in Nat, k \in S PROVE k + 1 \in S
  <2> SUFFICES ASSUME NEW i \in 1..n + 1, i >= n + 1 - (k + 1) PROVE f[i] \in Seq(V)
    OBVIOUS
  <2>1. CASE i = n + 1
    BY <1>2, <2>1
  <2>2. CASE i # n + 1
    <3>1. i \in 1..n
      BY <2>2
    <3>2. /\ item[i] \in Seq(V) /\ width[i] \in Nat /\ width[i] > 0
          /\ i + width[i] \in 1..n + 1
      BY <3>1, JoinableAt, Zenon
    <3>3. i + width[i] >= n + 1 - k
      BY <3>2
    <3>4. f[i + width[i]] \in Seq(V)
      BY <1>4, <3>2, <3>3
    <3>5. f[i] = item[i] \o f[i + width[i]]
      BY <1>1, <3>1, Zenon
    <3>6. item[i] \o f[i + width[i]] \in Seq(V)
      BY <3>2, <3>4, ConcatProperties, Zenon
    <3> QED BY <3>5, <3>6, Zenon
  <2> QED BY <2>1, <2>2
<1>5. n \in S
  <2> HIDE DEF S
  <2> QED BY <1>3, <1>4, InductionInSet
<1> QED BY <1>5

\* B is closed, and its places have the items they had.
IsKept(B, n, item, width, more, wide) ==
    \A i \in 1..n : i \in B => /\ more[i] = item[i] /\ wide[i] = width[i]
                               /\ i + width[i] \in B

\* g joins more than f does: what is at place n + 1, which is the last.
JoinsMore(f, n, item, width, g, m, more, wide, B, V) ==
    /\ Joinable(n, item, width, V) /\ IsJoin(f, n, item, width)
    /\ Joinable(n + m, more, wide, V) /\ IsJoin(g, n + m, more, wide)
    /\ 1 \in B /\ n + 1 \in B /\ IsKept(B, n, item, width, more, wide)
    /\ m > 0 /\ wide[n + 1] = m

IsExtended(new, old, x) == new = old \o x

\* Where all places that are reached have the items they had, it is joined to
\* what was.
LEMMA JoinMore ==
    ASSUME NEW n \in Nat, NEW m \in Nat, NEW f, NEW item, NEW width, NEW g, NEW more, NEW wide,
           NEW B, NEW V, JoinsMore(f, n, item, width, g, m, more, wide, B, V)
    PROVE  IsExtended(g[1], f[1], more[n + 1])
<1>13. /\ Joinable(n, item, width, V) /\ IsJoin(f, n, item, width)
       /\ Joinable(n + m, more, wide, V) /\ IsJoin(g, n + m, more, wide)
       /\ 1 \in B /\ n + 1 \in B /\ m > 0 /\ wide[n + 1] = m
       /\ \A i \in 1..n : i \in B => more[i] = item[i] /\ wide[i] = width[i]
                                  /\ i + width[i] \in B
  BY Zenon DEF JoinsMore, IsKept
<1> DEFINE v == more[n + 1]
           S == {k \in Nat : \A i \in 1..n + 1 : i \in B /\ i >= n + 1 - k => g[i] = f[i] \o v}
<1>1. n + m \in Nat /\ n + 1 \in 1..n + m
  BY <1>13
<1>2. v \in Seq(V)
  BY <1>1, <1>13, JoinableAt, Zenon
<1>0. IsJoined(f, n, item, width) /\ IsJoined(g, n + m, more, wide)
  BY <1>1, <1>13, JoinValue, Zenon
<1>3. f[n + 1] = << >> /\ \A i \in 1..n : f[i] = item[i] \o f[i + width[i]]
  BY <1>0, Zenon DEF IsJoined
<1>4. g[n + m + 1] = << >> /\ \A i \in 1..n + m : g[i] = more[i] \o g[i + wide[i]]
  BY <1>0, Zenon DEF IsJoined
<1>10. \A i \in 1..n + 1 : f[i] \in Seq(V)
  BY <1>13, JoinType, Zenon
<1>5. g[n + 1] = v
  <2>1. g[n + 1] = v \o g[n + 1 + wide[n + 1]]
    BY <1>1, <1>4, Zenon
  <2>2. n + 1 + wide[n + 1] = n + m + 1
    BY <1>13
  <2>3. v \o << >> = v
    BY <1>2, ConcatEmptySeq, Zenon
  <2> HIDE DEF v
  <2> QED BY <1>4, <2>1, <2>2, <2>3, Zenon
<1> HIDE DEF v
<1>6. f[n + 1] \o v = v
  BY <1>2, <1>3, ConcatEmptySeq, Zenon
<1>7. 0 \in S
  BY <1>5, <1>6
<1>8. ASSUME NEW k \in Nat, k \in S PROVE k + 1 \in S
  <2> SUFFICES ASSUME NEW i \in 1..n + 1, i \in B, i >= n + 1 - (k + 1)
               PROVE  g[i] = f[i] \o v
    OBVIOUS
  <2>1. CASE i = n + 1
    BY <1>5, <1>6, <2>1
  <2>2. CASE i # n + 1
    <3>1. i \in 1..n /\ i \in 1..n + m
      BY <2>2
    <3>2. /\ item[i] \in Seq(V) /\ width[i] \in Nat /\ width[i] > 0
          /\ i + width[i] \in 1..n + 1
      BY <1>13, <3>1, JoinableAt, Zenon
    <3>3. i + width[i] >= n + 1 - k
      BY <3>2
    <3>4. more[i] = item[i] /\ wide[i] = width[i] /\ i + width[i] \in B
      BY <1>13, <3>1, Zenon
    <3>5. g[i + width[i]] = f[i + width[i]] \o v
      BY <1>8, <3>2, <3>3, <3>4
    <3>6. f[i] = item[i] \o f[i + width[i]]
      BY <1>3, <3>1, Zenon
    <3>7. g[i] = item[i] \o g[i + width[i]]
      BY <1>4, <3>1, <3>4, Zenon
    <3>8. f[i + width[i]] \in Seq(V)
      BY <1>10, <3>2, Zenon
    <3>9. item[i] \o (f[i + width[i]] \o v) = (item[i] \o f[i + width[i]]) \o v
      <4>1. PICK a \in Seq(V), b \in Seq(V), c \in Seq(V) :
               a = item[i] /\ b = f[i + width[i]] /\ c = v
        BY <1>2, <3>2, <3>8, Zenon
      <4>2. (a \o b) \o c = a \o (b \o c)
        BY ConcatAssociative, SMTT(30)
      <4> QED BY <4>1, <4>2, Zenon
    <3> QED BY <3>5, <3>6, <3>7, <3>9, Zenon
  <2> QED BY <2>1, <2>2
<1>9. n \in S
  <2>1. \A k \in Nat : k \in S => k + 1 \in S
    BY <1>8, Zenon
  <2> HIDE DEF S
  <2> QED BY <1>7, <2>1, InductionInSet
<1>11. 1 \in 1..n + 1 /\ 1 >= n + 1 - n
  OBVIOUS
<1>12. \A i \in 1..n + 1 : i \in B /\ i >= n + 1 - n => g[i] = f[i] \o v
  BY <1>9, Zenon
<1> QED BY <1>11, <1>12, <1>13, Zenon DEF v, IsExtended

-----------------------------------------------------------------------------
(* Reading: the characters that bytes show.                                    *)

Bad(b) == [bytes |-> <<b>>, columns |-> 0, class |-> "bad"]
Shown == Chars \cup {Bad(b) : b \in Int}

\* The bytes s are at i.
IsAt(s, bytes, i) ==
    i + Len(s) <= Len(bytes) + 1 /\ \A k \in 1..Len(s) : bytes[i + k - 1] = s[k]

LEMMA CharType ==
    ASSUME NEW c \in Chars
    PROVE  /\ c.bytes \in Seq(Int) /\ c.bytes \in Seq(Byte) /\ c.bytes # << >>
           /\ Len(c.bytes) \in Nat /\ Len(c.bytes) > 0
           /\ c.columns \in Int /\ c.class \in {"print", "cntrl", "other"}
<1>1. c \in [bytes : Seq(Byte) \ {<<>>}, columns : Nat \cup {-1},
             class : {"print", "cntrl", "other"}]
  BY EscapeAssumption DEF EscapeAssumption
<1>2. c.bytes \in Seq(Byte) /\ c.bytes # << >> /\ c.bytes \in Seq(Int)
  BY <1>1, BytesAreInts
<1>3. Len(c.bytes) \in Nat /\ Len(c.bytes) > 0
  BY <1>2
<1> QED BY <1>1, <1>2, <1>3

LEMMA PartOf ==
    ASSUME NEW S, NEW s \in Seq(S), NEW i \in Nat, i > 0, NEW j \in Nat, j <= Len(s), i <= j + 1
    PROVE  /\ SubSeq(s, i, j) \in Seq(S) /\ Len(SubSeq(s, i, j)) = j - i + 1
           /\ \A k \in 1..j - i + 1 : SubSeq(s, i, j)[k] = s[i + k - 1]
<1>1. \A k \in i..j : s[k] \in S
  BY ElementOfSeq
<1>2. /\ SubSeq(s, i, j) \in Seq(S)
      /\ Len(SubSeq(s, i, j)) = IF i <= j THEN j - i + 1 ELSE 0
      /\ \A k \in 1..j - i + 1 : SubSeq(s, i, j)[k] = s[i + k - 1]
  BY <1>1, SubSeqProperties
<1>3. (IF i <= j THEN j - i + 1 ELSE 0) = j - i + 1
  OBVIOUS
<1> QED BY <1>2, <1>3

LEMMA FrontsAlike ==
    ASSUME NEW s \in Seq(Int), NEW t \in Seq(Int), NEW m \in Nat, m <= Len(s), m <= Len(t)
    PROVE  (SubSeq(s, 1, m) = SubSeq(t, 1, m)) <=> \A k \in 1..m : t[k] = s[k]
<1>1. PICK a \in Seq(Int), b \in Seq(Int) : a = SubSeq(s, 1, m) /\ b = SubSeq(t, 1, m)
  <2>1. 1 \in Nat /\ 1 > 0 /\ 1 <= m + 1
    OBVIOUS
  <2>2. SubSeq(s, 1, m) \in Seq(Int) /\ SubSeq(t, 1, m) \in Seq(Int)
    BY <2>1, PartOf
  <2> QED BY <2>2
<1>2. Len(a) = m /\ Len(b) = m /\ \A k \in 1..m : a[k] = s[k] /\ b[k] = t[k]
  BY <1>1
<1>3. (a = b) <=> \A k \in 1..m : a[k] = b[k]
  BY <1>2
<1> QED BY <1>1, <1>2, <1>3

LEMMA PrefixIsAt ==
    ASSUME NEW bytes \in Seq(Int), NEW i \in 1..Len(bytes), NEW s \in Seq(Int)
    PROVE  IsPrefix(s, SubSeq(bytes, i, Len(bytes))) <=> IsAt(s, bytes, i)
<1>0. PICK n \in Nat, m \in Nat : n = Len(bytes) /\ m = Len(s)
  OBVIOUS
<1>1. PICK t \in Seq(Int) : t = SubSeq(bytes, i, n)
  <2>1. i \in Nat /\ i > 0 /\ n <= Len(bytes) /\ i <= n + 1
    BY <1>0
  <2>2. SubSeq(bytes, i, n) \in Seq(Int)
    BY <2>1, PartOf
  <2> QED BY <2>2
<1>2. Len(t) = n - i + 1 /\ \A k \in 1..n - i + 1 : t[k] = bytes[i + k - 1]
  <2>1. i \in Nat /\ i > 0 /\ n <= Len(bytes) /\ i <= n + 1
    BY <1>0
  <2> QED BY <1>1, <2>1, PartOf
<1>4. CASE m <= n - i + 1
  <2>2. \A k \in 1..m : k \in 1..n - i + 1
    BY <1>4
  <2>3. (SubSeq(s, 1, m) = SubSeq(t, 1, m)) <=> \A k \in 1..m : t[k] = s[k]
    <3>1. m <= Len(t) /\ m <= Len(s)
      BY <1>0, <1>2, <1>4
    <3> QED BY <3>1, FrontsAlike
  <2>4. (\A k \in 1..m : t[k] = s[k]) <=> \A k \in 1..m : bytes[i + k - 1] = s[k]
    BY <1>2, <2>2
  <2>5. m <= Len(t) /\ i + m <= n + 1
    BY <1>2, <1>4
  <2> QED BY <1>0, <1>1, <2>3, <2>4, <2>5, Zenon DEF IsPrefix, IsAt
<1>5. CASE ~(m <= n - i + 1)
  <2>1. ~(m <= Len(t)) /\ ~(i + m <= n + 1)
    BY <1>2, <1>5
  <2> QED BY <1>0, <1>1, <2>1, Zenon DEF IsPrefix, IsAt
<1> QED BY <1>4, <1>5

\* Only one character begins where one does.
LEMMA OneCharAt ==
    ASSUME NEW bytes \in Seq(Int), NEW i \in 1..Len(bytes),
           NEW c \in Chars, IsAt(c.bytes, bytes, i), NEW d \in Chars, IsAt(d.bytes, bytes, i)
    PROVE  c = d
<1>1. PICK s \in Seq(Int), t \in Seq(Int) : s = c.bytes /\ t = d.bytes
  BY CharType, Zenon
<1>2. ASSUME NEW u \in Seq(Int), NEW v \in Seq(Int), IsAt(u, bytes, i), IsAt(v, bytes, i),
             Len(u) <= Len(v)
      PROVE  IsPrefix(u, v)
  <2>0. (\A k \in 1..Len(u) : bytes[i + k - 1] = u[k]) /\ (\A k \in 1..Len(v) : bytes[i + k - 1] = v[k])
    BY <1>2, Zenon DEF IsAt
  <2>1. ASSUME NEW k \in 1..Len(u) PROVE u[k] = v[k]
    <3>1. k \in 1..Len(v)
      BY <1>2
    <3> QED BY <2>0, <3>1, Zenon
  <2>2. SubSeq(u, 1, Len(u)) = SubSeq(v, 1, Len(u))
    <3>1. Len(u) \in Nat /\ Len(u) <= Len(u) /\ \A k \in 1..Len(u) : v[k] = u[k]
      BY <2>1
    <3> QED BY <1>2, <3>1, FrontsAlike
  <2> QED BY <1>2, <2>2 DEF IsPrefix
<1>3. Len(s) <= Len(t) \/ Len(t) <= Len(s)
  OBVIOUS
<1>4. IsPrefix(s, t) \/ IsPrefix(t, s)
  BY <1>1, <1>2, <1>3, Zenon
<1>5. \A x, y \in Chars : IsPrefix(x.bytes, y.bytes) => x = y
  BY Zenon, EscapeAssumption DEF EscapeAssumption
<1> QED BY <1>1, <1>4, <1>5, Zenon

LEMMA CharAtIs ==
    ASSUME NEW bytes \in Seq(Int), NEW i \in 1..Len(bytes),
           NEW c \in Chars, IsAt(c.bytes, bytes, i)
    PROVE  CharAt(bytes, i) = c
<1> DEFINE starts == {d \in Chars : IsPrefix(d.bytes, SubSeq(bytes, i, Len(bytes)))}
<1>1. \A d \in Chars : d.bytes \in Seq(Int)
  BY CharType, Zenon
<1>2. \A d \in starts : d \in Chars /\ IsAt(d.bytes, bytes, i)
  BY <1>1, PrefixIsAt, Zenon
<1>3. c \in starts
  BY <1>1, PrefixIsAt, Zenon
<1> HIDE DEF starts
<1>4. (CHOOSE d \in starts : TRUE) \in starts
  BY <1>3, Zenon
<1>5. (CHOOSE d \in starts : TRUE) = c
  BY <1>2, <1>4, OneCharAt, Zenon
<1>6. starts # {}
  BY <1>3
<1> QED BY <1>5, <1>6, Zenon DEF CharAt, starts

LEMMA CharAtType ==
    ASSUME NEW bytes \in Seq(Int), NEW i \in 1..Len(bytes)
    PROVE  LET x == CharAt(bytes, i)
           IN  /\ x \in Shown
               /\ x.bytes \in Seq(Int) /\ Len(x.bytes) \in Nat /\ Len(x.bytes) > 0
               /\ i + Len(x.bytes) <= Len(bytes) + 1
               /\ x \in Chars => IsAt(x.bytes, bytes, i)
               /\ Len(x.bytes) = 1 => x.bytes = <<bytes[i]>>
<1>1. CASE \E c \in Chars : IsAt(c.bytes, bytes, i)
  <2>1. PICK c \in Chars : IsAt(c.bytes, bytes, i)
    BY <1>1
  <2>2. CharAt(bytes, i) = c
    BY <2>1, CharAtIs, Zenon
  <2>3. /\ c.bytes \in Seq(Int) /\ Len(c.bytes) \in Nat /\ Len(c.bytes) > 0
        /\ i + Len(c.bytes) <= Len(bytes) + 1
    BY <2>1, CharType, Zenon DEF IsAt
  <2>4. c \in Shown
    BY DEF Shown
  <2>5. Len(c.bytes) = 1 => c.bytes = <<bytes[i]>>
    <3>1. PICK s \in Seq(Int) : s = c.bytes
      BY <2>3
    <3>2. Len(s) = 1 => s[1] = bytes[i]
      BY <2>1, <3>1 DEF IsAt
    <3> QED BY <3>1, <3>2
  <2> QED BY <2>1, <2>2, <2>3, <2>4, <2>5, Zenon
<1>2. CASE \A c \in Chars : ~IsAt(c.bytes, bytes, i)
  <2>1. \A d \in Chars : d.bytes \in Seq(Int)
    BY CharType, Zenon
  <2>2. \A c \in Chars : ~IsPrefix(c.bytes, SubSeq(bytes, i, Len(bytes)))
    BY <1>2, <2>1, PrefixIsAt, Zenon
  <2>3. CharAt(bytes, i) = Bad(bytes[i])
    BY <2>2 DEF CharAt, Bad
  <2>4. PICK b \in Int : b = bytes[i]
    OBVIOUS
  <2>5. /\ Bad(b) \in Shown /\ Bad(b).bytes = <<b>> /\ <<b>> \in Seq(Int) /\ Len(<<b>>) = 1
        /\ i + 1 <= Len(bytes) + 1
    BY DEF Shown, Bad
  <2>6. Bad(b) \notin Chars
    <3>1. Bad(b).class = "bad"
      BY DEF Bad
    <3> QED BY <3>1, CharType
  <2> QED BY <2>3, <2>4, <2>5, <2>6
<1> QED BY <1>1, <1>2, Zenon

ReadItem(bytes) == [i \in 1..Len(bytes) |-> <<CharAt(bytes, i)>>]
ReadWidth(bytes) == [i \in 1..Len(bytes) |-> Len(CharAt(bytes, i).bytes)]

IsReading(f, bytes) ==
    IsJoin(f, Len(bytes), ReadItem(bytes), ReadWidth(bytes)) /\ Read(bytes) = f[1]

LEMMA ReadJoinable ==
    ASSUME NEW bytes \in Seq(Int)
    PROVE  Joinable(Len(bytes), ReadItem(bytes), ReadWidth(bytes), Shown)
<1>1. ASSUME NEW i \in 1..Len(bytes)
      PROVE  /\ ReadItem(bytes)[i] \in Seq(Shown)
             /\ ReadWidth(bytes)[i] \in Nat /\ ReadWidth(bytes)[i] > 0
             /\ i + ReadWidth(bytes)[i] <= Len(bytes) + 1
  <2>1. /\ ReadItem(bytes)[i] = <<CharAt(bytes, i)>>
        /\ ReadWidth(bytes)[i] = Len(CharAt(bytes, i).bytes)
    BY Zenon DEF ReadItem, ReadWidth
  <2>2. PICK x : x = CharAt(bytes, i)
    OBVIOUS
  <2>3. /\ x \in Shown /\ Len(x.bytes) \in Nat /\ Len(x.bytes) > 0
        /\ i + Len(x.bytes) <= Len(bytes) + 1
    BY <2>2, CharAtType, Zenon
  <2>4. <<x>> \in Seq(Shown)
    BY <2>3
  <2> QED BY <2>1, <2>2, <2>3, <2>4, Zenon
<1> QED BY <1>1, Zenon DEF Joinable

LEMMA ReadIsJoin ==
    ASSUME NEW bytes \in Seq(Int)
    PROVE  \E f : IsReading(f, bytes)
<1> DEFINE Is(f) == f = [i \in 1..Len(bytes) + 1 |->
                           IF i > Len(bytes) THEN << >>
                           ELSE <<CharAt(bytes, i)>> \o f[i + Len(CharAt(bytes, i).bytes)]]
           item == ReadItem(bytes)
           width == ReadWidth(bytes)
<1>1. ASSUME NEW f PROVE Is(f) <=> IsJoin(f, Len(bytes), item, width)
  <2>1. ASSUME NEW i \in 1..Len(bytes) + 1
        PROVE  JoinAt(f, Len(bytes), item, width, i)
               = IF i > Len(bytes) THEN << >>
                 ELSE <<CharAt(bytes, i)>> \o f[i + Len(CharAt(bytes, i).bytes)]
    <3>1. CASE i > Len(bytes)
      BY <3>1, Zenon DEF JoinAt
    <3>2. CASE ~(i > Len(bytes))
      <4>1. i \in 1..Len(bytes)
        BY <3>2
      <4>2. item[i] = <<CharAt(bytes, i)>> /\ width[i] = Len(CharAt(bytes, i).bytes)
        BY <4>1, Zenon DEF ReadItem, ReadWidth
      <4> HIDE DEF item, width
      <4> QED BY <3>2, <4>2, Zenon DEF JoinAt
    <3> QED BY <3>1, <3>2, Zenon
  <2> HIDE DEF item, width
  <2> QED BY <2>1, Zenon DEF IsJoin
<1>2. Read(bytes) = (CHOOSE f : Is(f))[1]
  BY Zenon DEF Read
<1>3. \E f : IsJoin(f, Len(bytes), item, width)
  <2>1. Len(bytes) \in Nat /\ Joinable(Len(bytes), item, width, Shown)
    BY ReadJoinable
  <2> HIDE DEF item, width
  <2> QED BY <2>1, JoinExists, Zenon
<1> HIDE DEF Is
<1>4. PICK f : f = (CHOOSE h : Is(h)) /\ Is(f)
  BY <1>1, <1>3, Zenon
<1> QED BY <1>1, <1>2, <1>4, Zenon DEF IsReading

LEMMA HeadAndRest ==
    ASSUME NEW V, NEW b \in Seq(V), NEW W, NEW x, x \in V, <<x>> \o b \in Seq(W)
    PROVE  x \in W /\ b \in Seq(W)
<1>1. PICK s \in Seq(W) : s = <<x>> \o b
  OBVIOUS
<1>2. Len(s) = Len(b) + 1 /\ s[1] = x /\ \A i \in 1..Len(b) : s[i + 1] = b[i]
  BY <1>1
<1>3. s[1] \in W /\ \A i \in 1..Len(b) : s[i + 1] \in W
  BY <1>2
<1> QED BY <1>2, <1>3

\* What is read of data is read of it still when there is more behind it.
LEMMA ReadMore ==
    ASSUME NEW data \in Seq(Int), Read(data) \in Seq(Chars),
           NEW s \in Seq(Int), s # << >>,
           Len(CharAt(data \o s, Len(data) + 1).bytes) = Len(s)
    PROVE  Read(data \o s) = Read(data) \o <<CharAt(data \o s, Len(data) + 1)>>
<1>1. PICK n \in Nat, m \in Nat : n = Len(data) /\ m = Len(s) /\ m > 0
  OBVIOUS
<1>2. PICK all \in Seq(Int) : /\ all = data \o s /\ Len(all) = n + m
                              /\ \A i \in 1..n : all[i] = data[i]
  <2>1. /\ data \o s \in Seq(Int) /\ Len(data \o s) = Len(data) + Len(s)
        /\ \A i \in 1..Len(data) + Len(s) :
              (data \o s)[i] = IF i <= Len(data) THEN data[i] ELSE s[i - Len(data)]
    BY ConcatProperties
  <2>2. \A i \in 1..n : (data \o s)[i] = data[i]
    BY <1>1, <2>1
  <2> QED BY <1>1, <2>1, <2>2
<1>3. PICK f : IsReading(f, data)
  BY ReadIsJoin
<1>4. PICK g : IsReading(g, all)
  BY ReadIsJoin
<1>5. PICK item, width : item = ReadItem(data) /\ width = ReadWidth(data)
  OBVIOUS
<1>6. PICK more, wide : more = ReadItem(all) /\ wide = ReadWidth(all)
  OBVIOUS
<1>7. Joinable(n, item, width, Shown) /\ IsJoin(f, n, item, width) /\ Read(data) = f[1]
  BY <1>1, <1>3, <1>5, ReadJoinable, Zenon DEF IsReading
<1>8. Joinable(n + m, more, wide, Shown) /\ IsJoin(g, n + m, more, wide) /\ Read(all) = g[1]
  BY <1>2, <1>4, <1>6, ReadJoinable, Zenon DEF IsReading
<1>9. PICK B : B = {i \in 1..n + 1 : f[i] \in Seq(Chars)}
  OBVIOUS
<1>10. IsJoined(f, n, item, width)
  BY <1>7, JoinValue, Zenon
<1>11. 1 \in B /\ n + 1 \in B
  <2>1. 1 \in 1..n + 1 /\ n + 1 \in 1..n + 1 /\ << >> \in Seq(Chars)
    OBVIOUS
  <2>2. f[n + 1] = << >>
    BY <1>10, Zenon DEF IsJoined
  <2> QED BY <1>7, <1>9, <2>1, <2>2
<1>12. ASSUME NEW i \in 1..n, i \in B
       PROVE  more[i] = item[i] /\ wide[i] = width[i] /\ i + width[i] \in B
  <2>1. PICK x : x = CharAt(data, i)
    OBVIOUS
  <2>2. i \in 1..Len(data) /\ i \in 1..Len(all)
    BY <1>1, <1>2
  <2>3. item[i] = <<x>> /\ width[i] = Len(x.bytes)
    BY <1>5, <2>1, <2>2, Zenon DEF ReadItem, ReadWidth
  <2>4. i + width[i] \in 1..n + 1 /\ f[i + width[i]] \in Seq(Shown) /\ x \in Shown
    <3>1. \A j \in 1..n + 1 : f[j] \in Seq(Shown)
      BY <1>7, JoinType, Zenon
    <3>2. i + width[i] \in 1..n + 1
      BY <1>7, JoinableAt, Zenon
    <3> QED BY <2>1, <2>2, <3>1, <3>2, CharAtType, Zenon
  <2>5. <<x>> \o f[i + width[i]] \in Seq(Chars)
    <3>1. f[i] = item[i] \o f[i + width[i]]
      BY <1>10, Zenon DEF IsJoined
    <3> QED BY <1>9, <1>12, <2>3, <3>1, Zenon
  <2>6. x \in Chars /\ f[i + width[i]] \in Seq(Chars)
    BY <2>4, <2>5, HeadAndRest, Zenon
  <2>7. IsAt(x.bytes, data, i)
    BY <2>1, <2>2, <2>6, CharAtType, Zenon
  <2>8. IsAt(x.bytes, all, i)
    <3>1. PICK t \in Seq(Int) : t = x.bytes
      BY <2>6, CharType, Zenon
    <3>2. i + Len(t) <= n + 1 /\ \A k \in 1..Len(t) : data[i + k - 1] = t[k]
      BY <1>1, <2>7, <3>1, Zenon DEF IsAt
    <3>3. \A k \in 1..Len(t) : i + k - 1 \in 1..n
      BY <3>2
    <3>4. \A k \in 1..Len(t) : all[i + k - 1] = t[k]
      BY <1>2, <3>2, <3>3
    <3>5. i + Len(t) <= Len(all) + 1
      BY <1>2, <3>2
    <3> QED BY <3>1, <3>4, <3>5, Zenon DEF IsAt
  <2>9. CharAt(all, i) = x
    BY <2>2, <2>6, <2>8, CharAtIs, Zenon
  <2>10. more[i] = <<x>> /\ wide[i] = Len(x.bytes)
    BY <1>6, <2>2, <2>9, Zenon DEF ReadItem, ReadWidth
  <2> QED BY <1>9, <2>3, <2>4, <2>6, <2>10
<1>13. n + 1 \in 1..Len(all)
  BY <1>1, <1>2
<1>14. wide[n + 1] = m /\ more[n + 1] = <<CharAt(all, n + 1)>>
  <2>1. wide[n + 1] = Len(CharAt(all, n + 1).bytes) /\ more[n + 1] = <<CharAt(all, n + 1)>>
    BY <1>6, <1>13, Zenon DEF ReadItem, ReadWidth
  <2> QED BY <1>1, <1>2, <2>1
<1>15. g[1] = f[1] \o more[n + 1]
  <2>1. IsKept(B, n, item, width, more, wide)
    BY <1>12, Zenon DEF IsKept
  <2>2. m > 0 /\ wide[n + 1] = m
    BY <1>1, <1>14
  <2>3. JoinsMore(f, n, item, width, g, m, more, wide, B, Shown)
    BY <1>7, <1>8, <1>11, <2>1, <2>2, Zenon DEF JoinsMore
  <2>4. IsExtended(g[1], f[1], more[n + 1])
    BY <2>3, JoinMore, Zenon
  <2> QED BY <2>4, Zenon DEF IsExtended
<1> QED BY <1>1, <1>2, <1>7, <1>8, <1>14, <1>15, Zenon

-----------------------------------------------------------------------------
(* Undoing: the bytes that characters stand for.                               *)

UndoItem(chars) == [i \in 1..Len(chars) |-> Meaning(chars, i)]
UndoWidth(chars) == [i \in 1..Len(chars) |-> ShownWidth(chars, i)]

IsUndoing(f, chars) ==
    IsJoin(f, Len(chars), UndoItem(chars), UndoWidth(chars)) /\ Undo(chars) = f[1]

LEMMA MeaningType ==
    ASSUME NEW chars \in Seq(Chars), NEW i \in 1..Len(chars)
    PROVE  /\ Meaning(chars, i) \in Seq(Int)
           /\ ShownWidth(chars, i) \in {1, 2, 4} /\ i + ShownWidth(chars, i) <= Len(chars) + 1
<1>1. \A j \in 1..Len(chars) : chars[j] \in Chars
  OBVIOUS
<1>2. \A j \in 1..Len(chars) : chars[j].bytes \in Seq(Int) /\ chars[j].bytes[1] \in Int
  <2> TAKE j \in 1..Len(chars)
  <2>1. PICK s \in Seq(Int) : s = chars[j].bytes /\ Len(s) \in Nat /\ Len(s) > 0
    BY <1>1, CharType
  <2>2. s[1] \in Int
    BY <2>1
  <2> QED BY <2>1, <2>2
<1>3. CASE IsOctal(chars, i)
  <2>1. ShownWidth(chars, i) = 4
    BY <1>3, Zenon DEF ShownWidth
  <2>2. i + 1 \in 1..Len(chars) /\ i + 2 \in 1..Len(chars) /\ i + 3 \in 1..Len(chars)
    BY <1>3 DEF IsOctal
  <2>3. PICK d \in Int, e \in Int, o \in Int : /\ d = chars[i + 1].bytes[1] - 48
                                               /\ e = chars[i + 2].bytes[1] - 48
                                               /\ o = chars[i + 3].bytes[1] - 48
    <3>1. PICK x \in Int, y \in Int, z \in Int : /\ x = chars[i + 1].bytes[1]
                                                 /\ y = chars[i + 2].bytes[1]
                                                 /\ z = chars[i + 3].bytes[1]
      BY <1>2, <2>2, Zenon
    <3>2. x - 48 \in Int /\ y - 48 \in Int /\ z - 48 \in Int
      OBVIOUS
    <3> QED BY <3>1, <3>2, Zenon
  <2>4. Meaning(chars, i) = << (64 * d) + (8 * e) + o >>
    BY <1>3, <2>3 DEF Meaning
  <2>5. << (64 * d) + (8 * e) + o >> \in Seq(Int)
    OBVIOUS
  <2> QED BY <2>1, <2>2, <2>4, <2>5
<1>4. CASE ~IsOctal(chars, i) /\ IsEscape(chars, i)
  <2>1. ShownWidth(chars, i) = 2 /\ i + 1 \in 1..Len(chars)
    BY <1>4 DEF ShownWidth, IsEscape
  <2>2. Meaning(chars, i) \in Seq(Int)
    <3> DEFINE named == {b \in DOMAIN Named : chars[i + 1].bytes = <<Named[b]>>}
    <3>1. Meaning(chars, i) = IF named # {} THEN << CHOOSE b \in named : TRUE >>
                              ELSE chars[i + 1].bytes
      BY <1>4, Zenon DEF Meaning
    <3>2. named \subseteq Int
      BY DEF Named
    <3> HIDE DEF named
    <3>3. CASE named # {}
      <4>1. PICK b \in Int : b = CHOOSE x \in named : TRUE
        BY <3>2, <3>3
      <4>2. <<b>> \in Seq(Int)
        OBVIOUS
      <4> QED BY <3>1, <3>3, <4>1, <4>2
    <3>4. CASE named = {}
      BY <1>2, <2>1, <3>1, <3>4
    <3> QED BY <3>3, <3>4
  <2> QED BY <2>1, <2>2
<1>5. CASE ~IsOctal(chars, i) /\ ~IsEscape(chars, i)
  <2>1. ShownWidth(chars, i) = 1 /\ Meaning(chars, i) = chars[i].bytes
    BY <1>5, Zenon DEF ShownWidth, Meaning
  <2> QED BY <1>2, <2>1
<1> QED BY <1>3, <1>4, <1>5, Zenon

LEMMA UndoJoinable ==
    ASSUME NEW chars \in Seq(Chars)
    PROVE  Joinable(Len(chars), UndoItem(chars), UndoWidth(chars), Int)
<1>1. ASSUME NEW i \in 1..Len(chars)
      PROVE  /\ UndoItem(chars)[i] \in Seq(Int)
             /\ UndoWidth(chars)[i] \in Nat /\ UndoWidth(chars)[i] > 0
             /\ i + UndoWidth(chars)[i] <= Len(chars) + 1
  <2>1. UndoItem(chars)[i] = Meaning(chars, i) /\ UndoWidth(chars)[i] = ShownWidth(chars, i)
    BY Zenon DEF UndoItem, UndoWidth
  <2>2. PICK w \in {1, 2, 4} : w = ShownWidth(chars, i) /\ i + w <= Len(chars) + 1
    BY MeaningType, Zenon
  <2>3. w \in Nat /\ w > 0
    OBVIOUS
  <2> QED BY <2>1, <2>2, <2>3, MeaningType, Zenon
<1> QED BY <1>1, Zenon DEF Joinable

LEMMA UndoIsJoin ==
    ASSUME NEW chars \in Seq(Chars)
    PROVE  \E f : IsUndoing(f, chars)
<1> DEFINE Is(f) == f = [i \in 1..Len(chars) + 1 |->
                           IF i > Len(chars) THEN << >>
                           ELSE Meaning(chars, i) \o f[i + ShownWidth(chars, i)]]
           item == UndoItem(chars)
           width == UndoWidth(chars)
<1>1. ASSUME NEW f PROVE Is(f) <=> IsJoin(f, Len(chars), item, width)
  <2>1. ASSUME NEW i \in 1..Len(chars) + 1
        PROVE  JoinAt(f, Len(chars), item, width, i)
               = IF i > Len(chars) THEN << >>
                 ELSE Meaning(chars, i) \o f[i + ShownWidth(chars, i)]
    <3>1. CASE i > Len(chars)
      BY <3>1, Zenon DEF JoinAt
    <3>2. CASE ~(i > Len(chars))
      <4>1. i \in 1..Len(chars)
        BY <3>2
      <4>2. item[i] = Meaning(chars, i) /\ width[i] = ShownWidth(chars, i)
        BY <4>1, Zenon DEF UndoItem, UndoWidth
      <4> HIDE DEF item, width
      <4> QED BY <3>2, <4>2, Zenon DEF JoinAt
    <3> QED BY <3>1, <3>2, Zenon
  <2> HIDE DEF item, width
  <2> QED BY <2>1, Zenon DEF IsJoin
<1>2. Undo(chars) = (CHOOSE f : Is(f))[1]
  BY Zenon DEF Undo
<1>3. \E f : IsJoin(f, Len(chars), item, width)
  <2>1. Len(chars) \in Nat /\ Joinable(Len(chars), item, width, Int)
    BY UndoJoinable
  <2> HIDE DEF item, width
  <2> QED BY <2>1, JoinExists, Zenon
<1> HIDE DEF Is
<1>4. PICK f : f = (CHOOSE h : Is(h)) /\ Is(f)
  BY <1>1, <1>3, Zenon
<1> QED BY <1>1, <1>2, <1>4, Zenon DEF IsUndoing

\* An escape that begins at i does not end before its last character, so that
\* more characters behind do not change it.
Digits == {<<d>> : d \in 48..55}
Settled(chars, i) ==
    chars[i].bytes = <<Backslash>> =>
        /\ i < Len(chars)
        /\ chars[i + 1].bytes \in Digits => i + 3 <= Len(chars)

LEMMA MeaningSame ==
    ASSUME NEW a \in Seq(Chars), NEW b \in Seq(Chars),
           NEW i \in 1..Len(a), NEW k \in 1..Len(b), Len(a) - i <= Len(b) - k,
           \A j \in 0..Len(a) - i : b[k + j] = a[i + j],
           Settled(a, i)
    PROVE  /\ Meaning(b, k) = Meaning(a, i) /\ ShownWidth(b, k) = ShownWidth(a, i)
           /\ Settled(b, k)
<1>1. b[k] = a[i]
  <2>1. 0 \in 0..Len(a) - i /\ k + 0 = k /\ i + 0 = i
    OBVIOUS
  <2> QED BY <2>1, Zenon
<1>2. CASE a[i].bytes # <<Backslash>>
  <2>1. ~IsEscape(a, i) /\ ~IsEscape(b, k) /\ ~IsOctal(a, i) /\ ~IsOctal(b, k)
    BY <1>1, <1>2, Zenon DEF IsEscape, IsOctal
  <2>2. Meaning(a, i) = a[i].bytes /\ Meaning(b, k) = b[k].bytes
    BY <2>1, Zenon DEF Meaning
  <2>3. ShownWidth(a, i) = 1 /\ ShownWidth(b, k) = 1
    BY <2>1, Zenon DEF ShownWidth
  <2> QED BY <1>1, <1>2, <2>2, <2>3, Zenon DEF Settled
<1>3. CASE a[i].bytes = <<Backslash>>
  <2>1. i < Len(a) /\ k < Len(b) /\ b[k + 1] = a[i + 1]
    <3>1. i < Len(a)
      BY <1>3, Zenon DEF Settled
    <3>2. 1 \in 0..Len(a) - i /\ k < Len(b)
      BY <3>1
    <3> QED BY <3>1, <3>2, Zenon
  <2>2. IsEscape(a, i) /\ IsEscape(b, k)
    BY <1>1, <1>3, <2>1, Zenon DEF IsEscape
  <2>3. CASE a[i + 1].bytes \in Digits
    <3>1. i + 3 <= Len(a)
      BY <1>3, <2>3, Zenon DEF Settled
    <3>2. k + 3 <= Len(b) /\ 2 \in 0..Len(a) - i /\ 3 \in 0..Len(a) - i
      BY <3>1
    <3>3. b[k + 2] = a[i + 2] /\ b[k + 3] = a[i + 3]
      BY <3>2, Zenon
    <3>4. IsOctal(a, i) /\ IsOctal(b, k)
      BY <2>1, <2>2, <2>3, <3>1, <3>2, Zenon DEF IsOctal, Digits
    <3>5. ShownWidth(a, i) = 4 /\ ShownWidth(b, k) = 4
      BY <3>4, Zenon DEF ShownWidth
    <3>6. Meaning(b, k) = Meaning(a, i)
      <4>1. Meaning(a, i) = << (64 * (a[i + 1].bytes[1] - 48)) + (8 * (a[i + 2].bytes[1] - 48))
                               + (a[i + 3].bytes[1] - 48) >>
        BY <3>4, Zenon DEF Meaning
      <4>2. Meaning(b, k) = << (64 * (b[k + 1].bytes[1] - 48)) + (8 * (b[k + 2].bytes[1] - 48))
                               + (b[k + 3].bytes[1] - 48) >>
        BY <3>4, Zenon DEF Meaning
      <4> QED BY <2>1, <3>3, <4>1, <4>2, Zenon
    <3> QED BY <2>1, <3>2, <3>5, <3>6, Zenon DEF Settled
  <2>4. CASE a[i + 1].bytes \notin Digits
    <3>1. ~IsOctal(a, i) /\ ~IsOctal(b, k)
      BY <2>1, <2>4, Zenon DEF IsOctal, Digits
    <3>2. ShownWidth(a, i) = 2 /\ ShownWidth(b, k) = 2
      BY <2>2, <3>1, Zenon DEF ShownWidth
    <3>3. Meaning(b, k) = Meaning(a, i)
      <4> DEFINE NamedBy(c) == {x \in DOMAIN Named : c.bytes = <<Named[x]>>}
                 Value(c) == IF NamedBy(c) # {} THEN << CHOOSE x \in NamedBy(c) : TRUE >>
                             ELSE c.bytes
      <4>1. Meaning(a, i) = Value(a[i + 1])
        BY <2>2, <3>1, Zenon DEF Meaning
      <4>2. Meaning(b, k) = Value(b[k + 1])
        BY <2>2, <3>1, Zenon DEF Meaning
      <4> HIDE DEF Value
      <4> QED BY <2>1, <4>1, <4>2, Zenon
    <3> QED BY <2>1, <2>4, <3>2, <3>3, Zenon DEF Settled
  <2> QED BY <2>3, <2>4, Zenon
<1> QED BY <1>2, <1>3, Zenon

\* Characters that are units from the first to the last, and one unit.
IsWhole(chars, B) ==
    /\ 1 \in B /\ Len(chars) + 1 \in B
    /\ \A i \in 1..Len(chars) : i \in B => Settled(chars, i) /\ i + ShownWidth(chars, i) \in B
Whole(chars) == \E B \in SUBSET (1..Len(chars) + 1) : IsWhole(chars, B)

IsUnit(u) == /\ u \in Seq(Chars) /\ u # << >>
             /\ Settled(u, 1) /\ ShownWidth(u, 1) = Len(u)

LEMMA NothingIsWhole == Whole(<< >>) /\ Undo(<< >>) = << >>
<1>1. Len(<< >>) = 0 /\ << >> \in Seq(Chars)
  OBVIOUS
<1>2. IsWhole(<< >>, {1})
  <2>1. 0 + 1 = 1 /\ 1..0 = {}
    OBVIOUS
  <2> QED BY <1>1, <2>1 DEF IsWhole
<1>3. {1} \in SUBSET (1..Len(<< >>) + 1)
  BY <1>1
<1>4. PICK f : IsUndoing(f, << >>)
  BY <1>1, UndoIsJoin
<1>5. f[0 + 1] = << >>
  <2>1. IsJoined(f, 0, UndoItem(<< >>), UndoWidth(<< >>))
    BY <1>1, <1>4, JoinValue DEF IsUndoing
  <2> QED BY <2>1, Zenon DEF IsJoined
<1>6. Undo(<< >>) = << >>
  BY <1>4, <1>5 DEF IsUndoing
<1> QED BY <1>2, <1>3, <1>6, Zenon DEF Whole

\* A unit more stands for its bytes more.
LEMMA UndoMore ==
    ASSUME NEW chars \in Seq(Chars), Whole(chars), NEW u, IsUnit(u)
    PROVE  Whole(chars \o u) /\ Undo(chars \o u) = Undo(chars) \o Meaning(u, 1)
<1>0. u \in Seq(Chars) /\ u # << >> /\ Settled(u, 1) /\ ShownWidth(u, 1) = Len(u)
  BY Zenon DEF IsUnit
<1>1. PICK n \in Nat, m \in Nat : n = Len(chars) /\ m = Len(u) /\ m > 0
  BY <1>0
<1>2. PICK all \in Seq(Chars) : /\ all = chars \o u /\ Len(all) = n + m
                                /\ \A i \in 1..n : all[i] = chars[i]
                                /\ \A i \in 1..m : all[n + i] = u[i]
  <2>1. /\ chars \o u \in Seq(Chars) /\ Len(chars \o u) = Len(chars) + Len(u)
        /\ \A i \in 1..Len(chars) + Len(u) :
              (chars \o u)[i] = IF i <= Len(chars) THEN chars[i] ELSE u[i - Len(chars)]
    BY <1>0, ConcatProperties
  <2>2. \A i \in 1..n : (chars \o u)[i] = chars[i]
    BY <1>1, <2>1
  <2>3. \A i \in 1..m : (chars \o u)[n + i] = u[i]
    BY <1>1, <2>1
  <2> QED BY <1>1, <2>1, <2>2, <2>3
<1>3. PICK f : IsUndoing(f, chars)
  BY UndoIsJoin
<1>4. PICK g : IsUndoing(g, all)
  BY UndoIsJoin
<1>5. PICK item, width : item = UndoItem(chars) /\ width = UndoWidth(chars)
  OBVIOUS
<1>6. PICK more, wide : more = UndoItem(all) /\ wide = UndoWidth(all)
  OBVIOUS
<1>7. Joinable(n, item, width, Int) /\ IsJoin(f, n, item, width) /\ Undo(chars) = f[1]
  BY <1>1, <1>3, <1>5, UndoJoinable, Zenon DEF IsUndoing
<1>8. Joinable(n + m, more, wide, Int) /\ IsJoin(g, n + m, more, wide) /\ Undo(all) = g[1]
  BY <1>2, <1>4, <1>6, UndoJoinable, Zenon DEF IsUndoing
<1>9. PICK B \in SUBSET (1..Len(chars) + 1) : IsWhole(chars, B)
  BY Zenon DEF Whole
<1>10. /\ 1 \in B /\ n + 1 \in B
       /\ \A i \in 1..n : i \in B => Settled(chars, i) /\ i + ShownWidth(chars, i) \in B
  BY <1>1, <1>9, Zenon DEF IsWhole
<1>11. ASSUME NEW i \in 1..n, i \in B
       PROVE  /\ Meaning(all, i) = Meaning(chars, i) /\ ShownWidth(all, i) = ShownWidth(chars, i)
              /\ Settled(all, i)
  <2>1. Settled(chars, i)
    BY <1>10, <1>11, Zenon
  <2>2. i \in 1..Len(chars) /\ i \in 1..Len(all) /\ Len(chars) - i <= Len(all) - i
    BY <1>1, <1>2
  <2>3. \A j \in 0..Len(chars) - i : all[i + j] = chars[i + j]
    <3> TAKE j \in 0..Len(chars) - i
    <3>1. i + j \in 1..n
      BY <1>1
    <3> QED BY <1>2, <3>1, Zenon
  <2> QED BY <2>1, <2>2, <2>3, MeaningSame
<1>12. /\ Meaning(all, n + 1) = Meaning(u, 1) /\ ShownWidth(all, n + 1) = m
       /\ Settled(all, n + 1)
  <2>1. 1 \in 1..Len(u) /\ n + 1 \in 1..Len(all) /\ Len(u) - 1 <= Len(all) - (n + 1)
    BY <1>1, <1>2
  <2>2. \A j \in 0..Len(u) - 1 : all[n + 1 + j] = u[1 + j]
    <3> TAKE j \in 0..Len(u) - 1
    <3>1. 1 + j \in 1..m /\ n + 1 + j = n + (1 + j)
      BY <1>1
    <3> QED BY <1>2, <3>1, Zenon
  <2>3. Meaning(all, n + 1) = Meaning(u, 1) /\ ShownWidth(all, n + 1) = ShownWidth(u, 1)
        /\ Settled(all, n + 1)
    BY <1>0, <2>1, <2>2, MeaningSame
  <2> QED BY <1>0, <1>1, <2>3, Zenon
<1>13. g[1] = f[1] \o more[n + 1] /\ more[n + 1] = Meaning(u, 1)
  <2>1. ASSUME NEW i \in 1..n, i \in B
        PROVE  more[i] = item[i] /\ wide[i] = width[i] /\ i + width[i] \in B
    <3>1. i \in 1..Len(chars) /\ i \in 1..Len(all)
      BY <1>1, <1>2
    <3>2. item[i] = Meaning(chars, i) /\ width[i] = ShownWidth(chars, i)
      BY <1>5, <3>1, Zenon DEF UndoItem, UndoWidth
    <3>3. more[i] = Meaning(all, i) /\ wide[i] = ShownWidth(all, i)
      BY <1>6, <3>1, Zenon DEF UndoItem, UndoWidth
    <3> QED BY <1>10, <1>11, <2>1, <3>2, <3>3, Zenon
  <2>2. IsKept(B, n, item, width, more, wide)
    BY <2>1, Zenon DEF IsKept
  <2>3. n + 1 \in 1..Len(all)
    BY <1>1, <1>2
  <2>4. more[n + 1] = Meaning(u, 1) /\ wide[n + 1] = m
    BY <1>6, <1>12, <2>3, Zenon DEF UndoItem, UndoWidth
  <2>5. JoinsMore(f, n, item, width, g, m, more, wide, B, Int)
    BY <1>1, <1>7, <1>8, <1>10, <2>2, <2>4, Zenon DEF JoinsMore
  <2>6. IsExtended(g[1], f[1], more[n + 1])
    BY <2>5, JoinMore, Zenon
  <2> QED BY <2>4, <2>6, Zenon DEF IsExtended
<1>14. Whole(all)
  <2>1. PICK C : C = (B \cap (1..n + 1)) \cup {n + m + 1}
    OBVIOUS
  <2>2. C \in SUBSET (1..Len(all) + 1)
    BY <1>1, <1>2, <2>1
  <2>3. 1 \in C /\ n + 1 \in C /\ Len(all) + 1 \in C
    BY <1>1, <1>2, <1>10, <2>1
  <2>4. ASSUME NEW i \in 1..Len(all), i \in C
        PROVE  Settled(all, i) /\ i + ShownWidth(all, i) \in C
    <3>1. i \in 1..n + 1 /\ i \in B
      BY <1>1, <1>2, <2>1, <2>4
    <3>2. CASE i = n + 1
      <4>1. i + m = n + m + 1
        BY <3>2
      <4> QED BY <1>12, <2>1, <3>2, <4>1
    <3>3. CASE i \in 1..n
      <4>1. PICK w \in {1, 2, 4} : w = ShownWidth(chars, i) /\ i + w <= n + 1
        BY <1>1, <3>3, MeaningType
      <4>2. i + w \in 1..n + 1 /\ i + w \in B
        BY <1>10, <3>1, <3>3, <4>1
      <4>3. Settled(all, i) /\ ShownWidth(all, i) = w
        BY <1>11, <3>1, <3>3, <4>1
      <4> QED BY <2>1, <4>2, <4>3
    <3> QED BY <3>1, <3>2, <3>3
  <2>5. IsWhole(all, C)
    BY <2>3, <2>4, Zenon DEF IsWhole
  <2> QED BY <2>2, <2>5, Zenon DEF Whole
<1> QED BY <1>2, <1>7, <1>8, <1>13, <1>14, Zenon

-----------------------------------------------------------------------------
(* Counting: how many columns characters take.                                 *)

LEMMA MaxIs ==
    ASSUME NEW n \in Nat
    PROVE  \A s \in SUBSET (1..n) : s # {} => Max(s) \in s /\ \A y \in s : Max(s) >= y
<1> DEFINE S == {k \in Nat : \A s \in SUBSET (1..k) : s # {} =>
                                \E x \in s : \A y \in s : x >= y}
<1>1. 0 \in S
  <2>1. 1..0 = {}
    OBVIOUS
  <2> QED BY <2>1
<1>2. ASSUME NEW k \in Nat, k \in S PROVE k + 1 \in S
  <2> SUFFICES ASSUME NEW s \in SUBSET (1..k + 1), s # {}
               PROVE  \E x \in s : \A y \in s : x >= y
    OBVIOUS
  <2>1. CASE k + 1 \in s
    BY <2>1
  <2>2. CASE k + 1 \notin s
    <3>1. s \in SUBSET (1..k)
      BY <2>2
    <3> QED BY <1>2, <3>1
  <2> QED BY <2>1, <2>2
<1>3. n \in S
  <2>1. \A k \in Nat : k \in S => k + 1 \in S
    BY <1>2, Zenon
  <2> HIDE DEF S
  <2> QED BY <1>1, <2>1, InductionInSet
<1>4. ASSUME NEW s \in SUBSET (1..n), s # {} PROVE Max(s) \in s /\ \A y \in s : Max(s) >= y
  <2>1. \E x \in s : \A y \in s : x >= y
    BY <1>3, <1>4, Zenon
  <2> QED BY <2>1, Zenon DEF Max
<1> QED BY <1>4, Zenon

\* g[s] is the sum of the widths of the places in s, the last of which is added
\* last.
IsCount(g, n, width) ==
    g = [s \in SUBSET (1..n) |-> IF s = {} THEN 0 ELSE g[s \ {Max(s)}] + width[Max(s)]]

LEMMA CountExists ==
    ASSUME NEW n \in Nat, NEW width
    PROVE  \E g : IsCount(g, n, width)
<1> DEFINE S == {k \in Nat : \E g : IsCount(g, k, width)}
<1>1. 0 \in S
  <2>1. PICK g : g = [s \in SUBSET (1..0) |-> 0]
    OBVIOUS
  <2>2. \A s \in SUBSET (1..0) : s = {}
    OBVIOUS
  <2>3. IsCount(g, 0, width)
    BY <2>1, <2>2 DEF IsCount
  <2> QED BY <2>3
<1>2. ASSUME NEW k \in Nat, k \in S PROVE k + 1 \in S
  <2>1. PICK g : IsCount(g, k, width)
    BY <1>2
  <2>2. PICK h : h = [s \in SUBSET (1..k + 1) |->
                        IF s = {} THEN 0 ELSE g[s \ {Max(s)}] + width[Max(s)]]
    OBVIOUS
  <2>3. ASSUME NEW s \in SUBSET (1..k) PROVE h[s] = g[s]
    <3>1. s \in SUBSET (1..k + 1)
      OBVIOUS
    <3>2. g[s] = IF s = {} THEN 0 ELSE g[s \ {Max(s)}] + width[Max(s)]
      BY <2>1, Zenon DEF IsCount
    <3> QED BY <2>2, <3>1, <3>2, Zenon
  <2>4. ASSUME NEW s \in SUBSET (1..k + 1)
        PROVE  h[s] = IF s = {} THEN 0 ELSE h[s \ {Max(s)}] + width[Max(s)]
    <3>1. CASE s = {}
      BY <2>2, <3>1, Zenon
    <3>2. CASE s # {}
      <4>0. k + 1 \in Nat
        OBVIOUS
      <4>1. Max(s) \in s /\ \A y \in s : Max(s) >= y
        BY <3>2, <4>0, MaxIs, Zenon
      <4>2. s \ {Max(s)} \in SUBSET (1..k)
        <5>1. PICK m \in 1..k + 1 : m = Max(s)
          BY <4>1
        <5>2. ASSUME NEW y \in s, y # m PROVE y \in 1..k
          BY <4>1, <5>1, <5>2
        <5> QED BY <5>1, <5>2
      <4>3. h[s \ {Max(s)}] = g[s \ {Max(s)}]
        BY <2>3, <4>2, Zenon
      <4> QED BY <2>2, <3>2, <4>3, Zenon
    <3> QED BY <3>1, <3>2
  <2>5. IsCount(h, k + 1, width)
    BY <2>2, <2>4, Zenon DEF IsCount
  <2> QED BY <2>5
<1>3. n \in S
  <2>1. \A k \in Nat : k \in S => k + 1 \in S
    BY <1>2, Zenon
  <2> HIDE DEF S
  <2> QED BY <1>1, <2>1, InductionInSet
<1> QED BY <1>3

LEMMA CountUpTo ==
    ASSUME NEW n \in Nat, NEW width, NEW g, IsCount(g, n, width)
    PROVE  /\ g[1..0] = 0
           /\ \A k \in Nat : k + 1 <= n => g[1..k + 1] = g[1..k] + width[k + 1]
<1>1. \A s \in SUBSET (1..n) : g[s] = IF s = {} THEN 0 ELSE g[s \ {Max(s)}] + width[Max(s)]
  BY Zenon DEF IsCount
<1>2. 1..0 = {} /\ 1..0 \in SUBSET (1..n)
  OBVIOUS
<1>3. ASSUME NEW k \in Nat, k + 1 <= n PROVE g[1..k + 1] = g[1..k] + width[k + 1]
  <2>1. PICK s \in SUBSET (1..n) : s = 1..k + 1 /\ s # {}
    BY <1>3
  <2>2. Max(s) \in s /\ \A y \in s : Max(s) >= y
    BY <2>1, MaxIs
  <2>3. Max(s) = k + 1
    BY <2>1, <2>2
  <2>4. s \ {Max(s)} = 1..k
    BY <2>1, <2>3
  <2> QED BY <1>1, <2>1, <2>3, <2>4
<1> QED BY <1>1, <1>2, <1>3

LEMMA CountsAgree ==
    ASSUME NEW n \in Nat, NEW width, NEW g, IsCount(g, n, width),
           NEW wide, NEW h, IsCount(h, n + 1, wide), \A i \in 1..n : width[i] = wide[i]
    PROVE  h[1..n + 1] = g[1..n] + wide[n + 1]
<1> DEFINE S == {k \in Nat : k <= n => h[1..k] = g[1..k]}
<1>1. n + 1 \in Nat
  OBVIOUS
<1>2. /\ g[1..0] = 0 /\ h[1..0] = 0
      /\ \A k \in Nat : k + 1 <= n => g[1..k + 1] = g[1..k] + width[k + 1]
      /\ \A k \in Nat : k + 1 <= n + 1 => h[1..k + 1] = h[1..k] + wide[k + 1]
  BY <1>1, CountUpTo
<1>3. 0 \in S
  BY <1>2
<1>4. ASSUME NEW k \in Nat, k \in S PROVE k + 1 \in S
  <2> SUFFICES ASSUME k + 1 <= n PROVE h[1..k + 1] = g[1..k + 1]
    OBVIOUS
  <2>1. k <= n /\ k + 1 <= n + 1 /\ k + 1 \in 1..n
    OBVIOUS
  <2>2. h[1..k] = g[1..k]
    BY <1>4, <2>1
  <2> QED BY <1>2, <2>1, <2>2, Zenon
<1>5. n \in S
  <2>1. \A k \in Nat : k \in S => k + 1 \in S
    BY <1>4, Zenon
  <2> HIDE DEF S
  <2> QED BY <1>3, <2>1, InductionInSet
<1>6. h[1..n] = g[1..n]
  BY <1>5
<1>7. n + 1 <= n + 1
  OBVIOUS
<1> QED BY <1>2, <1>6, <1>7, Zenon

WidthsOf(chars) == [i \in 1..Len(chars) |-> AsIs(chars[i]).columns]

LEMMA ColumnsIsCount ==
    ASSUME NEW chars \in Seq(Chars)
    PROVE  \E g : /\ IsCount(g, Len(chars), WidthsOf(chars))
                  /\ Columns(chars) = g[1..Len(chars)]
<1> DEFINE Is(g) == g = [s \in SUBSET (1..Len(chars)) |->
                           IF s = {} THEN 0 ELSE g[s \ {Max(s)}] + AsIs(chars[Max(s)]).columns]
           width == WidthsOf(chars)
<1>1. ASSUME NEW g PROVE Is(g) <=> IsCount(g, Len(chars), width)
  <2>1. ASSUME NEW s \in SUBSET (1..Len(chars)), s # {}
        PROVE  width[Max(s)] = AsIs(chars[Max(s)]).columns
    <3>1. Max(s) \in 1..Len(chars)
      <4>1. PICK n \in Nat : n = Len(chars)
        OBVIOUS
      <4>2. Max(s) \in s
        BY <2>1, <4>1, MaxIs, Zenon
      <4> QED BY <4>2
    <3> QED BY <3>1, Zenon DEF WidthsOf
  <2> HIDE DEF width
  <2> QED BY <2>1, Zenon DEF IsCount
<1>2. DOMAIN chars = 1..Len(chars)
  OBVIOUS
<1>3. Columns(chars) = (CHOOSE g : Is(g))[1..Len(chars)]
  BY <1>2, Zenon DEF Columns, FoldLeft, MapThenFoldSet
<1>4. \E g : IsCount(g, Len(chars), width)
  <2> HIDE DEF width
  <2> QED BY CountExists
<1> HIDE DEF Is
<1>5. PICK g : g = (CHOOSE h : Is(h)) /\ Is(g)
  BY <1>1, <1>4, Zenon
<1> QED BY <1>1, <1>3, <1>5, Zenon

LEMMA ColumnsMore ==
    ASSUME NEW chars \in Seq(Chars), NEW c \in Chars
    PROVE  /\ Columns(chars \o <<c>>) = Columns(chars) + AsIs(c).columns
           /\ Columns(<< >>) = 0
<1>1. PICK n \in Nat : n = Len(chars)
  OBVIOUS
<1>2. PICK all \in Seq(Chars) : all = chars \o <<c>>
  <2>1. <<c>> \in Seq(Chars)
    OBVIOUS
  <2>2. chars \o <<c>> \in Seq(Chars)
    BY <2>1, ConcatProperties, Zenon
  <2> QED BY <2>2, Zenon
<1>3. Len(all) = n + 1 /\ all[n + 1] = c /\ \A i \in 1..n : all[i] = chars[i]
  <2>1. all = Append(chars, c)
    BY <1>2
  <2> QED BY <1>1, <2>1
<1>4. PICK g : IsCount(g, n, WidthsOf(chars)) /\ Columns(chars) = g[1..n]
  BY <1>1, ColumnsIsCount
<1>5. PICK h : IsCount(h, n + 1, WidthsOf(all)) /\ Columns(all) = h[1..n + 1]
  BY <1>3, ColumnsIsCount
<1>6. \A i \in 1..n : WidthsOf(chars)[i] = WidthsOf(all)[i]
  BY <1>1, <1>3 DEF WidthsOf
<1>7. WidthsOf(all)[n + 1] = AsIs(c).columns
  BY <1>3 DEF WidthsOf
<1>8. h[1..n + 1] = g[1..n] + WidthsOf(all)[n + 1]
  BY <1>4, <1>5, <1>6, CountsAgree
<1>9. Columns(<< >>) = 0
  <2>1. << >> \in Seq(Chars) /\ Len(<< >>) = 0
    OBVIOUS
  <2>2. PICK f : IsCount(f, 0, WidthsOf(<< >>)) /\ Columns(<< >>) = f[1..0]
    BY <2>1, ColumnsIsCount
  <2>3. f[1..0] = 0
    BY <2>2, CountUpTo
  <2> QED BY <2>2, <2>3
<1> QED BY <1>2, <1>4, <1>5, <1>7, <1>8, <1>9

-----------------------------------------------------------------------------
(* What is safe to show.                                                       *)

\* The bytes that escapes are made of, and the characters they are.
Plain == {Backslash, Question} \cup 48..55 \cup {97, 98, 102, 110, 114, 116, 118}
Sign(b) == [bytes |-> <<b>>, columns |-> 1, class |-> "print"]
Signs(s) == [i \in 1..Len(s) |-> Sign(s[i])]

Printable == {c \in Chars : c.class = "print"}

LEMMA SignIs ==
    \A b \in Plain : /\ Sign(b) \in Printable /\ Sign(b) \in Chars
                     /\ Sign(b).bytes = <<b>> /\ AsIs(Sign(b)).columns = 1
<1> TAKE b \in Plain
<1>1. Sign(b) \in Chars
  BY Zenon, EscapeAssumption DEF EscapeAssumption, Plain, Sign
<1>2. Sign(b).bytes = <<b>> /\ Sign(b).columns = 1 /\ Sign(b).class = "print"
  BY DEF Sign
<1>3. AsIs(Sign(b)).columns = 1
  BY <1>2 DEF AsIs, Piece
<1> QED BY <1>1, <1>2, <1>3 DEF Printable

LEMMA PlainIsInt == Plain \subseteq Int
  BY DEF Plain, Backslash, Question

LEMMA PlainStrings == \A s \in Seq(Plain) : s \in Seq(Int)
<1> TAKE s \in Seq(Plain)
<1>1. Len(s) \in Nat /\ (\A i \in 1..Len(s) : s[i] \in Int) /\ s = [i \in 1..Len(s) |-> s[i]]
  BY PlainIsInt
<1> QED BY <1>1

LEMMA PrintablesAreChars == \A s \in Seq(Printable) : s \in Seq(Chars)
<1> TAKE s \in Seq(Printable)
<1>1. Len(s) \in Nat /\ (\A i \in 1..Len(s) : s[i] \in Chars) /\ s = [i \in 1..Len(s) |-> s[i]]
  BY DEF Printable
<1> QED BY <1>1

\* A character more is read.
LEMMA ReadOne ==
    ASSUME NEW data \in Seq(Int), Read(data) \in Seq(Chars), NEW c \in Chars
    PROVE  /\ data \o c.bytes \in Seq(Int)
           /\ Read(data \o c.bytes) = Read(data) \o <<c>>
<1>1. PICK s \in Seq(Int) : s = c.bytes /\ s # << >> /\ Len(s) \in Nat /\ Len(s) > 0
  BY CharType
<1>2. PICK all \in Seq(Int) : /\ all = data \o s /\ Len(all) = Len(data) + Len(s)
                              /\ \A k \in 1..Len(s) : all[Len(data) + k] = s[k]
  <2>1. /\ data \o s \in Seq(Int) /\ Len(data \o s) = Len(data) + Len(s)
        /\ \A i \in 1..Len(data) + Len(s) :
              (data \o s)[i] = IF i <= Len(data) THEN data[i] ELSE s[i - Len(data)]
    BY ConcatProperties
  <2>2. \A k \in 1..Len(s) : (data \o s)[Len(data) + k] = s[k]
    BY <2>1
  <2> QED BY <2>1, <2>2
<1>3. Len(data) + 1 \in 1..Len(all)
  BY <1>1, <1>2
<1>4. IsAt(s, all, Len(data) + 1)
  <2>1. Len(data) + 1 + Len(s) <= Len(all) + 1
    BY <1>2
  <2>2. \A k \in 1..Len(s) : Len(data) + 1 + k - 1 = Len(data) + k
    OBVIOUS
  <2> QED BY <1>2, <2>1, <2>2, Zenon DEF IsAt
<1>5. CharAt(all, Len(data) + 1) = c
  BY <1>1, <1>3, <1>4, CharAtIs, Zenon
<1>6. Read(data \o s) = Read(data) \o <<CharAt(data \o s, Len(data) + 1)>>
  BY <1>1, <1>2, <1>5, ReadMore
<1> QED BY <1>1, <1>2, <1>5, <1>6, Zenon

LEMMA ReadNothing == Read(<< >>) = << >>
<1>1. << >> \in Seq(Int) /\ Len(<< >>) = 0
  OBVIOUS
<1>2. PICK f : IsReading(f, << >>)
  BY <1>1, ReadIsJoin
<1>3. f[0 + 1] = << >>
  <2>1. IsJoined(f, 0, ReadItem(<< >>), ReadWidth(<< >>))
    BY <1>1, <1>2, JoinValue DEF IsReading
  <2> QED BY <2>1, Zenon DEF IsJoined
<1> QED BY <1>2, <1>3 DEF IsReading

\* A terminal shows data safely, in so many columns.
Safe(data, columns) ==
    Read(data) \in Seq(Printable) /\ Columns(Read(data)) = columns

LEMMA NothingIsSafe == Safe(<< >>, 0)
<1>1. << >> \in Seq(Printable)
  OBVIOUS
<1>2. Columns(<< >>) = 0
  <2>1. Sign(Question) \in Chars
    BY SignIs DEF Plain
  <2>2. << >> \in Seq(Chars)
    OBVIOUS
  <2> QED BY <2>1, <2>2, ColumnsMore
<1> QED BY <1>1, <1>2, ReadNothing DEF Safe

LEMMA SafeChar ==
    ASSUME NEW data \in Seq(Int), NEW columns, Safe(data, columns), NEW c \in Printable
    PROVE  /\ data \o c.bytes \in Seq(Int)
           /\ Safe(data \o c.bytes, columns + AsIs(c).columns)
<1>1. c \in Chars
  BY DEF Printable
<1>2. PICK chars \in Seq(Printable) : chars = Read(data) /\ Columns(chars) = columns
  BY DEF Safe
<1>3. chars \in Seq(Chars)
  BY PrintablesAreChars
<1>4. data \o c.bytes \in Seq(Int) /\ Read(data \o c.bytes) = chars \o <<c>>
  BY <1>1, <1>2, <1>3, ReadOne
<1>5. chars \o <<c>> \in Seq(Printable)
  <2>1. <<c>> \in Seq(Printable)
    OBVIOUS
  <2> QED BY <2>1, ConcatProperties, Zenon
<1>6. Columns(chars \o <<c>>) = columns + AsIs(c).columns
  BY <1>1, <1>2, <1>3, ColumnsMore
<1> QED BY <1>4, <1>5, <1>6, Zenon DEF Safe

\* A string is what comes before its last element, and that.
EndsIn(s, front, x) == s = front \o <<x>> /\ Len(s) = Len(front) + 1

LEMMA FrontAndLast ==
    ASSUME NEW V, NEW s \in Seq(V), NEW k \in Nat, Len(s) = k + 1
    PROVE  \E t \in Seq(V), x \in V : EndsIn(s, t, x)
<1>1. PICK t \in Seq(V) : t = SubSeq(s, 1, k) /\ Len(t) = k /\ \A i \in 1..k : t[i] = s[i]
  <2>1. 1 \in Nat /\ 1 > 0 /\ k <= Len(s) /\ 1 <= k + 1
    OBVIOUS
  <2>2. /\ SubSeq(s, 1, k) \in Seq(V) /\ Len(SubSeq(s, 1, k)) = k - 1 + 1
        /\ \A i \in 1..k - 1 + 1 : SubSeq(s, 1, k)[i] = s[1 + i - 1]
    BY <2>1, PartOf
  <2>3. k - 1 + 1 = k /\ \A i \in 1..k : 1 + i - 1 = i
    OBVIOUS
  <2> QED BY <2>2, <2>3, Zenon
<1>2. PICK x \in V : x = s[k + 1]
  OBVIOUS
<1>3. <<x>> \in Seq(V) /\ Len(<<x>>) = 1 /\ <<x>>[1] = x
  OBVIOUS
<1>4. s = t \o <<x>>
  <2>1. Append(t, x) = t \o <<x>>
    OBVIOUS
  <2>2. s = Append(t, x)
    BY <1>1, <1>2
  <2> QED BY <2>1, <2>2
<1>5. EndsIn(s, t, x)
  BY <1>1, <1>4 DEF EndsIn
<1> QED BY <1>5

LEMMA SafeSigns ==
    ASSUME NEW data \in Seq(Int), NEW columns \in Int, Safe(data, columns), NEW s \in Seq(Plain)
    PROVE  Safe(data \o s, columns + Len(s))
<1> DEFINE S == {k \in Nat : \A t \in Seq(Plain) : Len(t) = k => Safe(data \o t, columns + k)}
<1>1. 0 \in S
  <2>1. \A t \in Seq(Plain) : Len(t) = 0 => t = << >>
    OBVIOUS
  <2>2. data \o << >> = data /\ columns + 0 = columns
    BY ConcatEmptySeq
  <2> QED BY <2>1, <2>2
<1>2. ASSUME NEW k \in Nat, k \in S PROVE k + 1 \in S
  <2> SUFFICES ASSUME NEW t \in Seq(Plain), Len(t) = k + 1
               PROVE  Safe(data \o t, columns + (k + 1))
    OBVIOUS
  <2>1. PICK front \in Seq(Plain), b \in Plain : Len(front) = k /\ t = front \o <<b>>
    <3>1. PICK front \in Seq(Plain), b \in Plain : EndsIn(t, front, b)
      BY FrontAndLast
    <3>2. Len(front) = k /\ t = front \o <<b>>
      BY <3>1 DEF EndsIn
    <3> QED BY <3>2
  <2>2. Safe(data \o front, columns + k)
    BY <1>2, <2>1
  <2>3. PICK more \in Seq(Int) : more = data \o front
    <3>1. front \in Seq(Int)
      BY PlainStrings
    <3>2. data \o front \in Seq(Int)
      BY <3>1, ConcatProperties, Zenon
    <3> QED BY <3>2
  <2>4. PICK c \in Printable : c.bytes = <<b>> /\ AsIs(c).columns = 1
    BY SignIs
  <2>5. Safe(more \o <<b>>, columns + k + 1)
    BY <2>2, <2>3, <2>4, SafeChar
  <2>6. more \o <<b>> = data \o t
    <3>1. PICK u \in Seq(Int), v \in Seq(Int) : u = front /\ v = <<b>>
      <4>1. front \in Seq(Int)
        BY PlainStrings
      <4>2. b \in Int
        BY PlainIsInt
      <4>3. <<b>> \in Seq(Int)
        BY <4>2
      <4> QED BY <4>1, <4>3
    <3>2. (data \o u) \o v = data \o (u \o v)
      BY ConcatAssociative, SMTT(30)
    <3> QED BY <2>1, <2>3, <3>1, <3>2, Zenon
  <2>7. columns + k + 1 = columns + (k + 1)
    OBVIOUS
  <2> QED BY <2>5, <2>6, <2>7
<1>3. Len(s) \in S
  <2>1. \A k \in Nat : k \in S => k + 1 \in S
    BY <1>2, Zenon
  <2>2. Len(s) \in Nat
    OBVIOUS
  <2> HIDE DEF S
  <2> QED BY <1>1, <2>1, <2>2, InductionInSet
<1> QED BY <1>3

\* One after the other, strings of plain bytes are one.
IsFlattening(f, n, seqs) ==
    f = [i \in 1..n |-> IF i = 1 THEN seqs[i] ELSE f[i - 1] \o seqs[i]]

LEMMA FlatteningExists ==
    ASSUME NEW n \in Nat, NEW seqs
    PROVE  \E f : IsFlattening(f, n, seqs)
<1> DEFINE S == {k \in Nat : \E f : IsFlattening(f, k, seqs)}
<1>1. 0 \in S
  <2>1. PICK f : f = [i \in 1..0 |-> << >>]
    OBVIOUS
  <2>2. 1..0 = {}
    OBVIOUS
  <2>3. IsFlattening(f, 0, seqs)
    BY <2>1, <2>2 DEF IsFlattening
  <2> QED BY <2>3
<1>2. ASSUME NEW k \in Nat, k \in S PROVE k + 1 \in S
  <2>1. PICK f : IsFlattening(f, k, seqs)
    BY <1>2
  <2>2. PICK g : g = [i \in 1..k + 1 |-> IF i <= k THEN f[i]
                                         ELSE IF i = 1 THEN seqs[i] ELSE f[i - 1] \o seqs[i]]
    OBVIOUS
  <2>3. ASSUME NEW i \in 1..k + 1
        PROVE  g[i] = IF i = 1 THEN seqs[i] ELSE g[i - 1] \o seqs[i]
    <3>1. ASSUME NEW j \in 1..k PROVE g[j] = f[j]
      <4>1. j \in 1..k + 1 /\ j <= k
        OBVIOUS
      <4> QED BY <2>2, <4>1, Zenon
    <3>2. i # 1 => g[i - 1] = f[i - 1]
      <4>1. i # 1 => i - 1 \in 1..k
        OBVIOUS
      <4> QED BY <3>1, <4>1, Zenon
    <3>3. i <= k => f[i] = IF i = 1 THEN seqs[i] ELSE f[i - 1] \o seqs[i]
      <4>1. i <= k => i \in 1..k
        OBVIOUS
      <4>2. \A j \in 1..k : f[j] = IF j = 1 THEN seqs[j] ELSE f[j - 1] \o seqs[j]
        BY <2>1, Zenon DEF IsFlattening
      <4> QED BY <4>1, <4>2, Zenon
    <3> QED BY <2>2, <3>2, <3>3, Zenon
  <2>4. IsFlattening(g, k + 1, seqs)
    BY <2>2, <2>3, Zenon DEF IsFlattening
  <2> QED BY <2>4
<1>3. n \in S
  <2>1. \A k \in Nat : k \in S => k + 1 \in S
    BY <1>2, Zenon
  <2> HIDE DEF S
  <2> QED BY <1>1, <2>1, InductionInSet
<1> QED BY <1>3

LEMMA FlatteningIsPlain ==
    ASSUME NEW n \in Nat, n > 0, NEW seqs, Len(seqs) = n, \A i \in 1..n : seqs[i] \in Seq(Plain)
    PROVE  FlattenSeq(seqs) \in Seq(Plain)
<1> DEFINE Is(f) == f = [i \in 1..n |-> IF i = 1 THEN seqs[i] ELSE f[i - 1] \o seqs[i]]
<1>1. FlattenSeq(seqs) = (CHOOSE f : Is(f))[n]
  <2>1. Len(seqs) # 0
    OBVIOUS
  <2> QED BY <2>1, Zenon DEF FlattenSeq
<1>2. \E f : Is(f)
  BY FlatteningExists, Zenon DEF IsFlattening
<1> HIDE DEF Is
<1>3. PICK f : f = (CHOOSE h : Is(h)) /\ Is(f)
  BY <1>2, Zenon
<1>4. \A i \in 1..n : f[i] = IF i = 1 THEN seqs[i] ELSE f[i - 1] \o seqs[i]
  BY <1>3, Zenon DEF Is
<1> DEFINE S == {k \in Nat : k + 1 <= n => f[k + 1] \in Seq(Plain)}
<1>5. 0 \in S
  <2>1. 1 \in 1..n /\ 0 + 1 = 1
    OBVIOUS
  <2>2. f[1] \in Seq(Plain)
    BY <1>4, <2>1, Zenon
  <2> QED BY <2>1, <2>2
<1>6. ASSUME NEW k \in Nat, k \in S PROVE k + 1 \in S
  <2> SUFFICES ASSUME k + 1 + 1 <= n PROVE f[k + 1 + 1] \in Seq(Plain)
    OBVIOUS
  <2>1. PICK i \in 1..n : i = k + 1 + 1
    OBVIOUS
  <2>2. k + 1 <= n /\ i # 1 /\ i - 1 = k + 1
    BY <2>1
  <2>3. f[i - 1] \in Seq(Plain) /\ seqs[i] \in Seq(Plain)
    BY <1>6, <2>2
  <2>4. f[i] = f[i - 1] \o seqs[i]
    BY <1>4, <2>2, Zenon
  <2>5. f[i - 1] \o seqs[i] \in Seq(Plain)
    BY <2>3, ConcatProperties, Zenon
  <2> QED BY <2>1, <2>4, <2>5, Zenon
<1>7. PICK m \in Nat : m + 1 = n
  <2>1. n - 1 \in Nat /\ n - 1 + 1 = n
    OBVIOUS
  <2> QED BY <2>1
<1>8. m \in S
  <2>1. \A k \in Nat : k \in S => k + 1 \in S
    BY <1>6, Zenon
  <2> HIDE DEF S
  <2> QED BY <1>5, <2>1, InductionInSet
<1>9. f[n] \in Seq(Plain)
  BY <1>7, <1>8
<1> QED BY <1>1, <1>3, <1>9, Zenon

\* A piece that may be shown: a printable character, or what escapes are made of.
SafePiece(x) ==
    \/ \E c \in Printable : x = AsIs(c)
    \/ x.string \in Seq(Plain) /\ x.columns = Len(x.string)

LEMMA OctalDigits ==
    \A b \in Byte : /\ 48 + (b \div 64) \in 48..55
                    /\ 48 + ((b \div 8) % 8) \in 48..55 /\ 48 + (b % 8) \in 48..55
                    /\ (64 * (b \div 64)) + (8 * ((b \div 8) % 8)) + (b % 8) = b
  BY DEF Byte

LEMMA OctalIsSafe == \A b \in Byte : SafePiece(Octal(b))
<1> TAKE b \in Byte
<1>1. PICK d \in 48..55, e \in 48..55, o \in 48..55 :
         d = 48 + (b \div 64) /\ e = 48 + ((b \div 8) % 8) /\ o = 48 + (b % 8)
  BY OctalDigits
<1>2. Octal(b) = [string |-> <<Backslash, d, e, o>>, columns |-> 4]
  BY <1>1 DEF Octal, Piece
<1>3. Backslash \in Plain /\ d \in Plain /\ e \in Plain /\ o \in Plain
  BY DEF Plain
<1>4. <<Backslash, d, e, o>> \in Seq(Plain) /\ Len(<<Backslash, d, e, o>>) = 4
  BY <1>3
<1> QED BY <1>2, <1>4 DEF SafePiece

LEMMA CEscapeIsSafe == \A b \in Byte : SafePiece(CEscape(b))
<1> TAKE b \in Byte
<1>1. CASE b \in DOMAIN Named
  <2>1. b \in 7..13 /\ Named[b] \in {97, 98, 116, 110, 118, 102, 114}
    BY <1>1 DEF Named
  <2>2. PICK e \in Plain : e = Named[b]
    BY <2>1 DEF Plain
  <2>3. Backslash \in Plain
    BY DEF Plain
  <2>4. <<Backslash, e>> \in Seq(Plain) /\ Len(<<Backslash, e>>) = 2
    BY <2>3
  <2>5. CEscape(b) = [string |-> <<Backslash, e>>, columns |-> 2]
    BY <1>1, <2>2, Zenon DEF CEscape, Piece
  <2> QED BY <2>4, <2>5 DEF SafePiece
<1>2. CASE b \notin DOMAIN Named
  BY <1>2, OctalIsSafe, Zenon DEF CEscape
<1> QED BY <1>1, <1>2

LEMMA OneByteIsSafe ==
    /\ SafePiece(Piece(<<Question>>, 1)) /\ SafePiece(Piece(<<Backslash>>, 1))
<1>1. ASSUME NEW b \in Plain PROVE SafePiece(Piece(<<b>>, 1))
  <2>1. <<b>> \in Seq(Plain) /\ Len(<<b>>) = 1
    OBVIOUS
  <2> QED BY <2>1 DEF SafePiece, Piece
<1>2. Question \in Plain /\ Backslash \in Plain
  BY DEF Plain
<1> QED BY <1>1, <1>2

LEMMA BytePieceIsSafe ==
    ASSUME NEW b \in Byte, job.escape \in {"question", "c"}
    PROVE  SafePiece(BytePiece(b))
  BY OctalIsSafe, OneByteIsSafe DEF BytePiece

LEMMA CharPiecesAreSafe ==
    ASSUME NEW c \in Chars, job.escape \in {"question", "c"}
    PROVE  \A k \in 1..Len(CharPieces(c)) : SafePiece(CharPieces(c)[k])
<1>1. PICK s \in Seq(Byte) : s = c.bytes /\ s # << >> /\ Len(s) > 0
  BY CharType
<1>2. \A k \in 1..Len(s) : s[k] \in Byte
  OBVIOUS
<1>3. \A x : SafePiece(x) => \A k \in 1..Len(<<x>>) : SafePiece(<<x>>[k])
  OBVIOUS
<1>4. CASE c.class = "print" /\ ~(c.bytes = <<Backslash>> /\ job.escape = "c")
  <2>1. CharPieces(c) = <<AsIs(c)>>
    BY <1>4 DEF CharPieces
  <2>2. SafePiece(AsIs(c))
    BY <1>4 DEF SafePiece, Printable
  <2> QED BY <1>3, <2>1, <2>2
<1>5. CASE c.bytes = <<Backslash>> /\ job.escape = "c"
  <2>1. PICK x : x = Piece(<<Backslash>>, 1) /\ SafePiece(x)
    BY OneByteIsSafe
  <2>2. PICK y : y = CharPieces(c)
    OBVIOUS
  <2>3. CharPieces(c) = <<x, x>>
    <3>1. c.class = "print"
      <4>1. Sign(Backslash) \in Chars /\ Sign(Backslash).bytes = <<Backslash>>
            /\ Sign(Backslash).class = "print"
        BY SignIs DEF Plain, Printable
      <4>2. c = Sign(Backslash)
        <5>1. IsPrefix(c.bytes, Sign(Backslash).bytes)
          BY <1>5, <4>1 DEF IsPrefix
        <5> QED BY <4>1, <5>1, EscapeAssumption, Zenon DEF EscapeAssumption
      <4> QED BY <4>1, <4>2
    <3> QED BY <1>5, <2>1, <3>1 DEF CharPieces
  <2> QED BY <2>1, <2>3
<1>6. CASE c.class # "print" /\ job.escape = "question"
  <2>1. CharPieces(c) = <<Piece(<<Question>>, 1)>>
    BY <1>6 DEF CharPieces
  <2> QED BY <1>3, <2>1, OneByteIsSafe
<1>7. CASE c.class # "print" /\ job.escape = "c" /\ c.bytes # <<Backslash>>
  <2>1. CharPieces(c) = Escapes(c)
    BY <1>7 DEF CharPieces
  <2>2. CASE Len(s) = 1
    <3>1. Escapes(c) = <<CEscape(s[1])>>
      BY <1>1, <2>2 DEF Escapes
    <3>2. SafePiece(CEscape(s[1]))
      BY <1>2, <2>2, CEscapeIsSafe
    <3> QED BY <1>3, <2>1, <3>1, <3>2
  <2>3. CASE Len(s) # 1
    <3>1. Escapes(c) = [i \in 1..Len(s) |-> Octal(s[i])]
      BY <1>1, <2>3 DEF Escapes
    <3>2. Len([i \in 1..Len(s) |-> Octal(s[i])]) = Len(s)
      OBVIOUS
    <3> QED BY <1>2, <2>1, <3>1, <3>2, OctalIsSafe
  <2> QED BY <2>2, <2>3
<1> QED BY <1>4, <1>5, <1>6, <1>7

LEMMA AppendIsSafe ==
    ASSUME NEW data \in Seq(Int), NEW columns \in Int, Safe(data, columns),
           NEW x, SafePiece(x)
    PROVE  Safe(data \o x.string, columns + x.columns)
<1>1. CASE \E c \in Printable : x = AsIs(c)
  <2>1. PICK c \in Printable : x = AsIs(c)
    BY <1>1
  <2>2. x.string = c.bytes
    BY <2>1 DEF AsIs, Piece
  <2>3. Safe(data \o c.bytes, columns + AsIs(c).columns)
    BY SafeChar
  <2> QED BY <2>1, <2>2, <2>3, Zenon
<1>2. CASE x.string \in Seq(Plain) /\ x.columns = Len(x.string)
  <2>1. PICK s \in Seq(Plain) : s = x.string
    BY <1>2
  <2>2. Safe(data \o s, columns + Len(s))
    BY SafeSigns
  <2> QED BY <1>2, <2>1, <2>2, Zenon
<1> QED BY <1>1, <1>2, Zenon DEF SafePiece

\* What has been written of a message is safe, or is but for the last newline.
Shows(data) == \E n \in Int : Safe(data, n)

SafeMessage ==
    \/ Shows(err)
    \/ p = Len(text) /\ \E d \in Seq(Int) : err = d \o <<Newline>> /\ Shows(d)

SafeName ==
    job.escape # "none" =>
        /\ Safe(bufs["bytebuf"].data, bufs["bytebuf"].screenpos)
        /\ pc \in {"text", "bytes"} => \A k \in 1..Len(todo) : SafePiece(todo[k])

SafeInv ==
    /\ SafeName
    /\ err \in Seq(Int) /\ SafeMessage
    /\ pc \notin {"puts", "written"} => err = << >>

LEMMA SafeInit == Init => SafeInv
<1> SUFFICES ASSUME Init PROVE SafeInv
  OBVIOUS
<1>1. /\ bufs["bytebuf"].data = << >> /\ bufs["bytebuf"].screenpos = 0
      /\ todo = << >> /\ err = << >> /\ pc = "new"
  BY DEF Init, NoBuf
<1>2. SafeName
  BY <1>1, NothingIsSafe DEF SafeName
<1>3. Shows(err) /\ err \in Seq(Int)
  <2>1. 0 \in Int /\ << >> \in Seq(Int)
    OBVIOUS
  <2> QED BY <1>1, <2>1, NothingIsSafe, Zenon DEF Shows
<1> QED BY <1>1, <1>2, <1>3 DEF SafeInv, SafeMessage

LEMMA ByteOfText ==
    ASSUME TypeInv, p < Len(text)
    PROVE  text[p + 1] \in Byte /\ p + 1 \in 1..Len(text)
<1>1. PICK s \in Seq(Byte), n \in Nat : s = text /\ n = p
  BY DEF TypeInv
<1>2. n + 1 \in 1..Len(s)
  BY <1>1
<1>3. s[n + 1] \in Byte
  BY <1>2
<1> QED BY <1>1, <1>2, <1>3

LEMMA SafeNameStep == TypeInv /\ BufInv /\ SafeName /\ [Next]_vars => SafeName'
<1> SUFFICES ASSUME TypeInv, BufInv, SafeName, [Next]_vars, job'.escape # "none"
             PROVE  /\ Safe(bufs'["bytebuf"].data, bufs'["bytebuf"].screenpos)
                    /\ pc' \in {"text", "bytes"} => \A k \in 1..Len(todo') : SafePiece(todo'[k])
  BY DEF SafeName
<1>1. job' = job
  BY DEF Next, Program, Grow, AppendPiece, DropPiece, NewNameBuf, AppendCall, NameCall, ReadChar,
         ReadByte, EndOfText, FreeBytes, MakeField, FormatMessage, PutChar, MessageDone,
         Terminated, vars
<1>2. job.escape \in {"question", "c"}
  BY <1>1, EscapeAssumption DEF EscapeAssumption, TypeInv
<1>3. PICK old \in Buffers : old = bufs["bytebuf"]
  BY DEF TypeInv
<1>4. /\ old.data \in Seq(Int) /\ old.screenpos \in Int /\ Safe(old.data, old.screenpos)
      /\ pc \in {"text", "bytes"} => \A k \in 1..Len(todo) : SafePiece(todo[k])
  BY <1>2, <1>3 DEF SafeName, Buffers
<1>5. CASE Grow \/ AppendPiece \/ DropPiece
  <2>1. pc' = pc /\ pc \in {"calls", "text", "bytes", "join"} /\ todo # << >>
    BY <1>5, IntoStep
  <2>2. PICK s \in Seq(Pieces) : s = todo /\ s # << >>
    BY <2>1 DEF TypeInv
  <2>3. pc \in {"text", "bytes"} => \A k \in 1..Len(todo') : SafePiece(todo'[k])
    <3>1. todo' = s \/ todo' = Tail(s)
      BY <1>5, <2>2 DEF Grow, AppendPiece, DropPiece
    <3>2. Len(Tail(s)) = Len(s) - 1 /\ \A k \in 1..Len(s) - 1 : Tail(s)[k] = s[k + 1]
      BY <2>2
    <3>3. \A k \in 1..Len(s) - 1 : k + 1 \in 1..Len(s)
      OBVIOUS
    <3> QED BY <1>4, <2>2, <3>1, <3>2, <3>3
  <2>4. CASE pc \notin {"text", "bytes"}
    <3>1. Into = "buf"
      BY <2>4 DEF Into
    <3>2. bufs'["bytebuf"] = old
      BY <1>3, <1>5, <3>1 DEF Grow, AppendPiece, DropPiece, TypeInv
    <3> QED BY <1>4, <2>1, <2>4, <3>2
  <2>5. CASE pc \in {"text", "bytes"}
    <3>1. Into = "bytebuf"
      BY <2>5 DEF Into
    <3>2. CASE Grow
      <4>1. bufs'["bytebuf"] = Grown(old)
        BY <1>3, <3>1, <3>2 DEF Grow, TypeInv
      <4>2. Grown(old).data = old.data /\ Grown(old).screenpos = old.screenpos
        BY DEF Grown, Buffers
      <4> QED BY <1>4, <2>3, <2>5, <4>1, <4>2
    <3>3. CASE DropPiece
      <4>1. bufs'["bytebuf"] = Dropped(old)
        BY <1>3, <3>1, <3>3 DEF DropPiece, TypeInv
      <4>2. Dropped(old).data = old.data /\ Dropped(old).screenpos = old.screenpos
        BY DEF Dropped, Buffers
      <4> QED BY <1>4, <2>3, <2>5, <4>1, <4>2
    <3>4. CASE AppendPiece
      <4>1. PICK x : x = todo[1]
        OBVIOUS
      <4>2. SafePiece(x)
        <5>1. 1 \in 1..Len(s)
          BY <2>2
        <5> QED BY <1>4, <2>2, <2>5, <4>1, <5>1
      <4>3. bufs'["bytebuf"] = Appended(old, x)
        BY <1>3, <3>1, <3>4, <4>1 DEF AppendPiece, TypeInv
      <4>4. /\ Appended(old, x).data = old.data \o x.string
            /\ Appended(old, x).screenpos = old.screenpos + x.columns
        BY DEF Appended
      <4>5. Safe(old.data \o x.string, old.screenpos + x.columns)
        BY <1>4, <4>2, AppendIsSafe
      <4> QED BY <2>3, <2>5, <4>3, <4>4, <4>5
    <3> QED BY <1>5, <3>2, <3>3, <3>4
  <2> QED BY <2>4, <2>5
<1>6. CASE NewNameBuf \/ AppendCall \/ EndOfText \/ MakeField \/ FormatMessage \/ PutChar
           \/ MessageDone
  <2>1. bufs'["bytebuf"] = bufs["bytebuf"] /\ pc' \notin {"text", "bytes"}
    BY <1>6 DEF NewNameBuf, AppendCall, EndOfText, MakeField, FormatMessage, PutChar, MessageDone,
                TypeInv
  <2> QED BY <1>3, <1>4, <2>1
<1>7. CASE NameCall
  <2>1. todo' = << >>
    BY <1>7 DEF NameCall
  <2>2. bufs'["bytebuf"] = bufs["bytebuf"] \/ bufs'["bytebuf"] = NewBuf
    BY <1>7 DEF NameCall, TypeInv
  <2>3. NewBuf.data = << >> /\ NewBuf.screenpos = 0
    BY DEF NewBuf
  <2> QED BY <1>3, <1>4, <2>1, <2>2, <2>3, NothingIsSafe
<1>8. CASE FreeBytes
  <2>1. bufs'["bytebuf"] = NoBuf /\ pc' = "calls"
    BY <1>8 DEF FreeBytes, TypeInv
  <2>2. NoBuf.data = << >> /\ NoBuf.screenpos = 0
    BY DEF NoBuf
  <2> QED BY <2>1, <2>2, NothingIsSafe
<1>9. ASSUME NEW x, SafePiece(x), todo' = <<x>>
      PROVE  \A k \in 1..Len(todo') : SafePiece(todo'[k])
  BY <1>9
<1>10. CASE ReadByte
  <2>1. text[p + 1] \in Byte
    BY <1>10, ByteOfText DEF ReadByte
  <2>2. todo' = <<BytePiece(text[p + 1])>> /\ bufs' = bufs
    BY <1>10 DEF ReadByte
  <2> QED BY <1>2, <1>3, <1>4, <1>9, <2>1, <2>2, BytePieceIsSafe
<1>11. CASE ReadChar
  <2>1. text[p + 1] \in Byte
    BY <1>11, ByteOfText DEF ReadChar
  <2>2. bufs' = bufs /\ todo = << >>
    BY <1>11 DEF ReadChar
  <2>3. PICK c \in Decode :
          CASE c.class = "incomplete" -> pc' = "bytes" /\ UNCHANGED <<p, todo>>
            [] c.class = "invalid" ->
                  todo' = << BytePiece(text[p + 1]) >> /\ p' = p + 1 /\ UNCHANGED pc
            [] OTHER ->
                  todo' = CharPieces(c) /\ p' = p + Len(c.bytes) /\ UNCHANGED pc
    BY <1>11 DEF ReadChar
  <2>4. CASE c.class = "incomplete"
    <3>1. todo' = << >>
      BY <2>2, <2>3, <2>4
    <3> QED BY <1>3, <1>4, <2>2, <3>1
  <2>5. CASE c.class = "invalid"
    <3>1. todo' = <<BytePiece(text[p + 1])>>
      BY <2>3, <2>5
    <3> QED BY <1>2, <1>3, <1>4, <1>9, <2>1, <2>2, <3>1, BytePieceIsSafe
  <2>6. CASE c.class \notin {"incomplete", "invalid"}
    <3>1. c \in Chars
      BY <2>6 DEF Decode
    <3>2. todo' = CharPieces(c)
      BY <2>3, <2>6
    <3> QED BY <1>2, <1>3, <1>4, <2>2, <3>1, <3>2, CharPiecesAreSafe
  <2> QED BY <2>4, <2>5, <2>6
<1>12. CASE Terminated \/ UNCHANGED vars
  BY <1>3, <1>4, <1>12 DEF Terminated, vars
<1> QED BY <1>5, <1>6, <1>7, <1>8, <1>10, <1>11, <1>12 DEF Next, Program

LEMMA ShowsMore ==
    ASSUME NEW data \in Seq(Int), Shows(data)
    PROVE  /\ \A c \in Printable : data \o c.bytes \in Seq(Int) /\ Shows(data \o c.bytes)
           /\ \A s \in Seq(Plain) : data \o s \in Seq(Int) /\ Shows(data \o s)
<1>1. PICK n \in Int : Safe(data, n)
  BY DEF Shows
<1>2. ASSUME NEW c \in Printable PROVE data \o c.bytes \in Seq(Int) /\ Shows(data \o c.bytes)
  <2>1. data \o c.bytes \in Seq(Int) /\ Safe(data \o c.bytes, n + AsIs(c).columns)
    BY <1>1, SafeChar, Zenon
  <2>2. AsIs(c).columns \in Int
    <3>1. c.columns \in Int
      BY CharType DEF Printable
    <3> QED BY <3>1 DEF AsIs, Piece
  <2>3. n + AsIs(c).columns \in Int
    BY <2>2
  <2> QED BY <2>1, <2>3, Zenon DEF Shows
<1>3. ASSUME NEW s \in Seq(Plain) PROVE data \o s \in Seq(Int) /\ Shows(data \o s)
  <2>1. Safe(data \o s, n + Len(s))
    BY <1>1, SafeSigns, Zenon
  <2>2. n + Len(s) \in Int
    OBVIOUS
  <2>3. s \in Seq(Int)
    BY PlainStrings
  <2>4. data \o s \in Seq(Int)
    BY <2>3, ConcatProperties, Zenon
  <2> QED BY <2>1, <2>2, <2>4, Zenon DEF Shows
<1> QED BY <1>2, <1>3, Zenon

LEMMA OctalString == \A b \in Byte : Octal(b).string \in Seq(Plain)
<1> TAKE b \in Byte
<1>1. PICK d \in 48..55, e \in 48..55, o \in 48..55 :
         d = 48 + (b \div 64) /\ e = 48 + ((b \div 8) % 8) /\ o = 48 + (b % 8)
  BY OctalDigits
<1>2. Octal(b).string = <<Backslash, d, e, o>>
  BY <1>1 DEF Octal, Piece
<1>3. Backslash \in Plain /\ d \in Plain /\ e \in Plain /\ o \in Plain
  BY DEF Plain
<1> QED BY <1>2, <1>3

LEMMA SafeMessageStep ==
    TypeInv /\ BufInv /\ SafeInv /\ [Next]_vars =>
        /\ err' \in Seq(Int) /\ SafeMessage'
        /\ pc' \notin {"puts", "written"} => err' = << >>
<1> SUFFICES ASSUME TypeInv, BufInv, SafeInv, [Next]_vars
             PROVE  /\ err' \in Seq(Int) /\ SafeMessage'
                    /\ pc' \notin {"puts", "written"} => err' = << >>
  OBVIOUS
<1>1. err \in Seq(Int) /\ SafeMessage /\ (pc \notin {"puts", "written"} => err = << >>)
  BY DEF SafeInv
<1>2. Shows(<< >>)
  <2>1. 0 \in Int
    OBVIOUS
  <2> QED BY <2>1, NothingIsSafe, Zenon DEF Shows
<1>3. CASE PutChar
  <2>1. pc = "puts" /\ pc' = pc /\ p < Len(text) /\ text' = text
    BY <1>3 DEF PutChar
  <2>2. PICK n \in Nat : n = p
    BY DEF TypeInv
  <2>3. Shows(err)
    <3>1. p # Len(text)
      <4>1. PICK s \in Seq(Byte) : s = text
        BY DEF TypeInv
      <4>2. n < Len(s)
        BY <2>1, <2>2, <4>1
      <4>3. n # Len(s)
        BY <4>2
      <4> QED BY <2>2, <4>1, <4>3
    <3> QED BY <1>1, <3>1 DEF SafeMessage
  <2>4. \A s \in Seq(Plain) : err \o s \in Seq(Int) /\ Shows(err \o s)
    BY <1>1, <2>3, ShowsMore
  <2>5. SafeMessage' /\ err' \in Seq(Int)
    <3>1. CASE IsLastNewline /\ err' = Append(err, Newline) /\ p' = p + 1
      <4>1. PICK d \in Seq(Int) : d = err
        BY <1>1
      <4>2. err' = d \o <<Newline>> /\ err' \in Seq(Int)
        BY <3>1, <4>1 DEF Newline
      <4>3. p' = Len(text')
        BY <2>1, <3>1 DEF IsLastNewline
      <4> QED BY <2>3, <4>1, <4>2, <4>3 DEF SafeMessage
    <3>2. CASE ~IsLastNewline
      <4>1. PICK c \in Decode :
              IF c.class \in {"invalid", "incomplete"}
              THEN err' = err \o Octal(text[p + 1]).string /\ p' = p + 1
              ELSE /\ err' = err \o (IF c.class = "print" THEN c.bytes
                                     ELSE FlattenSeq([i \in 1..Len(c.bytes) |->
                                                         Octal(c.bytes[i]).string]))
                   /\ p' = p + Len(c.bytes)
        BY <1>3, <3>2 DEF PutChar
      <4>2. Shows(err') /\ err' \in Seq(Int)
        <5>1. CASE c.class \in {"invalid", "incomplete"}
          <6>1. text[p + 1] \in Byte
            BY <2>1, ByteOfText
          <6>2. Octal(text[p + 1]).string \in Seq(Plain)
            BY <6>1, OctalString
          <6> QED BY <2>4, <4>1, <5>1, <6>2
        <5>2. CASE c.class = "print"
          <6>1. c \in Printable
            BY <5>2 DEF Decode, Printable
          <6>2. err \o c.bytes \in Seq(Int) /\ Shows(err \o c.bytes)
            BY <1>1, <2>3, <6>1, ShowsMore
          <6> QED BY <4>1, <5>2, <6>2
        <5>3. CASE c.class \notin {"invalid", "incomplete", "print"}
          <6>1. c \in Chars
            BY <5>3 DEF Decode
          <6>2. PICK s \in Seq(Byte) : s = c.bytes /\ Len(s) \in Nat /\ Len(s) > 0
            BY <6>1, CharType
          <6>3. PICK seqs : seqs = [i \in 1..Len(s) |-> Octal(s[i]).string]
            OBVIOUS
          <6>4. Len(seqs) = Len(s) /\ \A i \in 1..Len(s) : seqs[i] \in Seq(Plain)
            <7>1. Len(seqs) = Len(s)
              BY <6>3
            <7>2. ASSUME NEW i \in 1..Len(s) PROVE seqs[i] \in Seq(Plain)
              <8>1. s[i] \in Byte
                OBVIOUS
              <8> QED BY <6>3, <8>1, OctalString
            <7> QED BY <7>1, <7>2
          <6>5. FlattenSeq(seqs) \in Seq(Plain)
            BY <6>2, <6>4, FlatteningIsPlain
          <6>6. err' = err \o FlattenSeq(seqs)
            BY <4>1, <5>3, <6>2, <6>3
          <6> QED BY <2>4, <6>5, <6>6
        <5> QED BY <5>1, <5>2, <5>3
      <4> QED BY <4>2 DEF SafeMessage
    <3> QED BY <1>3, <3>1, <3>2 DEF PutChar
  <2> QED BY <2>1, <2>5
<1>4. CASE err' = err /\ pc \notin {"puts", "written"} /\ pc' # "written"
  BY <1>1, <1>2, <1>4 DEF SafeMessage
<1>5. CASE err' = err /\ text' = text /\ p' = p /\ (pc \in {"puts", "written"} => pc' \in {"puts", "written"})
  BY <1>1, <1>5 DEF SafeMessage
<1>6. CASE Grow \/ AppendPiece \/ DropPiece
  BY <1>1, <1>5, <1>6 DEF Grow, AppendPiece, DropPiece
<1>7. CASE NewNameBuf \/ AppendCall \/ NameCall \/ ReadChar \/ ReadByte \/ EndOfText \/ FreeBytes
           \/ MakeField \/ FormatMessage
  <2>1. err' = err /\ pc \notin {"puts", "written"}
    BY <1>7 DEF NewNameBuf, AppendCall, NameCall, ReadChar, ReadByte, EndOfText, FreeBytes,
                MakeField, FormatMessage
  <2>2. err' = << >>
    BY <1>1, <2>1
  <2> QED BY <1>2, <2>2 DEF SafeMessage
<1>8. CASE MessageDone \/ Terminated \/ UNCHANGED vars
  BY <1>1, <1>5, <1>8 DEF MessageDone, Terminated, vars
<1> QED BY <1>3, <1>6, <1>7, <1>8 DEF Next, Program

LEMMA SafeStep == TypeInv /\ BufInv /\ SafeInv /\ [Next]_vars => SafeInv'
<1> SUFFICES ASSUME TypeInv, BufInv, SafeInv, [Next]_vars PROVE SafeInv'
  OBVIOUS
<1>1. SafeName'
  BY SafeNameStep DEF SafeInv
<1>2. /\ err' \in Seq(Int) /\ SafeMessage'
      /\ pc' \notin {"puts", "written"} => err' = << >>
  BY SafeMessageStep
<1> QED BY <1>1, <1>2 DEF SafeInv

LEMMA LastIsNewline ==
    ASSUME NEW d \in Seq(Int), Shows(d)
    PROVE  \A i \in DOMAIN Read(d \o <<Newline>>) :
              \/ Read(d \o <<Newline>>)[i].class = "print"
              \/ /\ Read(d \o <<Newline>>)[i].bytes = <<Newline>>
                 /\ i = Len(Read(d \o <<Newline>>))
<1>1. PICK chars \in Seq(Printable) : chars = Read(d)
  BY DEF Shows, Safe
<1>2. PICK all \in Seq(Int) : all = d \o <<Newline>> /\ Len(all) = Len(d) + 1
                              /\ all[Len(d) + 1] = Newline
  <2>1. PICK b \in Int : b = Newline
    BY DEF Newline
  <2>2. /\ Append(d, b) \in Seq(Int) /\ Append(d, b) = d \o <<b>>
        /\ Len(Append(d, b)) = Len(d) + 1 /\ Append(d, b)[Len(d) + 1] = b
    OBVIOUS
  <2> QED BY <2>1, <2>2, Zenon
<1>3. PICK x : x = CharAt(all, Len(d) + 1)
  OBVIOUS
<1>4. x.bytes = <<Newline>> /\ Len(x.bytes) = 1
  <2>1. Len(d) + 1 \in 1..Len(all)
    BY <1>2
  <2>2. /\ Len(x.bytes) \in Nat /\ Len(x.bytes) > 0 /\ Len(d) + 1 + Len(x.bytes) <= Len(all) + 1
        /\ Len(x.bytes) = 1 => x.bytes = <<all[Len(d) + 1]>>
    BY <1>3, <2>1, CharAtType, Zenon
  <2>3. Len(x.bytes) = 1
    <3>1. PICK m \in Nat, n \in Nat, k \in Nat : m = Len(x.bytes) /\ n = Len(d) /\ k = Len(all)
      BY <2>2
    <3>2. m > 0 /\ n + 1 + m <= k + 1 /\ k = n + 1
      BY <1>2, <2>2, <3>1, Zenon
    <3>3. m = 1
      BY <3>2
    <3> QED BY <3>1, <3>3
  <2> QED BY <1>2, <2>2, <2>3
<1>5. Read(all) = chars \o <<x>>
  <2>1. chars \in Seq(Chars)
    BY PrintablesAreChars
  <2>2. <<Newline>> \in Seq(Int) /\ <<Newline>> # << >> /\ Len(<<Newline>>) = 1
    BY DEF Newline
  <2>3. Len(CharAt(d \o <<Newline>>, Len(d) + 1).bytes) = Len(<<Newline>>)
    BY <1>2, <1>3, <1>4, <2>2, Zenon
  <2>4. Read(d \o <<Newline>>) = Read(d) \o <<CharAt(d \o <<Newline>>, Len(d) + 1)>>
    BY <1>1, <2>1, <2>2, <2>3, ReadMore
  <2> QED BY <1>1, <1>2, <1>3, <2>4, Zenon
<1>6. /\ DOMAIN (chars \o <<x>>) = 1..Len(chars) + 1 /\ Len(chars \o <<x>>) = Len(chars) + 1
      /\ (chars \o <<x>>)[Len(chars) + 1] = x
      /\ \A i \in 1..Len(chars) : (chars \o <<x>>)[i] = chars[i]
  <2>1. PICK V : V = Printable \cup {x}
    OBVIOUS
  <2>2. chars \in Seq(V) /\ x \in V
    <3>1. Len(chars) \in Nat /\ (\A i \in 1..Len(chars) : chars[i] \in V)
          /\ chars = [i \in 1..Len(chars) |-> chars[i]]
      BY <2>1
    <3> QED BY <2>1, <3>1
  <2>3. chars \o <<x>> = Append(chars, x)
    BY <2>2
  <2> QED BY <2>2, <2>3
<1>7. ASSUME NEW i \in DOMAIN Read(all)
      PROVE  \/ Read(all)[i].class = "print"
             \/ Read(all)[i].bytes = <<Newline>> /\ i = Len(Read(all))
  <2>1. CASE i \in 1..Len(chars)
    <3>1. chars[i] \in Printable
      BY <2>1
    <3> QED BY <1>5, <1>6, <2>1, <3>1 DEF Printable
  <2>2. CASE i \notin 1..Len(chars)
    <3>1. i = Len(chars) + 1
      BY <1>5, <1>6, <2>2
    <3> QED BY <1>4, <1>5, <1>6, <3>1, Zenon
  <2> QED BY <2>1, <2>2
<1> QED BY <1>2, <1>7, Zenon

\* Of a name that is to be escaped, and of a message, a terminal is shown nothing
\* it could take for a command, and a name is as wide as its field says,
\* whichever locale it is and whatever could not be allocated.
THEOREM ShownSafelyHolds == Spec => []ShownSafely
<1>1. TypeInv /\ SafeInv => ShownSafely
  <2> SUFFICES ASSUME TypeInv, SafeInv PROVE ShownSafely
    OBVIOUS
  <2>1. ASSUME job.escape # "none"
        PROVE  LET shown == Read(bufs["bytebuf"].data)
               IN  /\ \A i \in DOMAIN shown : shown[i].class = "print"
                   /\ Columns(shown) = bufs["bytebuf"].screenpos
    <3>1. Safe(bufs["bytebuf"].data, bufs["bytebuf"].screenpos)
      BY <2>1 DEF SafeInv, SafeName
    <3>2. PICK chars \in Seq(Printable) : chars = Read(bufs["bytebuf"].data)
      BY <3>1 DEF Safe
    <3>3. \A i \in DOMAIN chars : chars[i].class = "print"
      BY DEF Printable
    <3> QED BY <3>1, <3>2, <3>3 DEF Safe
  <2>2. LET written == Read(err)
        IN  \A i \in DOMAIN written :
               \/ written[i].class = "print"
               \/ written[i].bytes = <<Newline>> /\ i = Len(written) /\ p = Len(text)
    <3>1. CASE Shows(err)
      <4>1. PICK chars \in Seq(Printable) : chars = Read(err)
        BY <3>1 DEF Shows, Safe
      <4>2. \A i \in DOMAIN chars : chars[i].class = "print"
        BY DEF Printable
      <4> QED BY <4>1, <4>2
    <3>2. CASE p = Len(text) /\ \E d \in Seq(Int) : err = d \o <<Newline>> /\ Shows(d)
      <4>1. PICK d \in Seq(Int) : err = d \o <<Newline>> /\ Shows(d)
        BY <3>2
      <4> QED BY <3>2, <4>1, LastIsNewline
    <3> QED BY <3>1, <3>2 DEF SafeInv, SafeMessage
  <2> QED BY <2>1, <2>2 DEF ShownSafely
<1>2. TypeInv /\ BufInv /\ SafeInv /\ [Next]_vars => (TypeInv /\ BufInv /\ SafeInv)'
  BY TypeStep, BufStep, SafeStep
<1> QED BY InvInit, SafeInit, <1>1, <1>2, PTL DEF Spec

-----------------------------------------------------------------------------
(* What escapes stand for.                                                     *)

\* The characters that a string is read as.
Spells(string, u) ==
    \/ \E c \in Chars : string = c.bytes /\ u = <<c>>
    \/ string \in Seq(Plain) /\ u = Signs(string)

StandsFor(x, bytes) ==
    \E u \in Seq(Chars) : IsUnit(u) /\ Spells(x.string, u) /\ Meaning(u, 1) = bytes

LEMMA SignsType ==
    ASSUME NEW s \in Seq(Plain)
    PROVE  /\ Signs(s) \in Seq(Chars) /\ Len(Signs(s)) = Len(s)
           /\ \A i \in 1..Len(s) : Signs(s)[i] = Sign(s[i])
<1>1. \A i \in 1..Len(s) : Sign(s[i]) \in Chars
  <2> TAKE i \in 1..Len(s)
  <2>1. s[i] \in Plain
    OBVIOUS
  <2> QED BY <2>1, SignIs
<1>2. Len(s) \in Nat
  OBVIOUS
<1> HIDE DEF Sign
<1> QED BY <1>1, <1>2 DEF Signs

LEMMA SignsMore ==
    ASSUME NEW s \in Seq(Plain), NEW b \in Plain
    PROVE  Signs(s \o <<b>>) = Signs(s) \o <<Sign(b)>>
<1>1. PICK t \in Seq(Plain) : /\ t = s \o <<b>> /\ Len(t) = Len(s) + 1 /\ t[Len(s) + 1] = b
                              /\ \A i \in 1..Len(s) : t[i] = s[i]
  <2>1. Append(s, b) = s \o <<b>> /\ Append(s, b) \in Seq(Plain)
    OBVIOUS
  <2>2. /\ Len(Append(s, b)) = Len(s) + 1 /\ Append(s, b)[Len(s) + 1] = b
        /\ \A i \in 1..Len(s) : Append(s, b)[i] = s[i]
    OBVIOUS
  <2> QED BY <2>1, <2>2, Zenon
<1>2. /\ Signs(s) \in Seq(Chars) /\ Len(Signs(s)) = Len(s)
      /\ \A i \in 1..Len(s) : Signs(s)[i] = Sign(s[i])
  BY SignsType
<1>3. /\ Signs(t) \in Seq(Chars) /\ Len(Signs(t)) = Len(t)
      /\ \A i \in 1..Len(t) : Signs(t)[i] = Sign(t[i])
  BY SignsType
<1>4. PICK x \in Chars : x = Sign(b)
  BY SignIs
<1>5. PICK u \in Seq(Chars), v \in Seq(Chars) : u = Signs(s) /\ v = Signs(t)
  BY <1>2, <1>3
<1>6. Len(v) = Len(u) + 1 /\ v[Len(u) + 1] = x /\ \A i \in 1..Len(u) : v[i] = u[i]
  <2>1. Len(u) = Len(s) /\ Len(v) = Len(u) + 1
    BY <1>1, <1>2, <1>3, <1>5
  <2>2. Len(s) + 1 \in 1..Len(t)
    BY <1>1
  <2>3. v[Len(u) + 1] = x
    BY <1>1, <1>3, <1>4, <1>5, <2>1, <2>2, Zenon
  <2>4. ASSUME NEW i \in 1..Len(u) PROVE v[i] = u[i]
    <3>1. i \in 1..Len(s) /\ i \in 1..Len(t)
      BY <1>1, <2>1
    <3> QED BY <1>1, <1>2, <1>3, <1>5, <3>1, Zenon
  <2> QED BY <2>1, <2>3, <2>4
<1>7. v = Append(u, x) /\ Append(u, x) = u \o <<x>>
  BY <1>6
<1> QED BY <1>1, <1>4, <1>5, <1>7, Zenon

LEMMA ReadSigns ==
    ASSUME NEW data \in Seq(Int), Read(data) \in Seq(Chars), NEW s \in Seq(Plain)
    PROVE  Read(data \o s) = Read(data) \o Signs(s)
<1> DEFINE S == {k \in Nat : \A t \in Seq(Plain) : Len(t) = k =>
                                Read(data \o t) = Read(data) \o Signs(t)}
<1>1. 0 \in S
  <2>1. \A t \in Seq(Plain) : Len(t) = 0 => t = << >>
    OBVIOUS
  <2>2. data \o << >> = data /\ Read(data) \o << >> = Read(data)
    BY ConcatEmptySeq
  <2>3. Signs(<< >>) = << >>
    <3>1. << >> \in Seq(Plain) /\ Len(<< >>) = 0
      OBVIOUS
    <3>2. Signs(<< >>) \in Seq(Chars) /\ Len(Signs(<< >>)) = 0
      BY <3>1, SignsType
    <3> QED BY <3>2
  <2> QED BY <2>1, <2>2, <2>3
<1>2. ASSUME NEW k \in Nat, k \in S PROVE k + 1 \in S
  <2> SUFFICES ASSUME NEW t \in Seq(Plain), Len(t) = k + 1
               PROVE  Read(data \o t) = Read(data) \o Signs(t)
    OBVIOUS
  <2>1. PICK front \in Seq(Plain), b \in Plain : Len(front) = k /\ t = front \o <<b>>
    <3>1. PICK front \in Seq(Plain), b \in Plain : EndsIn(t, front, b)
      BY FrontAndLast
    <3>2. Len(front) = k /\ t = front \o <<b>>
      BY <3>1 DEF EndsIn
    <3> QED BY <3>2
  <2>2. Read(data \o front) = Read(data) \o Signs(front)
    BY <1>2, <2>1
  <2>3. PICK u \in Seq(Int), v \in Seq(Int) : u = front /\ v = <<b>>
    <3>1. front \in Seq(Int)
      BY PlainStrings
    <3>2. b \in Int
      BY PlainIsInt
    <3>3. <<b>> \in Seq(Int)
      BY <3>2
    <3> QED BY <3>1, <3>3
  <2>4. PICK more \in Seq(Int) : more = data \o front
    <3>1. data \o u \in Seq(Int)
      BY ConcatProperties, Zenon
    <3> QED BY <2>3, <3>1
  <2>5. PICK c \in Chars : c = Sign(b) /\ c.bytes = <<b>>
    BY SignIs
  <2>6. PICK x \in Seq(Chars), y \in Seq(Chars), z \in Seq(Chars) :
           x = Read(data) /\ y = Signs(front) /\ z = <<c>>
    <3>1. <<c>> \in Seq(Chars)
      OBVIOUS
    <3> QED BY <3>1, SignsType
  <2>7. Read(more) \in Seq(Chars) /\ Read(more) = x \o y
    <3>1. x \o y \in Seq(Chars)
      BY ConcatProperties, Zenon
    <3> QED BY <2>2, <2>4, <2>6, <3>1, Zenon
  <2>8. Read(more \o <<b>>) = (x \o y) \o z
    <3>1. Read(more \o c.bytes) = Read(more) \o <<c>>
      BY <2>7, ReadOne, Zenon
    <3> QED BY <2>5, <2>6, <2>7, <3>1, Zenon
  <2>9. /\ (data \o u) \o v = data \o (u \o v)
        /\ (x \o y) \o z = x \o (y \o z)
    <3>1. (data \o u) \o v = data \o (u \o v)
      BY ConcatAssociative, SMTT(30)
    <3>2. (x \o y) \o z = x \o (y \o z)
      BY ConcatAssociative, SMTT(30)
    <3> QED BY <3>1, <3>2, Zenon
  <2>10. Signs(t) = y \o z
    BY <2>1, <2>5, <2>6, SignsMore, Zenon
  <2> QED BY <2>1, <2>3, <2>4, <2>6, <2>8, <2>9, <2>10, Zenon
<1>3. Len(s) \in S
  <2>1. \A k \in Nat : k \in S => k + 1 \in S
    BY <1>2, Zenon
  <2>2. Len(s) \in Nat
    OBVIOUS
  <2> HIDE DEF S
  <2> QED BY <1>1, <2>1, <2>2, InductionInSet
<1> QED BY <1>3

LEMMA ReadString ==
    ASSUME NEW data \in Seq(Int), Read(data) \in Seq(Chars), NEW string, NEW u, Spells(string, u)
    PROVE  data \o string \in Seq(Int) /\ Read(data \o string) = Read(data) \o u
<1>1. CASE \E c \in Chars : string = c.bytes /\ u = <<c>>
  <2>1. PICK c \in Chars : string = c.bytes /\ u = <<c>>
    BY <1>1
  <2>2. data \o c.bytes \in Seq(Int) /\ Read(data \o c.bytes) = Read(data) \o <<c>>
    BY ReadOne, Zenon
  <2> QED BY <2>1, <2>2, Zenon
<1>2. CASE string \in Seq(Plain) /\ u = Signs(string)
  <2>1. PICK s \in Seq(Plain) : s = string
    BY <1>2
  <2>2. Read(data \o s) = Read(data) \o Signs(s)
    BY ReadSigns, Zenon
  <2>3. data \o s \in Seq(Int)
    <3>1. s \in Seq(Int)
      BY PlainStrings
    <3> QED BY <3>1, ConcatProperties, Zenon
  <2> QED BY <1>2, <2>1, <2>2, <2>3, Zenon
<1> QED BY <1>1, <1>2, Zenon DEF Spells

LEMMA SignBytes == \A b : Sign(b).bytes = <<b>>
  BY DEF Sign

LEMMA CharStands ==
    ASSUME NEW c \in Chars, c.bytes # <<Backslash>>
    PROVE  StandsFor(AsIs(c), c.bytes)
<1>1. PICK u \in Seq(Chars) : u = <<c>> /\ Len(u) = 1 /\ u[1] = c /\ u # << >>
  <2>1. <<c>> \in Seq(Chars) /\ Len(<<c>>) = 1 /\ <<c>>[1] = c /\ <<c>> # << >>
    OBVIOUS
  <2> QED BY <2>1
<1>2. ~IsEscape(u, 1) /\ ~IsOctal(u, 1)
  BY <1>1, Zenon DEF IsEscape, IsOctal
<1>3. ShownWidth(u, 1) = 1 /\ Meaning(u, 1) = c.bytes /\ Settled(u, 1)
  BY <1>1, <1>2, Zenon DEF ShownWidth, Meaning, Settled
<1>4. AsIs(c).string = c.bytes
  BY DEF AsIs, Piece
<1>5. IsUnit(u)
  BY <1>1, <1>3 DEF IsUnit
<1>6. Spells(AsIs(c).string, u)
  BY <1>1, <1>4, Zenon DEF Spells
<1> QED BY <1>3, <1>5, <1>6, Zenon DEF StandsFor

LEMMA OctalStands == \A b \in Byte : StandsFor(Octal(b), <<b>>)
<1> TAKE b \in Byte
<1>1. PICK d \in 48..55, e \in 48..55, o \in 48..55 :
         d = 48 + (b \div 64) /\ e = 48 + ((b \div 8) % 8) /\ o = 48 + (b % 8)
  BY OctalDigits
<1>2. (64 * (d - 48)) + (8 * (e - 48)) + (o - 48) = b
  <2>1. (64 * (b \div 64)) + (8 * ((b \div 8) % 8)) + (b % 8) = b
    BY OctalDigits
  <2>2. PICK x \in Int, y \in Int, z \in Int :
           /\ x = b \div 64 /\ y = (b \div 8) % 8 /\ z = b % 8
           /\ d = 48 + x /\ e = 48 + y /\ o = 48 + z
    BY <1>1 DEF Byte
  <2>3. d - 48 = x /\ e - 48 = y /\ o - 48 = z
    BY <2>2
  <2> QED BY <2>1, <2>2, <2>3, Zenon
<1>3. PICK s \in Seq(Plain) : /\ s = <<Backslash, d, e, o>> /\ Len(s) = 4
                              /\ s[1] = Backslash /\ s[2] = d /\ s[3] = e /\ s[4] = o
  <2>1. Backslash \in Plain /\ d \in Plain /\ e \in Plain /\ o \in Plain
    BY DEF Plain
  <2>2. <<Backslash, d, e, o>> \in Seq(Plain)
    BY <2>1
  <2> QED BY <2>2
<1>4. Octal(b).string = s
  BY <1>1, <1>3 DEF Octal, Piece
<1>5. PICK u \in Seq(Chars) : /\ u = Signs(s) /\ Len(u) = 4
                              /\ u[1] = Sign(Backslash) /\ u[2] = Sign(d)
                              /\ u[3] = Sign(e) /\ u[4] = Sign(o)
  <2>1. Signs(s) \in Seq(Chars) /\ Len(Signs(s)) = 4 /\ \A i \in 1..4 : Signs(s)[i] = Sign(s[i])
    BY <1>3, SignsType
  <2>2. 1 \in 1..4 /\ 2 \in 1..4 /\ 3 \in 1..4 /\ 4 \in 1..4
    OBVIOUS
  <2> QED BY <1>3, <2>1, <2>2, Zenon
<1>6. /\ u[1].bytes = <<Backslash>> /\ u[2].bytes = <<d>> /\ u[3].bytes = <<e>>
      /\ u[4].bytes = <<o>>
  BY <1>5, SignBytes, Zenon
<1>7. 1 + 1 = 2 /\ 1 + 2 = 3 /\ 1 + 3 = 4 /\ 4 <= 4 /\ 1 < 4
  OBVIOUS
<1>8. IsOctal(u, 1)
  BY <1>5, <1>6, <1>7, Zenon DEF IsOctal, IsEscape
<1>9. ShownWidth(u, 1) = 4 /\ Settled(u, 1)
  BY <1>5, <1>7, <1>8, Zenon DEF ShownWidth, Settled
<1>10. Meaning(u, 1) = <<b>>
  <2>1. Meaning(u, 1) = << (64 * (u[2].bytes[1] - 48)) + (8 * (u[3].bytes[1] - 48))
                           + (u[4].bytes[1] - 48) >>
    BY <1>7, <1>8, Zenon DEF Meaning
  <2>2. u[2].bytes[1] = d /\ u[3].bytes[1] = e /\ u[4].bytes[1] = o
    BY <1>6
  <2> QED BY <1>2, <2>1, <2>2, Zenon
<1>11. IsUnit(u)
  <2>1. u # << >>
    <3>1. Len(<< >>) # 4
      OBVIOUS
    <3> QED BY <1>5, <3>1, Zenon
  <2> QED BY <1>5, <1>9, <2>1, Zenon DEF IsUnit
<1>12. Spells(Octal(b).string, u)
  BY <1>4, <1>5, Zenon DEF Spells
<1> QED BY <1>10, <1>11, <1>12, Zenon DEF StandsFor

LEMMA PairIsUnit ==
    ASSUME NEW e \in Plain, e \notin 48..55
    PROVE  \E u \in Seq(Chars) : /\ IsUnit(u) /\ Spells(<<Backslash, e>>, u)
                                 /\ Meaning(u, 1) = IF \E b \in DOMAIN Named : Named[b] = e
                                                    THEN <<CHOOSE b \in DOMAIN Named : Named[b] = e>>
                                                    ELSE <<e>>
<1>1. PICK s \in Seq(Plain) : s = <<Backslash, e>> /\ Len(s) = 2 /\ s[1] = Backslash /\ s[2] = e
  <2>1. Backslash \in Plain
    BY DEF Plain
  <2>2. <<Backslash, e>> \in Seq(Plain)
    BY <2>1
  <2> QED BY <2>2
<1>2. PICK u \in Seq(Chars) : /\ u = Signs(s) /\ Len(u) = 2
                              /\ u[1] = Sign(Backslash) /\ u[2] = Sign(e)
  <2>1. Signs(s) \in Seq(Chars) /\ Len(Signs(s)) = 2 /\ \A i \in 1..2 : Signs(s)[i] = Sign(s[i])
    BY <1>1, SignsType
  <2>2. 1 \in 1..2 /\ 2 \in 1..2
    OBVIOUS
  <2> QED BY <1>1, <2>1, <2>2, Zenon
<1>3. u[1].bytes = <<Backslash>> /\ u[2].bytes = <<e>>
  BY <1>2, SignBytes, Zenon
<1>4. 1 + 1 = 2 /\ 1 < 2 /\ ~(1 + 3 <= 2)
  OBVIOUS
<1>5. IsEscape(u, 1) /\ ~IsOctal(u, 1)
  BY <1>2, <1>3, <1>4, Zenon DEF IsOctal, IsEscape
<1>6. <<e>> \notin Digits
  BY DEF Digits
<1>7. ShownWidth(u, 1) = 2 /\ Settled(u, 1)
  BY <1>2, <1>3, <1>4, <1>5, <1>6, Zenon DEF ShownWidth, Settled
<1>8. Meaning(u, 1) = IF \E b \in DOMAIN Named : Named[b] = e
                      THEN <<CHOOSE b \in DOMAIN Named : Named[b] = e>>
                      ELSE <<e>>
  <2> DEFINE named == {b \in DOMAIN Named : u[1 + 1].bytes = <<Named[b]>>}
  <2>0. u[1 + 1].bytes = <<e>>
    BY <1>3, <1>4, Zenon
  <2>1. Meaning(u, 1) = IF named # {} THEN << CHOOSE b \in named : TRUE >> ELSE u[1 + 1].bytes
    BY <1>5, Zenon DEF Meaning
  <2>2. PICK names : names = {b \in DOMAIN Named : Named[b] = e} /\ names = named
    <3>1. \A b \in DOMAIN Named : (<<e>> = <<Named[b]>>) <=> (Named[b] = e)
      OBVIOUS
    <3>2. named = {b \in DOMAIN Named : Named[b] = e}
      BY <2>0, <3>1, Zenon
    <3> QED BY <3>2, Zenon
  <2>3. (names # {}) <=> \E b \in DOMAIN Named : Named[b] = e
    BY <2>2, Zenon
  <2>4. (CHOOSE b \in names : TRUE) = CHOOSE b \in DOMAIN Named : Named[b] = e
    <3>1. \A b : (b \in names /\ TRUE) <=> (b \in DOMAIN Named /\ Named[b] = e)
      BY <2>2, Zenon
    <3> QED BY <3>1, Zenon
  <2> HIDE DEF named
  <2> QED BY <2>0, <2>1, <2>2, <2>3, <2>4, Zenon
<1>9. IsUnit(u)
  <2>1. u # << >>
    <3>1. Len(<< >>) # 2
      OBVIOUS
    <3> QED BY <1>2, <3>1, Zenon
  <2> QED BY <1>2, <1>7, <2>1, Zenon DEF IsUnit
<1>10. Spells(<<Backslash, e>>, u)
  BY <1>1, <1>2, Zenon DEF Spells
<1> QED BY <1>8, <1>9, <1>10, Zenon

LEMMA CEscapeStands == \A b \in Byte : StandsFor(CEscape(b), <<b>>)
<1> TAKE b \in Byte
<1>1. CASE b \in DOMAIN Named
  <2>1. PICK e : e = Named[b] /\ e \in {97, 98, 116, 110, 118, 102, 114}
    BY <1>1 DEF Named
  <2>2. e \in Plain /\ e \notin 48..55
    BY <2>1 DEF Plain
  <2>3. \A x \in DOMAIN Named : Named[x] = e => x = b
    BY <1>1, <2>1 DEF Named
  <2>4. (CHOOSE x \in DOMAIN Named : Named[x] = e) = b
    BY <1>1, <2>1, <2>3, Zenon
  <2>5. PICK u \in Seq(Chars) : /\ IsUnit(u) /\ Spells(<<Backslash, e>>, u)
                                /\ Meaning(u, 1) = IF \E x \in DOMAIN Named : Named[x] = e
                                                   THEN <<CHOOSE x \in DOMAIN Named : Named[x] = e>>
                                                   ELSE <<e>>
    BY <2>2, PairIsUnit, Zenon
  <2>6. Meaning(u, 1) = <<b>>
    BY <1>1, <2>1, <2>4, <2>5, Zenon
  <2>7. CEscape(b).string = <<Backslash, e>>
    <3>1. CEscape(b) = Piece(<<Backslash, e>>, 2)
      BY <1>1, <2>1, Zenon DEF CEscape
    <3> QED BY <3>1 DEF Piece
  <2> QED BY <2>5, <2>6, <2>7, Zenon DEF StandsFor
<1>2. CASE b \notin DOMAIN Named
  BY <1>2, OctalStands, Zenon DEF CEscape
<1> QED BY <1>1, <1>2

LEMMA PartsJoin ==
    ASSUME NEW V, NEW t \in Seq(V), NEW q \in Nat, NEW r \in Nat, q <= r, r <= Len(t)
    PROVE  SubSeq(t, 1, q) \o SubSeq(t, q + 1, r) = SubSeq(t, 1, r)
<1>1. 1 \in 1..Len(t) + 1 /\ q \in 1 - 1..Len(t) /\ r \in q..Len(t)
  OBVIOUS
<1> QED BY <1>1, ConcatAdjacentSubSeq

LEMMA OneOf ==
    ASSUME NEW V, NEW t \in Seq(V), NEW i \in 1..Len(t)
    PROVE  SubSeq(t, i, i) = <<t[i]>>
<1>1. i \in Nat /\ i > 0 /\ i <= Len(t) /\ i <= i + 1
  OBVIOUS
<1>2. /\ SubSeq(t, i, i) \in Seq(V) /\ Len(SubSeq(t, i, i)) = i - i + 1
      /\ \A k \in 1..i - i + 1 : SubSeq(t, i, i)[k] = t[i + k - 1]
  BY <1>1, PartOf
<1>3. i - i + 1 = 1 /\ i + 1 - 1 = i /\ 1 \in 1..i - i + 1
  OBVIOUS
<1>4. PICK s \in Seq(V) : s = SubSeq(t, i, i) /\ Len(s) = 1 /\ s[1] = t[i]
  BY <1>2, <1>3, Zenon
<1>5. \A r \in Seq(V), v \in V : Len(r) = 1 /\ r[1] = v => r = <<v>>
  OBVIOUS
<1>6. t[i] \in V
  OBVIOUS
<1> QED BY <1>4, <1>5, <1>6, Zenon

\* The first q bytes of t can be read back from data.
ReadBack(data, q, t) ==
    /\ data \in Seq(Int) /\ Read(data) \in Seq(Chars)
    /\ Whole(Read(data)) /\ Undo(Read(data)) = SubSeq(t, 1, q)

LEMMA ReadBackMore ==
    ASSUME NEW t \in Seq(Byte), NEW q \in Nat, NEW r \in Nat, q <= r, r <= Len(t),
           NEW data, ReadBack(data, q, t), NEW x, StandsFor(x, SubSeq(t, q + 1, r))
    PROVE  ReadBack(data \o x.string, r, t)
<1>1. PICK chars \in Seq(Chars) : /\ chars = Read(data) /\ Whole(chars)
                                  /\ Undo(chars) = SubSeq(t, 1, q) /\ data \in Seq(Int)
  BY DEF ReadBack
<1>2. PICK u \in Seq(Chars) : /\ IsUnit(u) /\ Spells(x.string, u)
                              /\ Meaning(u, 1) = SubSeq(t, q + 1, r)
  BY DEF StandsFor
<1>3. data \o x.string \in Seq(Int) /\ Read(data \o x.string) = chars \o u
  BY <1>1, <1>2, ReadString, Zenon
<1>4. Whole(chars \o u) /\ Undo(chars \o u) = Undo(chars) \o Meaning(u, 1)
  BY <1>1, <1>2, UndoMore, Zenon
<1>5. Undo(chars \o u) = SubSeq(t, 1, r)
  <2>1. SubSeq(t, 1, q) \o SubSeq(t, q + 1, r) = SubSeq(t, 1, r)
    BY PartsJoin, Zenon
  <2> QED BY <1>1, <1>2, <1>4, <2>1, Zenon
<1>6. chars \o u \in Seq(Chars)
  BY ConcatProperties, Zenon
<1> QED BY <1>3, <1>4, <1>5, <1>6, Zenon DEF ReadBack

LEMMA NothingReadBack ==
    ASSUME NEW t \in Seq(Byte)
    PROVE  ReadBack(<< >>, 0, t)
<1>1. << >> \in Seq(Int) /\ << >> \in Seq(Chars)
  OBVIOUS
<1>2. SubSeq(t, 1, 0) = << >>
  <2>1. 1 \in Int /\ 0 \in Int /\ 1 > 0
    OBVIOUS
  <2> QED BY <2>1, SubSeqEmpty
<1>3. Read(<< >>) = << >> /\ Whole(<< >>) /\ Undo(<< >>) = << >>
  BY ReadNothing, NothingIsWhole, Zenon
<1> QED BY <1>1, <1>2, <1>3, Zenon DEF ReadBack

\* A backslash of a name is appended in two pieces.
Slash == Piece(<<Backslash>>, 1)

\* What has been appended and what waits to be are the first n bytes of t: as
\* pieces that stand for a byte each, as a character, or as two backslashes, of
\* which one may have been appended.
Waits(data, pieces, n, t) ==
    \E old \in Seq(Int), q \in 0..n :
        /\ ReadBack(old, q, t)
        /\ \/ /\ old = data /\ Len(pieces) = n - q
              /\ \A k \in 1..Len(pieces) : StandsFor(pieces[k], SubSeq(t, q + k, q + k))
           \/ old = data /\ Len(pieces) = 1 /\ StandsFor(pieces[1], SubSeq(t, q + 1, n))
           \/ old = data /\ pieces = <<Slash, Slash>> /\ n = q + 1 /\ t[n] = Backslash
           \/ /\ data = old \o <<Backslash>>
              /\ pieces = <<Slash>> /\ n = q + 1 /\ t[n] = Backslash

LEMMA WaitsForNone ==
    ASSUME NEW t, NEW n \in Nat, NEW data, Waits(data, << >>, n, t)
    PROVE  ReadBack(data, n, t)
<1>1. Len(<< >>) = 0 /\ 0 # 1 /\ 0 # 2
  OBVIOUS
<1>2. << >> # <<Slash, Slash>> /\ << >> # <<Slash>>
  <2>1. Len(<<Slash, Slash>>) = 2 /\ Len(<<Slash>>) = 1
    OBVIOUS
  <2> QED BY <1>1, <2>1, Zenon
<1>3. PICK old \in Seq(Int), q \in 0..n : ReadBack(old, q, t) /\ old = data /\ 0 = n - q
  BY <1>1, <1>2, Zenon DEF Waits
<1>4. q = n
  BY <1>3
<1> QED BY <1>3, <1>4, Zenon

LEMMA SlashesStand ==
    ASSUME NEW x, x.string = <<Backslash, Backslash>>
    PROVE  StandsFor(x, <<Backslash>>)
<1>1. Backslash \in Plain
  BY DEF Plain
<1>2. Backslash \notin 48..55 /\ ~ \E b \in DOMAIN Named : Named[b] = Backslash
  <2>1. ASSUME NEW b \in DOMAIN Named PROVE Named[b] # 92
    <3>1. Named[b] \in {97, 98, 116, 110, 118, 102, 114}
      BY DEF Named
    <3> QED BY <3>1
  <2>2. 92 \notin 48..55
    OBVIOUS
  <2> QED BY <2>1, <2>2, Zenon DEF Backslash
<1>3. PICK u \in Seq(Chars) : /\ IsUnit(u) /\ Spells(<<Backslash, Backslash>>, u)
                              /\ Meaning(u, 1) = <<Backslash>>
  BY <1>1, <1>2, PairIsUnit, Zenon
<1> QED BY <1>3, Zenon DEF StandsFor

LEMMA WaitsLess ==
    ASSUME NEW t \in Seq(Byte), NEW n \in Nat, n <= Len(t), NEW data,
           NEW pieces \in Seq(Pieces), pieces # << >>, Waits(data, pieces, n, t)
    PROVE  Waits(data \o pieces[1].string, Tail(pieces), n, t)
<1> DEFINE W(new, rest, old, q) ==
        \/ /\ old = new /\ Len(rest) = n - q
           /\ \A k \in 1..Len(rest) : StandsFor(rest[k], SubSeq(t, q + k, q + k))
        \/ old = new /\ Len(rest) = 1 /\ StandsFor(rest[1], SubSeq(t, q + 1, n))
        \/ old = new /\ rest = <<Slash, Slash>> /\ n = q + 1 /\ t[n] = Backslash
        \/ /\ new = old \o <<Backslash>>
           /\ rest = <<Slash>> /\ n = q + 1 /\ t[n] = Backslash
<1>1. PICK old \in Seq(Int), q \in 0..n : ReadBack(old, q, t) /\ W(data, pieces, old, q)
  BY Zenon DEF Waits
<1>2. \A new, rest : (\E o \in Seq(Int), r \in 0..n : ReadBack(o, r, t) /\ W(new, rest, o, r))
                     => Waits(new, rest, n, t)
  BY Zenon DEF Waits
<1>3. PICK rest \in Seq(Pieces) : /\ rest = Tail(pieces) /\ Len(rest) = Len(pieces) - 1
                                  /\ \A k \in 1..Len(rest) : rest[k] = pieces[k + 1]
  BY HeadTailProperties, Zenon
<1>4. PICK x : x = pieces[1]
  OBVIOUS
<1>5. Len(pieces) \in Nat /\ Len(pieces) > 0 /\ Len(rest) \in Nat
  OBVIOUS
<1>6. CASE /\ old = data /\ Len(pieces) = n - q
           /\ \A k \in 1..Len(pieces) : StandsFor(pieces[k], SubSeq(t, q + k, q + k))
  <2>1. q \in Nat /\ q + 1 \in 0..n /\ q <= q + 1 /\ q + 1 <= Len(t) /\ 1 \in 1..Len(pieces)
    BY <1>5, <1>6
  <2>2. StandsFor(x, SubSeq(t, q + 1, q + 1))
    BY <1>4, <1>6, <2>1, Zenon
  <2>3. q + 1 \in Nat
    BY <2>1
  <2>4. ReadBack(data \o x.string, q + 1, t)
    BY <1>1, <1>6, <2>1, <2>2, <2>3, ReadBackMore, Zenon
  <2>5. Len(rest) = n - (q + 1)
    BY <1>3, <1>6
  <2>6. ASSUME NEW k \in 1..Len(rest)
        PROVE  StandsFor(rest[k], SubSeq(t, q + 1 + k, q + 1 + k))
    <3>1. k + 1 \in 1..Len(pieces) /\ q + (k + 1) = q + 1 + k
      BY <1>3, <1>5
    <3>2. StandsFor(pieces[k + 1], SubSeq(t, q + (k + 1), q + (k + 1)))
      BY <1>6, <3>1, Zenon
    <3> QED BY <1>3, <3>1, <3>2, Zenon
  <2>7. data \o x.string \in Seq(Int)
    BY <2>4 DEF ReadBack
  <2>8. W(data \o x.string, rest, data \o x.string, q + 1)
    BY <2>5, <2>6, Zenon
  <2> HIDE DEF W
  <2> QED BY <1>2, <1>3, <1>4, <2>1, <2>4, <2>7, <2>8, Zenon
<1>7. CASE old = data /\ Len(pieces) = 1 /\ StandsFor(x, SubSeq(t, q + 1, n))
  <2>1. q \in Nat /\ q <= n /\ n \in 0..n
    OBVIOUS
  <2>2. ReadBack(data \o x.string, n, t)
    BY <1>1, <1>7, <2>1, ReadBackMore, Zenon
  <2>3. Len(rest) = n - n /\ 1..Len(rest) = {}
    BY <1>3, <1>7
  <2>4. data \o x.string \in Seq(Int)
    BY <2>2 DEF ReadBack
  <2>5. W(data \o x.string, rest, data \o x.string, n)
    BY <2>3, Zenon
  <2> HIDE DEF W
  <2> QED BY <1>2, <1>3, <1>4, <2>1, <2>2, <2>4, <2>5, Zenon
<1>8. Slash.string = <<Backslash>>
  BY DEF Slash, Piece
<1>9. CASE old = data /\ pieces = <<Slash, Slash>> /\ n = q + 1 /\ t[n] = Backslash
  <2>1. x = Slash /\ rest = <<Slash>>
    BY <1>3, <1>4, <1>9
  <2>2. data \o x.string = old \o <<Backslash>>
    BY <1>8, <1>9, <2>1
  <2>3. W(data \o x.string, rest, old, q)
    BY <1>9, <2>1, <2>2, Zenon
  <2> HIDE DEF W
  <2> QED BY <1>1, <1>2, <1>3, <1>4, <2>3, Zenon
<1>10. CASE data = old \o <<Backslash>> /\ pieces = <<Slash>> /\ n = q + 1 /\ t[n] = Backslash
  <2>1. x = Slash /\ Len(rest) = 0 /\ 1..Len(rest) = {} /\ n - n = 0 /\ n \in 0..n
    BY <1>3, <1>4, <1>10
  <2>2. PICK both : both.string = <<Backslash, Backslash>>
    <3>1. [string |-> <<Backslash, Backslash>>].string = <<Backslash, Backslash>>
      OBVIOUS
    <3> QED BY <3>1
  <2>3. old \o both.string = data \o x.string
    <3>1. PICK b \in Int : b = Backslash
      BY DEF Backslash
    <3>2. (old \o <<b>>) \o <<b>> = old \o <<b, b>>
      OBVIOUS
    <3> QED BY <1>8, <1>10, <2>1, <2>2, <3>1, <3>2, Zenon
  <2>4. StandsFor(both, SubSeq(t, q + 1, n))
    <3>1. n \in 1..Len(t) /\ q + 1 = n
      BY <1>10
    <3>2. SubSeq(t, n, n) = <<Backslash>>
      BY <1>10, <3>1, OneOf, Zenon
    <3> QED BY <2>2, <3>1, <3>2, SlashesStand, Zenon
  <2>5. q \in Nat /\ q <= n
    OBVIOUS
  <2>6. ReadBack(data \o x.string, n, t)
    <3>1. ReadBack(old \o both.string, n, t)
      BY <1>1, <2>4, <2>5, ReadBackMore, Zenon
    <3> QED BY <2>3, <3>1, Zenon
  <2>7. data \o x.string \in Seq(Int)
    BY <2>6 DEF ReadBack
  <2>8. W(data \o x.string, rest, data \o x.string, n)
    BY <2>1, Zenon
  <2> HIDE DEF W
  <2> QED BY <1>2, <1>3, <1>4, <2>1, <2>6, <2>7, <2>8, Zenon
<1> QED BY <1>1, <1>4, <1>6, <1>7, <1>9, <1>10, Zenon

-----------------------------------------------------------------------------
(* What has been escaped of a name.                                            *)

\* What of a name that is not escaped waits to be appended.
RawPart(pieces) == IF pieces = << >> THEN << >> ELSE pieces[1].string

WaitsRaw(data, pieces, n, t) ==
    Len(pieces) <= 1 /\ data \o RawPart(pieces) = SubSeq(t, 1, n)

Keeps(escape, data, pieces, n, t) ==
    /\ escape = "c" => Waits(data, pieces, n, t)
    /\ escape = "none" => WaitsRaw(data, pieces, n, t)

UndoInv ==
    /\ shortages \in Nat
    /\ shortages = 0 /\ pc \in {"text", "bytes"} =>
          p <= Len(text) /\ Keeps(job.escape, bufs["bytebuf"].data, todo, p, text)

LEMMA WaitsAfter ==
    ASSUME NEW t, NEW q \in Nat, NEW n \in Nat, q <= n, NEW data, ReadBack(data, q, t),
           NEW pieces,
           \/ /\ Len(pieces) = n - q
              /\ \A k \in 1..Len(pieces) : StandsFor(pieces[k], SubSeq(t, q + k, q + k))
           \/ Len(pieces) = 1 /\ StandsFor(pieces[1], SubSeq(t, q + 1, n))
           \/ pieces = <<Slash, Slash>> /\ n = q + 1 /\ t[n] = Backslash
    PROVE  Waits(data, pieces, n, t)
<1>1. q \in 0..n
  OBVIOUS
<1>2. data \in Seq(Int)
  BY DEF ReadBack
<1> QED BY <1>1, <1>2, Zenon DEF Waits

LEMMA KeepsNothing ==
    ASSUME NEW t \in Seq(Byte), NEW escape
    PROVE  Keeps(escape, << >>, << >>, 0, t)
<1>1. Len(<< >>) = 0 /\ 0 = 0 - 0 /\ 0 \in Nat /\ 0 <= 0 /\ 0 <= 1 /\ 1..0 = {}
  OBVIOUS
<1>2. Waits(<< >>, << >>, 0, t)
  <2>1. ReadBack(<< >>, 0, t)
    BY NothingReadBack, Zenon
  <2>2. Len(<< >>) = 0 - 0 /\ \A k \in 1..Len(<< >>) : StandsFor(<< >>[k], SubSeq(t, 0 + k, 0 + k))
    BY <1>1, Zenon
  <2> QED BY <1>1, <2>1, <2>2, WaitsAfter, Zenon
<1>3. WaitsRaw(<< >>, << >>, 0, t)
  <2>1. SubSeq(t, 1, 0) = << >>
    <3>1. 1 \in Int /\ 0 \in Int /\ 0 < 1
      OBVIOUS
    <3> QED BY <3>1, SubSeqEmpty
  <2>2. << >> \o << >> = << >>
    OBVIOUS
  <2> QED BY <1>1, <2>1, <2>2, Zenon DEF WaitsRaw, RawPart
<1> QED BY <1>2, <1>3, Zenon DEF Keeps

LEMMA KeepsLess ==
    ASSUME NEW t \in Seq(Byte), NEW n \in Nat, n <= Len(t), NEW data, NEW escape,
           NEW pieces \in Seq(Pieces), pieces # << >>, Keeps(escape, data, pieces, n, t)
    PROVE  Keeps(escape, data \o pieces[1].string, Tail(pieces), n, t)
<1>1. escape = "c" => Waits(data \o pieces[1].string, Tail(pieces), n, t)
  BY WaitsLess, Zenon DEF Keeps
<1>2. ASSUME escape = "none"
      PROVE  WaitsRaw(data \o pieces[1].string, Tail(pieces), n, t)
  <2>1. WaitsRaw(data, pieces, n, t)
    BY <1>2, Zenon DEF Keeps
  <2>2. Len(pieces) <= 1 /\ data \o pieces[1].string = SubSeq(t, 1, n)
    BY <2>1, Zenon DEF WaitsRaw, RawPart
  <2>3. PICK rest \in Seq(Pieces) : rest = Tail(pieces) /\ Len(rest) = Len(pieces) - 1
    BY HeadTailProperties, Zenon
  <2>4. rest = << >>
    <3>1. Len(rest) = 0
      BY <2>2, <2>3
    <3> QED BY <3>1
  <2>5. SubSeq(t, 1, n) \o << >> = SubSeq(t, 1, n)
    <3>1. 1 \in Nat /\ 1 > 0 /\ 1 <= n + 1
      OBVIOUS
    <3>2. SubSeq(t, 1, n) \in Seq(Byte)
      BY <3>1, PartOf, Zenon
    <3> QED BY <3>2, ConcatEmptySeq, Zenon
  <2>6. Len(<< >>) = 0 /\ 0 <= 1
    OBVIOUS
  <2> QED BY <2>2, <2>3, <2>4, <2>5, <2>6, Zenon DEF WaitsRaw, RawPart
<1> QED BY <1>1, <1>2, Zenon DEF Keeps

LEMMA KeepsOne ==
    ASSUME NEW t \in Seq(Byte), NEW q \in Nat, NEW n \in Nat, q <= n, n <= Len(t),
           NEW data \in Seq(Int), NEW escape, Keeps(escape, data, << >>, q, t),
           NEW x, escape = "c" => StandsFor(x, SubSeq(t, q + 1, n)),
           escape = "none" => x.string = SubSeq(t, q + 1, n)
    PROVE  Keeps(escape, data, <<x>>, n, t)
<1>1. Len(<<x>>) = 1 /\ <<x>>[1] = x /\ 1 <= 1 /\ <<x>> # << >>
  OBVIOUS
<1>2. ASSUME escape = "c" PROVE Waits(data, <<x>>, n, t)
  <2>1. ReadBack(data, q, t)
    BY <1>2, WaitsForNone, Zenon DEF Keeps
  <2> QED BY <1>1, <1>2, <2>1, WaitsAfter, Zenon
<1>3. ASSUME escape = "none" PROVE WaitsRaw(data, <<x>>, n, t)
  <2>1. data = SubSeq(t, 1, q)
    <3>1. data \o << >> = SubSeq(t, 1, q)
      BY <1>3, Zenon DEF Keeps, WaitsRaw, RawPart
    <3>2. data \o << >> = data
      BY ConcatEmptySeq, Zenon
    <3> QED BY <3>1, <3>2, Zenon
  <2>2. data \o x.string = SubSeq(t, 1, n)
    BY <1>3, <2>1, PartsJoin, Zenon
  <2> QED BY <1>1, <2>2, Zenon DEF WaitsRaw, RawPart
<1> QED BY <1>2, <1>3, Zenon DEF Keeps

LEMMA KeepsByte ==
    ASSUME NEW t \in Seq(Byte), NEW q \in Nat, q < Len(t), NEW data \in Seq(Int),
           Keeps(job.escape, data, << >>, q, t)
    PROVE  Keeps(job.escape, data, <<BytePiece(t[q + 1])>>, q + 1, t)
<1>1. q + 1 \in Nat /\ q <= q + 1 /\ q + 1 <= Len(t) /\ q + 1 \in 1..Len(t) /\ t[q + 1] \in Byte
  OBVIOUS
<1>2. SubSeq(t, q + 1, q + 1) = <<t[q + 1]>>
  BY <1>1, OneOf, Zenon
<1>3. job.escape = "c" => StandsFor(BytePiece(t[q + 1]), <<t[q + 1]>>)
  <2>1. job.escape = "c" => BytePiece(t[q + 1]) = Octal(t[q + 1])
    BY DEF BytePiece
  <2> QED BY <1>1, <2>1, OctalStands, Zenon
<1>4. job.escape = "none" => BytePiece(t[q + 1]).string = <<t[q + 1]>>
  BY DEF BytePiece, Piece
<1> QED BY <1>1, <1>2, <1>3, <1>4, KeepsOne, Zenon

\* A character is the part of the text that it is at.
LEMMA CharIsPart ==
    ASSUME NEW t \in Seq(Byte), NEW q \in Nat, NEW s \in Seq(Byte), IsAt(s, t, q + 1)
    PROVE  /\ q + Len(s) \in Nat /\ q <= q + Len(s) /\ q + Len(s) <= Len(t)
           /\ s = SubSeq(t, q + 1, q + Len(s))
<1>1. PICK m \in Nat : m = Len(s)
  OBVIOUS
<1>2. q + 1 + m <= Len(t) + 1 /\ \A k \in 1..m : t[q + 1 + k - 1] = s[k]
  BY <1>1, Zenon DEF IsAt
<1>3. q + m \in Nat /\ q <= q + m /\ q + m <= Len(t)
  BY <1>2
<1>4. PICK u \in Seq(Byte) : /\ u = SubSeq(t, q + 1, q + m) /\ Len(u) = m
                             /\ \A k \in 1..m : u[k] = t[q + 1 + k - 1]
  <2>1. q + 1 \in Nat /\ q + 1 > 0 /\ q + 1 <= q + m + 1
    OBVIOUS
  <2>2. /\ SubSeq(t, q + 1, q + m) \in Seq(Byte)
        /\ Len(SubSeq(t, q + 1, q + m)) = q + m - (q + 1) + 1
        /\ \A k \in 1..q + m - (q + 1) + 1 : SubSeq(t, q + 1, q + m)[k] = t[q + 1 + k - 1]
    BY <1>3, <2>1, PartOf
  <2>3. q + m - (q + 1) + 1 = m
    OBVIOUS
  <2> QED BY <2>2, <2>3, Zenon
<1>5. \A k \in 1..m : u[k] = s[k]
  BY <1>2, <1>4, Zenon
<1>6. u = s
  BY <1>1, <1>4, <1>5, SeqEqual, Zenon
<1> QED BY <1>1, <1>3, <1>4, <1>6, Zenon

\* Under -e every byte of a character that is not printed stands for itself.
LEMMA EscapesWait ==
    ASSUME NEW t \in Seq(Byte), NEW q \in Nat, NEW c, c.bytes \in Seq(Byte) \ {<< >>},
           IsAt(c.bytes, t, q + 1), NEW data, ReadBack(data, q, t)
    PROVE  Waits(data, Escapes(c), q + Len(c.bytes), t)
<1>1. PICK s \in Seq(Byte) : s = c.bytes /\ IsAt(s, t, q + 1)
  OBVIOUS
<1>2. PICK n \in Nat : n = q + Len(s) /\ q <= n /\ n <= Len(t) /\ s = SubSeq(t, q + 1, n)
  BY <1>1, CharIsPart, Zenon
<1>3. \A k \in 1..Len(s) : s[k] \in Byte /\ StandsFor(Octal(s[k]), <<s[k]>>)
  <2>1. \A k \in 1..Len(s) : s[k] \in Byte
    BY ElementOfSeq, Zenon
  <2> QED BY <2>1, OctalStands, Zenon
<1>4. \A k \in 1..Len(s) : SubSeq(t, q + k, q + k) = <<s[k]>>
  <2> TAKE k \in 1..Len(s)
  <2>1. q + k \in 1..Len(t) /\ q + 1 + k - 1 = q + k
    BY <1>2
  <2>2. t[q + k] = s[k]
    BY <1>1, <2>1, Zenon DEF IsAt
  <2> QED BY <2>1, <2>2, OneOf, Zenon
<1>5. CASE Len(s) = 1
  <2>1. Escapes(c) = <<CEscape(s[1])>>
    BY <1>1, <1>5, Zenon DEF Escapes
  <2>2. PICK x : x = CEscape(s[1])
    OBVIOUS
  <2>3. Len(<<x>>) = 1 /\ <<x>>[1] = x /\ 1 \in 1..Len(s) /\ n = q + 1
    BY <1>2, <1>5
  <2>4. StandsFor(x, SubSeq(t, q + 1, n))
    <3>1. StandsFor(x, <<s[1]>>)
      BY <1>3, <2>2, <2>3, CEscapeStands, Zenon
    <3> QED BY <1>4, <2>3, <3>1, Zenon
  <2>5. Waits(data, <<x>>, n, t)
    BY <1>2, <2>3, <2>4, WaitsAfter, Zenon
  <2> QED BY <1>1, <1>2, <2>1, <2>2, <2>5, Zenon
<1>6. CASE Len(s) # 1
  <2>1. PICK pieces : /\ pieces = [i \in 1..Len(s) |-> Octal(s[i])]
                      /\ Len(pieces) = Len(s) /\ \A k \in 1..Len(s) : pieces[k] = Octal(s[k])
    <3>1. Len([i \in 1..Len(s) |-> Octal(s[i])]) = Len(s)
      OBVIOUS
    <3>2. \A k \in 1..Len(s) : [i \in 1..Len(s) |-> Octal(s[i])][k] = Octal(s[k])
      BY Zenon
    <3> QED BY <3>1, <3>2, Zenon
  <2>2. Escapes(c) = pieces
    BY <1>1, <1>6, <2>1, Zenon DEF Escapes
  <2>3. Len(pieces) = n - q
    BY <1>2, <2>1
  <2>4. \A k \in 1..Len(pieces) : StandsFor(pieces[k], SubSeq(t, q + k, q + k))
    BY <1>3, <1>4, <2>1, Zenon
  <2>5. Waits(data, pieces, n, t)
    BY <1>2, <2>3, <2>4, WaitsAfter, Zenon
  <2> QED BY <1>1, <1>2, <2>2, <2>5, Zenon
<1> QED BY <1>5, <1>6

LEMMA KeepsChar ==
    ASSUME NEW t \in Seq(Byte), NEW q \in Nat, NEW c \in Chars, IsAt(c.bytes, t, q + 1),
           NEW data \in Seq(Int), Keeps(job.escape, data, << >>, q, t)
    PROVE  /\ q + Len(c.bytes) <= Len(t)
           /\ Keeps(job.escape, data, CharPieces(c), q + Len(c.bytes), t)
<1>1. PICK s \in Seq(Byte) : s = c.bytes /\ s # << >> /\ IsAt(s, t, q + 1)
  BY CharType, Zenon
<1>2. PICK n \in Nat : n = q + Len(s) /\ q <= n /\ n <= Len(t) /\ s = SubSeq(t, q + 1, n)
  BY <1>1, CharIsPart, Zenon
<1>3. AsIs(c).string = s
  BY <1>1 DEF AsIs, Piece
<1>4. ASSUME job.escape = "none" PROVE WaitsRaw(data, CharPieces(c), n, t)
  <2>1. job.escape # "c" /\ job.escape # "question"
    BY <1>4
  <2>2. CharPieces(c) = <<AsIs(c)>>
    <3>1. CASE c.class = "print"
      BY <2>1, <3>1, Zenon DEF CharPieces
    <3>2. CASE c.class # "print"
      BY <1>4, <2>1, <3>2, Zenon DEF CharPieces
    <3> QED BY <3>1, <3>2
  <2>3. Keeps(job.escape, data, <<AsIs(c)>>, n, t)
    BY <1>2, <1>3, <2>1, KeepsOne, Zenon
  <2> QED BY <1>4, <2>2, <2>3, Zenon DEF Keeps
<1>5. ASSUME job.escape = "c" PROVE Waits(data, CharPieces(c), n, t)
  <2>1. ReadBack(data, q, t)
    BY <1>5, WaitsForNone, Zenon DEF Keeps
  <2>2. CASE s = <<Backslash>>
    <3>1. c.class = "print"
      <4>1. Sign(Backslash) \in Chars /\ Sign(Backslash).bytes = <<Backslash>>
            /\ Sign(Backslash).class = "print"
        BY SignIs DEF Plain, Printable
      <4>2. c = Sign(Backslash)
        <5>1. IsPrefix(c.bytes, Sign(Backslash).bytes)
          BY <1>1, <2>2, <4>1 DEF IsPrefix
        <5> QED BY <4>1, <5>1, EscapeAssumption, Zenon DEF EscapeAssumption
      <4> QED BY <4>1, <4>2
    <3>2. CharPieces(c) = <<Slash, Slash>>
      BY <1>1, <1>5, <2>2, <3>1 DEF CharPieces, Slash
    <3>3. n = q + 1
      <4>1. Len(<<Backslash>>) = 1
        OBVIOUS
      <4> QED BY <1>2, <2>2, <4>1, Zenon
    <3>4. t[n] = Backslash
      <4>1. 1 \in 1..Len(s) /\ q + 1 + 1 - 1 = n
        BY <1>2, <3>3
      <4>2. t[q + 1 + 1 - 1] = s[1]
        BY <1>1, <4>1, Zenon DEF IsAt
      <4>3. s[1] = Backslash
        BY <2>2
      <4> QED BY <4>1, <4>2, <4>3, Zenon
    <3> QED BY <1>2, <2>1, <3>2, <3>3, <3>4, WaitsAfter, Zenon
  <2>3. CASE s # <<Backslash>> /\ c.class = "print"
    <3>1. CharPieces(c) = <<AsIs(c)>>
      BY <1>1, <2>3, Zenon DEF CharPieces
    <3>2. StandsFor(AsIs(c), SubSeq(t, q + 1, n))
      BY <1>1, <1>2, <2>3, CharStands, Zenon
    <3>3. Keeps("c", data, <<AsIs(c)>>, n, t)
      <4>1. Keeps("c", data, << >>, q, t) /\ "c" # "none"
        BY <1>5
      <4> QED BY <1>2, <3>2, <4>1, KeepsOne, Zenon
    <3> QED BY <3>1, <3>3, Zenon DEF Keeps
  <2>4. CASE s # <<Backslash>> /\ c.class # "print"
    <3>1. CharPieces(c) = Escapes(c)
      BY <1>1, <1>5, <2>4, Zenon DEF CharPieces
    <3>2. Waits(data, Escapes(c), q + Len(c.bytes), t)
      <4>1. c.bytes \in Seq(Byte) \ {<< >>} /\ IsAt(c.bytes, t, q + 1)
        BY <1>1
      <4> QED BY <2>1, <4>1, EscapesWait, Zenon
    <3> QED BY <1>1, <1>2, <3>1, <3>2, Zenon
  <2> QED BY <2>2, <2>3, <2>4
<1> QED BY <1>1, <1>2, <1>4, <1>5, Zenon DEF Keeps

LEMMA UndoInit == Init => UndoInv
<1> SUFFICES ASSUME Init PROVE UndoInv
  OBVIOUS
<1>1. shortages = 0 /\ pc = "new" /\ 0 \in Nat
  BY DEF Init
<1> QED BY <1>1 DEF UndoInv

LEMMA ShortagesType == UndoInv /\ [Next]_vars => shortages' \in Nat
<1> SUFFICES ASSUME UndoInv, [Next]_vars PROVE shortages' \in Nat
  OBVIOUS
<1>1. shortages' = shortages \/ shortages' = shortages + 1
  BY DEF Next, Program, Grow, AppendPiece, DropPiece, NewNameBuf, AppendCall, NameCall, ReadChar,
         ReadByte, EndOfText, FreeBytes, MakeField, FormatMessage, PutChar, MessageDone,
         Terminated, Shortage, vars
<1> QED BY <1>1 DEF UndoInv

\* While a piece is appended what is kept stays what it is.
LEMMA UndoAppend ==
    ASSUME TypeInv, BufInv, UndoInv, Grow \/ AppendPiece \/ DropPiece,
           shortages' = 0, pc' \in {"text", "bytes"}
    PROVE  p' <= Len(text') /\ Keeps(job'.escape, bufs'["bytebuf"].data, todo', p', text')
<1>1. /\ UNCHANGED <<job, text, p, pc>> /\ pc \in {"text", "bytes"} /\ todo # << >>
  BY IntoStep
<1>2. PICK old \in Buffers : old = bufs["bytebuf"]
  BY DEF TypeInv
<1>3. Into = "bytebuf"
  BY <1>1 DEF Into
<1>4. shortages = 0 /\ ~DropPiece
  <2>1. ~DropPiece
    BY DEF DropPiece, Shortage, UndoInv
  <2> QED BY <2>1 DEF Grow, AppendPiece
<1>5. p <= Len(text) /\ Keeps(job.escape, old.data, todo, p, text)
  BY <1>1, <1>2, <1>4 DEF UndoInv
<1>6. CASE Grow
  <2>1. bufs'["bytebuf"] = Grown(old) /\ todo' = todo
    BY <1>2, <1>3, <1>6 DEF Grow, TypeInv
  <2>2. Grown(old).data = old.data
    BY DEF Grown, Buffers
  <2> QED BY <1>1, <1>5, <2>1, <2>2
<1>7. CASE AppendPiece
  <2>1. PICK s \in Seq(Pieces), n \in Nat : s = todo /\ s # << >> /\ n = p
    BY <1>1 DEF TypeInv
  <2>2. bufs'["bytebuf"] = Appended(old, s[1]) /\ todo' = Tail(s)
    BY <1>2, <1>3, <1>7, <2>1 DEF AppendPiece, TypeInv
  <2>3. Appended(old, s[1]).data = old.data \o s[1].string
    BY DEF Appended
  <2>4. text \in Seq(Byte)
    BY DEF TypeInv
  <2>5. Keeps(job.escape, old.data \o s[1].string, Tail(s), n, text)
    BY <1>5, <2>1, <2>4, KeepsLess, Zenon
  <2> QED BY <1>1, <1>5, <2>1, <2>2, <2>3, <2>5, Zenon
<1> QED BY <1>4, <1>6, <1>7

\* Of the next character, or byte, everything waits to be appended.
LEMMA UndoRead ==
    ASSUME TypeInv, UndoInv, ReadChar \/ ReadByte, shortages' = 0
    PROVE  p' <= Len(text') /\ Keeps(job'.escape, bufs'["bytebuf"].data, todo', p', text')
<1>1. PICK t \in Seq(Byte), q \in Nat : t = text /\ q = p
  BY DEF TypeInv
<1>2. PICK data \in Seq(Int) : data = bufs["bytebuf"].data
  BY DEF TypeInv, Buffers
<1>3. /\ todo = << >> /\ q < Len(t) /\ job' = job /\ text' = t /\ bufs' = bufs /\ shortages = 0
      /\ pc \in {"text", "bytes"}
  BY <1>1 DEF ReadChar, ReadByte
<1>4. Keeps(job.escape, data, << >>, q, t)
  BY <1>1, <1>2, <1>3 DEF UndoInv
<1>5. /\ q + 1 <= Len(t)
      /\ Keeps(job.escape, data, <<BytePiece(t[q + 1])>>, q + 1, t)
  <2>1. q + 1 <= Len(t)
    BY <1>3
  <2> QED BY <1>3, <1>4, <2>1, KeepsByte, Zenon
<1>6. CASE p' = q + 1 /\ todo' = <<BytePiece(t[q + 1])>>
  BY <1>2, <1>3, <1>5, <1>6, Zenon
<1>7. CASE ReadByte
  <2>1. p' = q + 1 /\ todo' = <<BytePiece(t[q + 1])>>
    BY <1>1, <1>7 DEF ReadByte
  <2> QED BY <1>6, <2>1
<1>8. CASE ReadChar
  <2>1. PICK c \in Decode :
          CASE c.class = "incomplete" -> pc' = "bytes" /\ UNCHANGED <<p, todo>>
            [] c.class = "invalid" ->
                  todo' = << BytePiece(text[p + 1]) >> /\ p' = p + 1 /\ UNCHANGED pc
            [] OTHER ->
                  todo' = CharPieces(c) /\ p' = p + Len(c.bytes) /\ UNCHANGED pc
    BY <1>8 DEF ReadChar
  <2>2. CASE c.class = "incomplete"
    <3>1. p' = q /\ todo' = << >>
      BY <1>1, <1>3, <2>1, <2>2
    <3>2. q <= Len(t)
      BY <1>3
    <3> QED BY <1>2, <1>3, <1>4, <3>1, <3>2, Zenon
  <2>3. CASE c.class = "invalid"
    <3>1. p' = q + 1 /\ todo' = <<BytePiece(t[q + 1])>>
      BY <1>1, <2>1, <2>3
    <3> QED BY <1>6, <3>1
  <2>4. CASE c.class \notin {"incomplete", "invalid"}
    <3>1. c \in Chars /\ IsPrefix(c.bytes, SubSeq(t, q + 1, Len(t)))
      BY <1>1, <2>4 DEF Decode
    <3>2. IsAt(c.bytes, t, q + 1)
      <4>1. t \in Seq(Int) /\ q + 1 \in 1..Len(t)
        BY <1>3, BytesAreInts
      <4>2. c.bytes \in Seq(Int)
        BY <3>1, CharType
      <4> QED BY <3>1, <4>1, <4>2, PrefixIsAt, Zenon
    <3>3. todo' = CharPieces(c) /\ p' = q + Len(c.bytes)
      BY <1>1, <2>1, <2>4
    <3>4. /\ q + Len(c.bytes) <= Len(t)
          /\ Keeps(job.escape, data, CharPieces(c), q + Len(c.bytes), t)
      BY <1>4, <3>1, <3>2, KeepsChar, Zenon
    <3> QED BY <1>2, <1>3, <3>3, <3>4, Zenon
  <2> QED BY <2>2, <2>3, <2>4
<1> QED BY <1>7, <1>8

LEMMA UndoStep == TypeInv /\ BufInv /\ UndoInv /\ [Next]_vars => UndoInv'
<1> SUFFICES ASSUME TypeInv, BufInv, UndoInv, [Next]_vars PROVE UndoInv'
  OBVIOUS
<1>1. shortages' \in Nat
  BY ShortagesType
<1> SUFFICES ASSUME shortages' = 0, pc' \in {"text", "bytes"}
             PROVE  p' <= Len(text') /\ Keeps(job'.escape, bufs'["bytebuf"].data, todo', p', text')
  BY <1>1 DEF UndoInv
<1>2. CASE Grow \/ AppendPiece \/ DropPiece
  BY <1>2, UndoAppend
<1>3. CASE ReadChar \/ ReadByte
  BY <1>3, UndoRead
<1>4. CASE NameCall
  <2>1. ~Shortage
    BY DEF Shortage, UndoInv
  <2>2. PICK s : /\ s = calls[1].string /\ text' = s /\ s \in Seq(Byte)
    <3>1. PICK all \in Seq(Call) : all = calls /\ all # << >>
      BY <1>4 DEF NameCall, TypeInv
    <3>2. all[1] \in Call
      BY <3>1
    <3> QED BY <1>4, <2>1, <3>1, <3>2 DEF NameCall, Call
  <2>3. bufs'["bytebuf"] = NewBuf /\ p' = 0 /\ todo' = << >>
    BY <1>4, <2>1 DEF NameCall, TypeInv
  <2>4. NewBuf.data = << >> /\ 0 <= Len(s)
    BY <2>2 DEF NewBuf
  <2>5. Keeps(job'.escape, << >>, << >>, 0, s)
    BY <2>2, KeepsNothing, Zenon
  <2> QED BY <2>2, <2>3, <2>4, <2>5, Zenon
<1>5. CASE NewNameBuf \/ AppendCall \/ EndOfText \/ FreeBytes \/ MakeField \/ FormatMessage
           \/ PutChar \/ MessageDone
  <2>1. pc' \notin {"text", "bytes"}
    BY <1>5 DEF NewNameBuf, AppendCall, EndOfText, FreeBytes, MakeField, FormatMessage, PutChar,
                MessageDone
  <2> QED BY <2>1
<1>6. CASE Terminated \/ UNCHANGED vars
  BY <1>6 DEF Terminated, vars, UndoInv
<1> QED BY <1>2, <1>3, <1>4, <1>5, <1>6 DEF Next, Program

\* Whatever the characters of the locale and the bytes of a name, what -e has
\* shown of it (printtobuf(), printwchartobuf(), cescape()) is shown of no other
\* bytes: they can be read back from the characters on the screen.  And a name
\* that is not escaped is shown as it is.  For names of any length, however often
\* their buffer has grown, so long as nothing was dropped for want of memory.
THEOREM EscapingUndoneHolds == Spec => []EscapingCanBeUndone
<1>1. TypeInv /\ UndoInv => EscapingCanBeUndone
  <2> SUFFICES ASSUME TypeInv, UndoInv, pc \in {"text", "bytes"}, todo = << >>, shortages = 0
               PROVE  LET data == bufs["bytebuf"].data
                      IN  /\ job.escape = "c" => Undo(Read(data)) = SubSeq(text, 1, p)
                          /\ job.escape = "none" => data = SubSeq(text, 1, p)
    BY DEF EscapingCanBeUndone
  <2>1. PICK data \in Seq(Int) : data = bufs["bytebuf"].data
    BY DEF TypeInv, Buffers
  <2>2. PICK n \in Nat : n = p
    BY DEF TypeInv
  <2>3. Keeps(job.escape, data, << >>, n, text)
    BY <2>1, <2>2 DEF UndoInv
  <2>4. job.escape = "c" => Undo(Read(data)) = SubSeq(text, 1, n)
    BY <2>3, WaitsForNone, Zenon DEF Keeps, ReadBack
  <2>5. job.escape = "none" => data = SubSeq(text, 1, n)
    <3>1. job.escape = "none" => data \o << >> = SubSeq(text, 1, n)
      BY <2>3, Zenon DEF Keeps, WaitsRaw, RawPart
    <3>2. data \o << >> = data
      BY ConcatEmptySeq, Zenon
    <3> QED BY <3>1, <3>2, Zenon
  <2> QED BY <2>1, <2>2, <2>4, <2>5, Zenon
<1>2. TypeInv /\ BufInv /\ UndoInv /\ [Next]_vars => (TypeInv /\ BufInv /\ UndoInv)'
  BY TypeStep, BufStep, UndoStep
<1> QED BY InvInit, UndoInit, <1>1, <1>2, PTL DEF Spec

=============================================================================
