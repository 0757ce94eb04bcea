------------------------------ MODULE GdbFrame ------------------------------
(***************************************************************************)
(* The frame of a reply to the debugger: class GdbOutBuffer and the frame  *)
(* half of GdbData (util/gdb_proto.cpp, util/gdb_proto.h).  Characters are *)
(* put one at a time; a run of equal ones is held back and goes into the   *)
(* buffer, run-length encoded, when another follows or the frame ends.     *)
(*                                                                         *)
(* Characters are their codes.  The buffer's capacity is left out: a read  *)
(* of GDB_MAX_XFER bytes is 2 * GDB_MAX_XFER characters, no code is longer *)
(* than the run it stands for, and GDB_BUF_SIZE has room for 64 more.      *)
(***************************************************************************)
EXTENDS Integers, Sequences, FiniteSets, SequencesExt

CONSTANTS
    TextChar, \* the characters of a reply's text
    MaxText,  \* bounds the length of the text
    MaxRuns   \* bounds the number of its runs

Dollar == 36
Hash   == 35
Star   == 42

\* ASCII but for the three codes a frame gives a meaning to: no handler puts
\* one of those, nor a code above 127.
ASSUME CharAssumption == TextChar \subseteq (0 .. 127) \ {Dollar, Hash, Star}

ASSUME TextAssumption == MaxText \in Nat /\ MaxRuns \in Nat

VARIABLES
    last_char,  \* GdbOutBuffer::last_char_
    rle_cnt,    \* GdbOutBuffer::rle_cnt_
    outbuf,     \* GdbOutBuffer::outbuf_, up to outlen_
    text,       \* what was put so far, the $ first (not in the code)
    done        \* the frame is complete

frameVars == <<last_char, rle_cnt, outbuf, text, done>>

AsciiOffset == 29
AsciiMax    == 126

\* A count whose character would be # or $.
Forbidden == {Hash - AsciiOffset, Dollar - AsciiOffset}

-----------------------------------------------------------------------------
(* EndOfRLE *)

\* The longest code: a character, and 97 more of it.
Longest == AsciiMax - AsciiOffset + 1

\* Mutant: a long run is not split.
CodeSpanBeyondAscii(n) ==
    IF n - 1 < 3 THEN 1 ELSE IF n - 1 \in Forbidden THEN 6 ELSE n

\* Mutant: counts whose character is # or $ are sent like the others.
CodeSpanAnyCount(n) ==
    IF n >= Longest THEN Longest ELSE IF n - 1 < 3 THEN 1 ELSE n

\* How many of the n characters of a run its first code stands for: as many as
\* can be; one where a count does not pay; six where the count would be # or $.
CodeSpan(n) ==
    IF n >= Longest THEN Longest
    ELSE IF n - 1 < 3 THEN 1
    ELSE IF n - 1 \in Forbidden THEN 6
    ELSE n

\* A character that is to be read n times.
RleCode(ch, n) == IF n = 1 THEN <<ch>> ELSE <<ch, Star, n - 1 + AsciiOffset>>

\* What a run of cnt times ch puts into the buffer.
RunCode(ch, cnt) ==
    LET Rest[n \in 0 .. cnt] ==
          IF n = 0 THEN <<>> ELSE RleCode(ch, CodeSpan(n)) \o Rest[n - CodeSpan(n)]
    IN  Rest[cnt]

\* A buffer with its pending run put into it.
EndOfRLE(buf, ch, cnt) == buf \o RunCode(ch, cnt)

-----------------------------------------------------------------------------
(* PutChar, and the frame *)

\* The characters of s, summed in a byte.
Sum(s) ==
    LET Upto[n \in 0 .. Len(s)] == IF n = 0 THEN 0 ELSE (Upto[n - 1] + s[n]) % 256
    IN  Upto[Len(s)]

GetCheckSum(buf) == Sum(Tail(buf))

HexDigit(d) == IF d < 10 THEN 48 + d ELSE 55 + d

Hex(c) == <<HexDigit(c \div 16), HexDigit(c % 16)>>

\* GdbData(): an empty buffer, and the $ pending.
FrameInit ==
    /\ outbuf = <<>> /\ last_char = Dollar /\ rle_cnt = 1
    /\ text = <<Dollar>> /\ done = FALSE

\* The runs the text has, and the bound on them.
TextRuns == Cardinality({i \in 1 .. Len(text) - 1 : text[i] # text[i + 1]})

PutChar(ch) ==
    /\ ~done /\ Len(text) <= MaxText /\ (ch = last_char \/ TextRuns < MaxRuns)
    /\ IF ch = last_char
       THEN /\ rle_cnt' = rle_cnt + 1
            /\ UNCHANGED outbuf
       ELSE /\ outbuf' = EndOfRLE(outbuf, last_char, rle_cnt)
            /\ rle_cnt' = 1
    /\ last_char' = ch
    /\ text' = Append(text, ch)
    /\ UNCHANGED done

\* Mutant: the checksum is taken with a run still pending.
MakeCheckSumEarly ==
    LET payload == EndOfRLE(outbuf, last_char, rle_cnt)
    IN  payload \o <<Hash>> \o Hex(GetCheckSum(outbuf \o <<last_char>>))

\* MakeCheckSum: the payload's runs end before the checksum is taken.  The #
\* and the digits make runs of at most two characters, which FlushAck flushes.
MakeCheckSum ==
    LET payload == EndOfRLE(outbuf, last_char, rle_cnt)
    IN  payload \o <<Hash>> \o Hex(GetCheckSum(payload))

FlushAck ==
    /\ ~done
    /\ outbuf' = MakeCheckSum
    /\ last_char' = Last(outbuf') /\ rle_cnt' = 0 /\ done' = TRUE
    /\ UNCHANGED text

FrameNext == (\E ch \in TextChar : PutChar(ch)) \/ FlushAck

FrameSpec == FrameInit /\ [][FrameNext]_frameVars

-----------------------------------------------------------------------------
(* Properties *)

\* A buffer of codes that fit a char, and a run that is never negative.
FrameTypeOK ==
    /\ outbuf \in Seq(0 .. 127) /\ text \in Seq(TextChar \cup {Dollar})
    /\ last_char \in 0 .. 127 /\ rle_cnt \in Nat /\ done \in BOOLEAN

\* How a debugger unpacks a frame: a star repeats the character before it.
Unpacked(s) ==
    LET Rest[k \in 1 .. Len(s) + 1] ==
          IF k > Len(s) THEN <<>>
          ELSE IF k + 2 <= Len(s) /\ s[k + 1] = Star
          THEN [i \in 1 .. s[k + 2] - AsciiOffset + 1 |-> s[k]] \o Rest[k + 3]
          ELSE <<s[k]>> \o Rest[k + 1]
    IN  Rest[1]

Payload == SubSeq(outbuf, 2, Len(outbuf) - 3)

\* The debugger finds the frame's ends, accepts its checksum and unpacks the
\* text: no count looks like a # or a $ or is beyond the printable codes.
FrameReadable ==
    done =>
    /\ outbuf[1] = Dollar /\ outbuf[Len(outbuf) - 2] = Hash
    /\ \A i \in DOMAIN Payload :
          Payload[i] \notin {Hash, Dollar} /\ Payload[i] \in TextChar \cup (32 .. 126)
    /\ SubSeq(outbuf, Len(outbuf) - 1, Len(outbuf)) = Hex(Sum(Payload))
    /\ Unpacked(Payload) = Tail(text)

=============================================================================
