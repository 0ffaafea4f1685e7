------------------------------ MODULE Ballots ------------------------------
(***************************************************************************)
(* The messages of the vote programs of Material/CodigosEncontrados, byte  *)
(* by byte: the two encodings of a VoteInfo, VoteEncodingBin.c and         *)
(* VoteEncodingText.c, and the two framings, DelimFramer.c and             *)
(* LengthFramer.c; a build takes one of each. The bytes are what the       *)
(* properties are about: a newline inside a message, and what is left in a *)
(* buffer from the message before. Numbers are below 2^16, so that the six *)
(* upper bytes of a count, always zero, are left out; "Voting" is its V.   *)
(***************************************************************************)
EXTENDS Integers, Sequences, SequencesExt

Encodings == {"bin", "text"}
Framings == {"delim", "length"}

NEWLINE == 10
BLANK == 32

VoteInfo == [isInquiry : BOOLEAN, isResponse : BOOLEAN, candidate : Nat, count : Nat]

\* No VoteInfo: Decode() has returned false.
NotAVote == [isInquiry |-> FALSE, isResponse |-> TRUE, candidate |-> -1, count |-> -1]

MAX_CANDIDATE == 1000

-----------------------------------------------------------------------------
(* The encodings. *)

\* htons()
TwoBytes(n) == <<n \div 256, n % 256>>
Joined(high, low) == high * 256 + low

EncodeBin(v) ==
  <<84 + (IF v.isInquiry THEN 1 ELSE 0) + (IF v.isResponse THEN 2 ELSE 0), 0>>
    \o TwoBytes(v.candidate) \o (IF v.isResponse THEN TwoBytes(v.count) ELSE <<>>)

DecodeBin(s, mSize) ==
  IF mSize < 4 \/ s[1] \notin 84 .. 87 THEN NotAVote
  ELSE LET response == s[1] \in {86, 87}
       IN  [isInquiry |-> s[1] \in {85, 87}, isResponse |-> response,
            candidate |-> Joined(s[3], s[4]),
            count |-> IF response /\ mSize >= 6 THEN Joined(s[5], s[6]) ELSE 0]

\* printf("%d"), for numbers of at most four digits.
Digits(n) ==
  LET size == CASE n > 999 -> 4 [] n \in 100 .. 999 -> 3 [] n \in 10 .. 99 -> 2 [] OTHER -> 1
      place(k) == <<1, 10, 100, 1000>>[size + 1 - k]
  IN  [k \in 1 .. size |-> 48 + ((n \div place(k)) % 10)]

EncodeText(v) ==
  <<86, BLANK, IF v.isInquiry THEN 105 ELSE 118, BLANK>> \o (IF v.isResponse THEN <<82>> ELSE <<>>)
    \o <<BLANK>> \o Digits(v.candidate)
    \o (IF v.isResponse THEN <<BLANK>> \o Digits(v.count) ELSE <<>>)

\* The digits of s from place k on: they end at a blank, at a NUL, or where s does, and
\* not where the message did.
DigitsAt(s, k) ==
  LET end == SelectInSubSeq(s, k, Len(s), LAMBDA b : b \notin 48 .. 57)
  IN  SubSeq(s, k, IF end = 0 THEN Len(s) ELSE end - 1)

\* atoi() and strtoll()
Number(t) ==
  LET upTo[k \in 0 .. Len(t)] == IF k = 0 THEN 0 ELSE 10 * upTo[k - 1] + (t[k] - 48)
  IN  upTo[Len(t)]

\* Decode() is told the size of the message and does not look at it: it cuts the
\* string at its blanks, which are where Encode() has put them. (The NULs that
\* strtok() writes there are written over by the next message.)
DecodeText(s, mSize) ==
  LET response == s[5] = 82
      candidate == DigitsAt(s, IF response THEN 7 ELSE 6)
  IN  IF s[1] # 86 \/ s[3] \notin {118, 105} THEN NotAVote
      ELSE [isInquiry |-> s[3] = 105, isResponse |-> response, candidate |-> Number(candidate),
            count |-> IF response THEN Number(DigitsAt(s, 8 + Len(candidate))) ELSE 0]

Encode(encoding, v) == IF encoding = "bin" THEN EncodeBin(v) ELSE EncodeText(v)
Decode(encoding, s, mSize) ==
  IF encoding = "bin" THEN DecodeBin(s, mSize) ELSE DecodeText(s, mSize)

-----------------------------------------------------------------------------
(* The framings. *)

\* PutMsg() writes m, and does not return -1.
Framable(framing, m) == framing = "length" \/ \A k \in DOMAIN m : m[k] # NEWLINE

\* What PutMsg() writes.
Framed(framing, m) ==
  IF framing = "length" THEN TwoBytes(Len(m)) \o m ELSE Append(m, NEWLINE)

\* The message at the head of the bytes s, which hold all of it: it fits the buffer
\* of GetNextMsg(), which is several times as long as any message.
NextMsg(framing, s) ==
  IF framing = "length" THEN SubSeq(s, 3, 2 + Joined(s[1], s[2]))
  ELSE SubSeq(s, 1, SelectInSeq(s, LAMBDA b : b = NEWLINE) - 1)

\* The buffer after GetNextMsg() has put the message m at its start.
Overwritten(buffer, m) == m \o SubSeq(buffer, Len(m) + 1, Len(buffer))
=============================================================================
