------------------------------ MODULE Messages ------------------------------
(***************************************************************************)
(* The datagrams between Msender and the recorder, field by field: a        *)
(* command packed by Msender's Message and taken apart by the recorder's    *)
(* CommonICD, the answer packed by CommonICD and taken apart by Msender's   *)
(* Response.  Msender aligns numbers to the right, the recorder to the      *)
(* left; neither field ends in a separator.                                 *)
(*                                                                          *)
(* Characters are numbers: the digits, a blank, a NUL, a letter.  The radix *)
(* and the widths of the fields are parameters, names are one character.    *)
(***************************************************************************)
EXTENDS Naturals, SequencesExt

CONSTANTS
  Radix,       \* ten
  Width,       \* the width of the fields ref, len, mjd, mpm
  STATUS,      \* RFS_STATUS, the width of the status in an answer
  MAX_SIZE,    \* MESSAGE_MAX_SIZE, MESSAGE_SIZE_LIMIT
  Sendings,    \* what main() of Msender may be told to send
  Replies      \* what may be answered

\* A length field and the first character of the day fit in a reference field.
ASSUME MessagesAssumption ==
  /\ Radix \in Nat \ {0, 1}
  /\ DOMAIN Width = {"ref", "len", "mjd", "mpm"}
  /\ Width.len < Width.ref /\ Width.ref <= Width.len + Width.mjd
  /\ STATUS \in Nat \ {0}

VARIABLES
  sending,    \* the command
  reply,      \* the answer it will get
  datagram,   \* what is on its way
  heard,      \* the command as the MessageListener understands it
  readBack,   \* the answer as Msender understands it
  leg         \* how far the exchange has come

msgVars == <<sending, reply, datagram, heard, readBack, leg>>

Digit  == 0 .. Radix - 1
Blank  == Radix
NUL    == Radix + 1
Letter == Radix + 2

Of(c, n) == [i \in 1 .. n |-> c]
Digits[n \in Nat] == IF n < Radix THEN <<n>>
                     ELSE Append(Digits[n \div Radix], n % Radix)

-----------------------------------------------------------------------------
(* Numbers *)

\* Padded on the left; of a number that is too long the first digits are kept.
convertNumberToPackedCharZeros(n, w) ==
  LET pad == IF Len(Digits[n]) <= w THEN w - Len(Digits[n]) ELSE 0
  IN  Of(0, pad) \o SubSeq(Digits[n], 1, w - pad)
convertNumberToPackedChar(n, w) ==
  LET pad == IF Len(Digits[n]) <= w THEN w - Len(Digits[n]) ELSE 0
  IN  Of(Blank, pad) \o SubSeq(Digits[n], 1, w - pad)

\* "%-*lu": padded on the right, never cut.
leftAligned(n, w) ==
  Digits[n] \o (IF Len(Digits[n]) < w THEN Of(Blank, w - Len(Digits[n])) ELSE <<>>)

PrefixIn(s, C) == CHOOSE n \in 0 .. Len(s) :
  /\ \A i \in 1 .. n : s[i] \in C
  /\ n < Len(s) => s[n + 1] \notin C

\* Also strtoul on a copy of the field: blanks, then digits.
convertPackedCharToNumber(s) ==
  LET t == SubSeq(s, PrefixIn(s, {Blank}) + 1, Len(s))
  IN  FoldLeft(LAMBDA v, c : v * Radix + c, 0, SubSeq(t, 1, PrefixIn(t, Digit)))

-----------------------------------------------------------------------------
(* The layout both sides share *)

FO == LET len == 3 + Width.ref
          mjd == len + Width.len
          mpm == mjd + Width.mjd
      IN  [ref |-> 3, len |-> len, mjd |-> mjd, mpm |-> mpm, ignored |-> mpm + Width.mpm]
MIN_SIZE == FO.ignored + 1
RESPONSE_MIN == MIN_SIZE + 1 + STATUS

Field(p, f, w)  == SubSeq(p, FO[f] + 1, FO[f] + w)
NumberOf(p, f) == convertPackedCharToNumber(Field(p, f, Width[f]))

\* The first size bytes of the zeroed buffer that p was copied to.
FirstOf(p, size) == SubSeq(p \o Of(NUL, size), 1, size)

-----------------------------------------------------------------------------
(* Msender *)

\* setData: data that does not fit is left out, and so is the length.
lengthField(data) ==
  IF Len(data) <= MAX_SIZE - MIN_SIZE
  THEN convertNumberToPackedChar(Len(data), Width.len) ELSE Of(NUL, Width.len)

packed(c) ==
  <<c.to, c.from, c.type>>
    \o convertNumberToPackedChar(c.ref, Width.ref) \o lengthField(c.data)
    \o convertNumberToPackedChar(c.mjd, Width.mjd)
    \o convertNumberToPackedChar(c.mpm, Width.mpm) \o <<NUL>>
    \o (IF Len(c.data) <= MAX_SIZE - MIN_SIZE THEN c.data ELSE <<>>)

\* The length is read with the width of a reference number: as far as the day.
getMessageBlock(p) ==
  FirstOf(p, convertPackedCharToNumber(Field(p, "len", Width.ref)) + MIN_SIZE)

sendBlock ==
  /\ leg = "start"
  /\ leg' = "sent"
  /\ datagram' = getMessageBlock(packed(sending))
  /\ UNCHANGED <<sending, reply, heard, readBack>>

-----------------------------------------------------------------------------
(* The recorder *)

validates(p) ==
  /\ Len(p) \in MIN_SIZE .. MAX_SIZE
  /\ NUL \notin {p[i] : i \in 1 .. FO.ignored}
  /\ NUL \notin {p[i] : i \in MIN_SIZE + 1 .. Len(p)}

Understood(p) ==
  [to |-> p[1], from |-> p[2], type |-> p[3], ref |-> NumberOf(p, "ref"),
   mjd |-> NumberOf(p, "mjd"), mpm |-> NumberOf(p, "mpm"),
   data |-> SubSeq(p, MIN_SIZE + 1, MIN_SIZE + NumberOf(p, "len"))]

\* What does not validate is dropped; what has the wrong length is refused.
\* The command is for this recorder (Commander has those that are not).
hear ==
  /\ leg = "sent"
  /\ leg' = IF ~validates(datagram) THEN "dropped"
            ELSE IF NumberOf(datagram, "len") + MIN_SIZE # Len(datagram) THEN "refused"
            ELSE "heard"
  /\ heard' = IF leg' = "heard" THEN Understood(datagram) ELSE heard
  /\ UNCHANGED <<sending, reply, datagram, readBack>>

clipped(comment) ==
  IF Len(comment) > MAX_SIZE - RESPONSE_MIN
  THEN SubSeq(comment, 1, MAX_SIZE - RESPONSE_MIN) ELSE comment

statusField(s) == IF Len(s) < STATUS THEN s \o Of(Blank, STATUS - Len(s))
                                      ELSE SubSeq(s, 1, STATUS)

responseLengthShort(comment) == Len(clipped(comment))
responseLength(comment) == Len(clipped(comment)) + 1 + STATUS

responseHeader(c, r) ==
  <<c.from, c.to, c.type>>
    \o leftAligned(c.ref, Width.ref) \o leftAligned(responseLength(r.comment), Width.len)
    \o leftAligned(r.mjd, Width.mjd) \o leftAligned(r.mpm, Width.mpm) \o <<Letter>>
    \o <<IF r.accept THEN 1 ELSE 0>> \o statusField(r.status)

\* _pack writes the header with the whole buffer for a limit; _pack2, for a
\* binary comment, with a limit that leaves no room for the closing NUL.
_pack(c, r)  == responseHeader(c, r) \o clipped(r.comment)
_pack2(c, r) == SubSeq(responseHeader(c, r), 1, RESPONSE_MIN - 1) \o <<NUL>> \o clipped(r.comment)

\* The bytes sent behind the buffer, after a comment that was clipped, are
\* never looked at.
respondTo ==
  /\ leg = "heard"
  /\ leg' = "answered"
  /\ datagram' = IF reply.binary THEN _pack2(heard, reply) ELSE _pack(heard, reply)
  /\ UNCHANGED <<sending, reply, heard, readBack>>

-----------------------------------------------------------------------------
(* Msender again *)

getComment(p) == SubSeq(p, RESPONSE_MIN + 1, MIN_SIZE + NumberOf(p, "len"))

readAnswer ==
  /\ leg = "answered"
  /\ leg' = "read"
  /\ readBack' =
       [to |-> datagram[1], from |-> datagram[2], type |-> datagram[3],
        ref |-> NumberOf(datagram, "ref"), mjd |-> NumberOf(datagram, "mjd"),
        mpm |-> NumberOf(datagram, "mpm"), accept |-> datagram[MIN_SIZE + 1] = 1,
        status |-> SubSeq(datagram, MIN_SIZE + 2, RESPONSE_MIN),
        comment |-> getComment(datagram)]
  /\ UNCHANGED <<sending, reply, datagram, heard>>

-----------------------------------------------------------------------------
MsgInit ==
  /\ sending \in Sendings
  /\ reply \in Replies
  /\ datagram = <<>> /\ heard = <<>> /\ readBack = <<>>
  /\ leg = "start"

MsgNext == sendBlock \/ hear \/ respondTo \/ readAnswer
MsgSpec == MsgInit /\ [][MsgNext]_msgVars

-----------------------------------------------------------------------------
\* The recorder understands the command Msender was told to send, whatever the
\* digits of its numbers and the length of its data, and none is refused for
\* its length.  Only a command whose data outgrew the buffer is dropped, and
\* one whose day number fills its field, six digits from the year 2132 on: its
\* first digit is then read as the last of the length.
DayFills == Len(Digits[sending.mjd]) >= Width.mjd
CommandUnderstood ==
  /\ leg # "refused"
  /\ leg = "dropped" => DayFills \/ Len(sending.data) > MAX_SIZE - MIN_SIZE
  /\ leg \in {"heard", "answered", "read"} => heard = sending

\* Msender reads the answer the recorder gave: to the sender of the command,
\* with its reference and type, the verdict, the time, as much of the comment
\* as fits in a message, and with a comment of text the status.
AnswerUnderstood ==
  leg = "read" =>
    /\ readBack.to = sending.from /\ readBack.from = sending.to
    /\ readBack.type = sending.type /\ readBack.ref = sending.ref
    /\ readBack.accept = reply.accept
    /\ readBack.mjd = reply.mjd /\ readBack.mpm = reply.mpm
    /\ IsPrefix(readBack.comment, reply.comment)
    /\ readBack.comment # reply.comment => Len(datagram) = MAX_SIZE
    /\ ~reply.binary => readBack.status = statusField(reply.status)

\* Both sides of an exchange read what the other one wrote.
DatagramsUnderstood == CommandUnderstood /\ AnswerUnderstood

\* The same of the status beside a binary comment, which loses its last
\* character to the NUL snprintf ends the header with.
BinaryStatusKept ==
  leg = "read" /\ reply.binary => readBack.status = statusField(reply.status)
=============================================================================
