------------------------------- MODULE Base64 -------------------------------
(***************************************************************************)
(* The Base64 of the WebSocket below the Realtime Database                 *)
(* (SocketRocket/fbase64.c): three bytes become four digits, padded at the *)
(* end, in a buffer whose size the caller works out beforehand; and back,  *)
(* from a text that may be damaged, into a buffer that may be too small.   *)
(*                                                                         *)
(* A byte has four units of bits and a digit three (of two bits each in    *)
(* the code).  A character is the digit it stands for, or one of three     *)
(* more: the pad, a space, and one of no meaning.                          *)
(***************************************************************************)
EXTENDS Naturals, SequencesExt

CONSTANTS
  UnitBits,          \* bits of a unit
  ByteValues,        \* bound: bytes of the data
  MaxBytes,          \* bound: the length of the data,
  HandshakeLengths,  \* or one of those the handshake encodes
  TargetSizes,       \* bound: sizes of buffers other than the callers'
  MaxDamages         \* bound: changes of the text, one of them other than a space

Units(n)  == 2 ^ (n * UnitBits)
Digits    == 0..(Units(3) - 1)
Pad64     == Units(3)
WhiteSpace == Pad64 + 1
NoDigit   == Pad64 + 2
Characters == Digits \cup {Pad64, WhiteSpace, NoDigit}

Refused == <<"refused">>
Done(s) == <<"done", s>>

VARIABLES
  source,    \* the data encoded, and the size of its buffer
  text,      \* what f_b64_ntop returned, or what became of it
  damages,   \* how often it was changed, and whether by more than spaces
  decoded    \* what f_b64_pton returned, and the size of its buffer

vars == <<source, text, damages, decoded>>
-----------------------------------------------------------------------------
Quanta(s) == (Len(s) + 2) \div 3

\* The digits of three bytes; those that are missing count as zero.
Quantum(s, q) ==
  LET input(i) == IF 3 * (q - 1) + i \in DOMAIN s THEN s[3 * (q - 1) + i] ELSE 0
      left == Len(s) - 3 * (q - 1)
  IN << input(1) \div Units(1),
        (input(1) % Units(1)) * Units(2) + input(2) \div Units(2),
        IF left = 1 THEN Pad64
        ELSE (input(2) % Units(2)) * Units(1) + input(3) \div Units(3),
        IF left < 3 THEN Pad64 ELSE input(3) % Units(3) >>

\* Every quantum must fit, and the zero that ends the string.
f_b64_ntop(s, targsize) ==
  IF 4 * Quanta(s) >= targsize THEN Refused
  ELSE Done(FlattenSeq([q \in 1..Quanta(s) |-> Quantum(s, q)]))

\* The size of the buffer in base64EncodedStringFromData and newSHA1String.
BufferSize(n) == (n * 3 + 2) \div 2
-----------------------------------------------------------------------------
\* One digit: out is written, rest are the bits of the byte begun.  Room is
\* asked for the byte after it too, when a digit runs over its end.
Digit(d, ch, targsize) ==
  LET s == d.state
      over == IF s \in {1, 2} THEN 1 ELSE 0
      byte == d.rest + ch \div Units(3 - s)
  IN IF ch \notin Digits \/ Len(d.out) + over >= targsize
     THEN [d EXCEPT !.ok = FALSE]
     ELSE [ok |-> d.ok, state |-> (s + 1) % 4,
           out |-> IF s = 0 THEN d.out ELSE Append(d.out, byte),
           rest |-> (ch % Units(3 - s)) * Units(s + 1)]

NotSpaces(t) == SelectSeq(t, LAMBDA ch : ch # WhiteSpace)

\* What follows the first pad: the second if there must be one, then spaces;
\* and the bits below the last byte are zero.
Padded(d, rest) ==
  /\ d.rest = 0
  /\ \/ d.state = 2 /\ rest = <<Pad64>>
     \/ d.state = 3 /\ rest = << >>

f_b64_pton(t, targsize) ==
  LET chars == NotSpaces(t)
      pads  == {i \in DOMAIN chars : chars[i] = Pad64}
      end   == IF pads = {} THEN Len(chars) + 1 ELSE Min(pads)
      d     == FoldLeft(LAMBDA e, ch : Digit(e, ch, targsize),
                        [ok |-> TRUE, state |-> 0, out |-> << >>, rest |-> 0],
                        SubSeq(chars, 1, end - 1))
      ends  == IF pads = {} THEN d.state = 0
               ELSE Padded(d, SubSeq(chars, end + 1, Len(chars)))
  IN IF d.ok /\ ends THEN Done(d.out) ELSE Refused
-----------------------------------------------------------------------------
Init ==
  /\ source = << >>
  /\ text = Refused
  /\ damages = [count |-> 0, harm |-> FALSE]
  /\ decoded = << >>

Sources == SeqOf(ByteValues, MaxBytes)
           \cup {[i \in 1..n |-> b] : n \in HandshakeLengths, b \in ByteValues}

Encode(s, targsize) ==
  /\ source = << >>
  /\ source' = <<s, targsize>>
  /\ text' = f_b64_ntop(s, targsize)
  /\ UNCHANGED <<damages, decoded>>

Intact == source # << >> /\ text # Refused /\ decoded = << >>
          /\ Len(source[1]) <= MaxBytes

Damage(t, harm) ==
  /\ Intact
  /\ damages.count < MaxDamages /\ ~ (harm /\ damages.harm)
  /\ text' = Done(t)
  /\ damages' = [count |-> damages.count + 1, harm |-> damages.harm \/ harm]
  /\ UNCHANGED <<source, decoded>>

\* The text on its way: a space more, a character less, or another one.
Changed ==
  \/ \E i \in 1..(Len(text[2]) + 1) : Damage(InsertAt(text[2], i, WhiteSpace), FALSE)
  \/ \E i \in DOMAIN text[2] :
       \/ Damage(RemoveAt(text[2], i), TRUE)
       \/ \E ch \in Characters : Damage([text[2] EXCEPT ![i] = ch], TRUE)

Decode(targsize) ==
  /\ Intact
  /\ decoded' = <<f_b64_pton(text[2], targsize), targsize>>
  /\ UNCHANGED <<source, text, damages>>

Next ==
  \/ \E s \in Sources : Encode(s, BufferSize(Len(s)))
  \/ \E s \in Sources, targsize \in TargetSizes : Encode(s, targsize)
  \/ Intact /\ Changed
  \/ \E targsize \in TargetSizes : Decode(targsize)

Spec == Init /\ [][Next]_vars
-----------------------------------------------------------------------------
\* The room a decoder needs: one byte more than the data when it is padded.
Room(n) == IF n % 3 = 0 THEN n ELSE n + 1

\* f_b64_ntop and f_b64_pton: what is encoded is decoded as it was, if the
\* buffer has room; of two texts that are accepted no two mean the same bytes,
\* spaces aside; and the buffers of the handshake hold the texts they are for.
Base64IsExact ==
  /\ source # << >> /\ damages.count = 0 =>
       (source[2] = BufferSize(Len(source[1])) /\ Len(source[1]) \in HandshakeLengths
          => text # Refused)
  /\ decoded # << >> /\ ~ damages.harm =>
       decoded[1] = IF Room(Len(source[1])) <= decoded[2] THEN Done(source[1]) ELSE Refused
  /\ decoded # << >> /\ decoded[1] # Refused =>
       LET s == decoded[1][2]
       IN f_b64_ntop(s, 4 * Quanta(s) + 1) = Done(NotSpaces(text[2]))
=============================================================================
