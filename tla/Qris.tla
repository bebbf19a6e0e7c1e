-------------------------------- MODULE Qris --------------------------------
(***************************************************************************)
(* The QRIS codec: the TLV reader and writer, CRC16, Validate, Convert and *)
(* Parse, as functions of texts.  A text is the sequence of its bytes.     *)
(*                                                                         *)
(* A 16-bit word is the set of its bits that are 1, so that exclusive or   *)
(* is the symmetric difference.                                            *)
(***************************************************************************)
EXTENDS Integers, Sequences, SequencesExt

Text == Seq(0 .. 255)

-----------------------------------------------------------------------------
(* Numbers in a text                                                       *)

IsDigit(b) == b \in 48 .. 57

\* strconv.Atoi on two bytes: two digits, or a sign and a digit.
IsInt(s) == IsDigit(s[2]) /\ (IsDigit(s[1]) \/ s[1] \in {43, 45})
IntOf(s) ==
  IF s[1] = 45 THEN 48 - s[2]
  ELSE (IF IsDigit(s[1]) THEN 10 * (s[1] - 48) ELSE 0) + s[2] - 48

\* fmt %d, %02d, and %g for a float64 with an integer value: from 1e+06 on,
\* %g writes the digits without their final zeros and an exponent.
Decimal[n \in Nat] ==
  IF n < 10 THEN <<48 + n>> ELSE Append(Decimal[n \div 10], 48 + (n % 10))

Padded(n) == IF n < 10 THEN <<48>> \o Decimal[n] ELSE Decimal[n]

Scientific(ds) ==
  LET last == SelectLastInSeq(ds, LAMBDA b : b # 48)
      fraction == IF last > 1 THEN <<46>> \o SubSeq(ds, 2, last) ELSE <<>>
  IN <<ds[1]>> \o fraction \o <<101, 43>> \o Padded(Len(ds) - 1)

General(n) == IF n < 1000000 THEN Decimal[n] ELSE Scientific(Decimal[n])

Tag(n) == Padded(n)

-----------------------------------------------------------------------------
(* Tag, length, value                                                      *)

Element == [tag: Text, value: Text]

Account(tag) == IsInt(tag) /\ IntOf(tag) \in 26 .. 51

\* isNestedTag.
Nested(tag) == tag = Tag(62) \/ Account(tag)

\* Whether the text begins with an element that fits; the rest is not read.
Fits(s) ==
  /\ Len(s) >= 4 /\ IsInt(SubSeq(s, 3, 4))
  /\ 4 + IntOf(SubSeq(s, 3, 4)) <= Len(s)

\* The length field is below zero: the value would end before it begins.
Backwards(s) == Fits(s) /\ IntOf(SubSeq(s, 3, 4)) < 0

ValueOf(s) == SubSeq(s, 5, 4 + IntOf(SubSeq(s, 3, 4)))
RestOf(s) == SubSeq(s, 5 + IntOf(SubSeq(s, 3, 4)), Len(s))

\* Two bytes of tag, two of length, the value, and so on while it fits.  The
\* children of a nested element are ParseTLV of its value.
ParseTLV[s \in Text] ==
  IF ~Fits(s) \/ Backwards(s) THEN <<>>
  ELSE <<[tag |-> SubSeq(s, 1, 2), value |-> ValueOf(s)]>> \o ParseTLV[RestOf(s)]

\* The reader panics: it comes to such a length, in the text or in a child.
Panics[s \in Text] ==
  /\ Fits(s)
  /\ \/ Backwards(s)
     \/ Nested(SubSeq(s, 1, 2)) /\ Panics[ValueOf(s)]
     \/ Panics[RestOf(s)]

\* The children that a nested element is read with.
Children(e) == IF Nested(e.tag) THEN ParseTLV[e.value] ELSE <<>>

\* buildTLVString: a nested element is written anew from its children.
BuildTLV[es \in Seq(Element)] ==
  IF es = <<>> THEN <<>>
  ELSE LET children == Children(es[1])
           value == IF children = <<>> THEN es[1].value ELSE BuildTLV[children]
       IN es[1].tag \o Padded(Len(value)) \o value \o BuildTLV[Tail(es)]

MakeTLV(n, value) == [tag |-> Tag(n), value |-> value]

\* The elements whose tags are not among the given ones.
Without(es, tags) ==
  LET others[r \in Seq(Element)] ==
        IF r = <<>> THEN <<>>
        ELSE (IF r[1].tag \in tags THEN <<>> ELSE <<r[1]>>) \o others[Tail(r)]
  IN others[es]

HasTag(es, n) == \E i \in DOMAIN es : es[i].tag = Tag(n)

\* The value of the first element with the tag, <<>> if there is none.
Find(es, n) ==
  IF HasTag(es, n) THEN es[SelectInSeq(es, LAMBDA e : e.tag = Tag(n))].value ELSE <<>>

-----------------------------------------------------------------------------
(* CRC16-CCITT                                                             *)

Bits(b) == {i \in 0 .. 7 : (b \div 2^i) % 2 = 1}

Poly == {0, 5, 12}   \* 0x1021

\* uint16: the bit shifted out is gone.
ShiftLeft(crc) == {i + 1 : i \in crc \ {15}}

CrcBit(crc) == IF 15 \in crc THEN SymDiff(ShiftLeft(crc), Poly) ELSE ShiftLeft(crc)

CrcByte(crc, b) ==
  LET start == SymDiff(crc, {i + 8 : i \in Bits(b)})
      after[j \in 0 .. 8] == IF j = 0 THEN start ELSE CrcBit(after[j - 1])
  IN after[8]

Word == SUBSET (0 .. 15)

\* The register after the bytes of s, from left to right; by halves, which
\* keeps TLC's recursion shallow.
CrcText[w \in Word \X Text] ==
  LET crc == w[1]
      s == w[2]
      half == Len(s) \div 2
  IN IF s = <<>> THEN crc
     ELSE IF half = 0 THEN CrcByte(crc, s[1])
     ELSE CrcText[<<CrcText[<<crc, SubSeq(s, 1, half)>>], SubSeq(s, half + 1, Len(s))>>]

\* Variant: the register begins at zero, as in CRC16-XMODEM.
FromZero(s) == CrcText[<<{}, s>>]
CRC16(s) == CrcText[<<0 .. 15, s>>]

\* upperHex4.
Hex4(crc) ==
  LET digit(k) == (IF k + 3 \in crc THEN 8 ELSE 0) + (IF k + 2 \in crc THEN 4 ELSE 0)
                    + (IF k + 1 \in crc THEN 2 ELSE 0) + (IF k \in crc THEN 1 ELSE 0)
      byte(d) == IF d < 10 THEN 48 + d ELSE 55 + d
  IN <<byte(digit(12)), byte(digit(8)), byte(digit(4)), byte(digit(0))>>

Checksum(s) == Hex4(CRC16(s))

-----------------------------------------------------------------------------
(* What a CRC is: the remainder of a division of polynomials over GF(2),   *)
(* which are the sets of their exponents                                   *)

Generator == {0, 5, 12, 16}   \* x^16 + x^12 + x^5 + 1

\* p times x^d.
Shifted(p, d) == {i + d : i \in p}

Subtract(p, d) == IF d + 16 \in p THEN SymDiff(p, Shifted(Generator, d)) ELSE p

\* Long division of a polynomial by the generator: the n steps that end with
\* the quotient's x^low; by halves, too.
Divided[w \in Nat \X Nat \X SUBSET Nat] ==
  LET n == w[1]
      low == w[2]
      p == w[3]
      half == n \div 2
  IN IF n = 0 THEN p
     ELSE IF n = 1 THEN Subtract(p, low)
     ELSE Divided[<<half, low, Divided[<<n - half, low + half, p>>]>>]

\* The text, first bit first, times x^16.
Message(s) == UNION {Shifted(Bits(s[k]), 8 * (Len(s) - k) + 16) : k \in DOMAIN s}

\* The remainder of the text's polynomial with its first 16 bits inverted.
Remainder(s) ==
  Divided[<<8 * Len(s), 0, SymDiff(Message(s), Shifted(0 .. 15, 8 * Len(s)))>>]

\* The polynomial that four bytes stand for as hexadecimal digits, 0-9 and A-F.
HexByte == (48 .. 57) \union (65 .. 70)
HexValue(b) == IF IsDigit(b) THEN b - 48 ELSE b - 55
FromHex(t) == UNION {Shifted(Bits(HexValue(t[k])), 16 - 4 * k) : k \in 1 .. 4}

-----------------------------------------------------------------------------
(* Validate                                                                *)

Space == {9, 10, 11, 12, 13, 32}

TrimSpace(s) ==
  SubSeq(s, SelectInSeq(s, LAMBDA b : b \notin Space), SelectLastInSeq(s, LAMBDA b : b \notin Space))

Upper(s) == [i \in DOMAIN s |-> IF s[i] \in 97 .. 122 THEN s[i] - 32 ELSE s[i]]

Required == {0, 1, 52, 53, 58, 59, 60, 63}

\* A text that is too short is refused before it is read.
ValidatePanics(text) == Len(TrimSpace(text)) >= 20 /\ Panics[TrimSpace(text)]

\* Whether Validate returns and finds no error.
Valid(text) ==
  LET s == TrimSpace(text)
      es == ParseTLV[s]
  IN /\ SelectInSeq(text, LAMBDA b : b \notin Space) # 0
     /\ IsPrefix(Tag(0) \o Padded(2) \o Padded(1), s)
     /\ Len(s) >= 20 /\ ~Panics[s]
     /\ Checksum(SubSeq(s, 1, Len(s) - 4)) = Upper(SubSeq(s, Len(s) - 3, Len(s)))
     /\ \A n \in Required : HasTag(es, n)
     /\ \A i \in DOMAIN es : es[i].tag = Tag(1) => es[i].value \in {Padded(11), Padded(12)}
     /\ \E i \in DOMAIN es : Account(es[i].tag)

-----------------------------------------------------------------------------
(* Convert                                                                 *)

\* Variant: the amount of the merchant's text is not taken out.
ManagedTips == {Tag(n) : n \in {55, 56, 57, 63}}
\* Variant: the postal code and the additional data are taken out, too.
ManagedMore == {Tag(n) : n \in {54, 55, 56, 57, 61, 62, 63}}
\* Elements of the merchant's text that Convert leaves out.
Managed == {Tag(n) : n \in {54, 55, 56, 57, 63}}

FeeElements(fee) ==
  CASE fee.type = "none" -> <<>>
    [] fee.type = "fixed" -> <<MakeTLV(55, Padded(2)), MakeTLV(56, General(fee.value))>>
    [] OTHER -> <<MakeTLV(55, Padded(3)), MakeTLV(57, General(fee.value))>>

\* The amount and the fee go before the first country code.
Convert(text, amount, fee) ==
  LET kept == Without(ParseTLV[text], Managed)
      dynamic == [i \in DOMAIN kept |->
        IF kept[i].tag = Tag(1) THEN MakeTLV(1, Padded(12)) ELSE kept[i]]
      country == SelectInSeq(dynamic, LAMBDA e : e.tag = Tag(58))
      result == IF country = 0 THEN dynamic
                ELSE SubSeq(dynamic, 1, country - 1)
                       \o <<MakeTLV(54, Decimal[amount])>> \o FeeElements(fee)
                       \o SubSeq(dynamic, country, Len(dynamic))
      crcInput == BuildTLV[result] \o Tag(63) \o Padded(4)
  IN crcInput \o Checksum(crcInput)

-----------------------------------------------------------------------------
(* Parse                                                                   *)

\* The fields of Data that tell payments apart; the others are read alike.
Parse(text) ==
  LET raw == ParseTLV[text]
      tip == Find(raw, 55)
  IN [method |-> IF Find(raw, 1) = Padded(12) THEN "dynamic" ELSE "static",
      amount |-> Find(raw, 54),
      tip |-> CASE tip = Padded(1) -> "prompt"
                [] tip = Padded(2) -> "fixed"
                [] tip = Padded(3) -> "percentage"
                [] OTHER -> "none",
      fixed |-> Find(raw, 56),
      percentage |-> Find(raw, 57),
      accounts |-> SelectSeq(raw, LAMBDA e : Account(e.tag) /\ ParseTLV[e.value] # <<>>)]
=============================================================================
