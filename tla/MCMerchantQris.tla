-------------------------- MODULE MCMerchantQris --------------------------
(* Small instances of MerchantQris for TLC.                                *)
EXTENDS MerchantQris

CONSTANTS app1, call1

Sealed(es) ==
  LET input == BuildTLV[es] \o Tag(63) \o Padded(4) IN input \o Checksum(input)

Q == <<81>>

MerchantAccount(id) == MakeTLV(26, BuildTLV[<<MakeTLV(0, Q), MakeTLV(1, id)>>])

Head5(method) ==
  <<MakeTLV(0, Padded(1)), MakeTLV(1, Padded(method)), MerchantAccount(<<49, 50>>),
    MakeTLV(52, Decimal[5812]), MakeTLV(53, Decimal[360])>>

Tail3 == <<MakeTLV(58, <<73, 68>>), MakeTLV(59, Q \o Q), MakeTLV(60, Q)>>

\* A static text, as the fixture's.
Static == Sealed(Head5(11) \o Tail3)

\* A dynamic text with an amount, a tip, a postal code, additional data and a
\* name beyond ASCII, sent with its line end.
Registered ==
  Sealed(Head5(12) \o <<MakeTLV(54, Decimal[99]), MakeTLV(55, Padded(2)), MakeTLV(56, Decimal[5])>>
           \o [Tail3 EXCEPT ![2] = MakeTLV(59, Q \o <<195, 137>>)]
           \o <<MakeTLV(61, Decimal[10110]), MakeTLV(62, BuildTLV[<<MakeTLV(7, Q)>>])>>) \o <<10>>

BadSum == [Static EXCEPT ![Len(Static)] = 42]

NoCountry == Sealed(Head5(11) \o Tail(Tail3))

NoAccount == Sealed(SelectSeq(Head5(11) \o Tail3, LAMBDA e : ~Account(e.tag)))

\* The bytes of the elements as they are, nothing read again.
Plain(es) ==
  LET bytes == FlattenSeq([i \in DOMAIN es |-> es[i].tag \o Padded(Len(es[i].value)) \o es[i].value])
      input == bytes \o Tag(63) \o Padded(4)
  IN input \o Checksum(input)

\* Additional data that is not TLV to its end.
Ragged ==
  Plain(Head5(11) \o Tail3 \o <<MakeTLV(62, BuildTLV[<<MakeTLV(7, Q)>>] \o <<42, 42>>)>>)

\* A length below zero in a child, and one after the last element.
NegativeChild == Plain(Head5(11) \o Tail3 \o <<MakeTLV(62, <<48, 55, 45, 49>>)>>)
NegativeEnd ==
  LET input == SubSeq(Static, 1, Len(Static) - 8) \o <<54, 49, 45, 50>> \o Tag(63) \o Padded(4)
  IN input \o Checksum(input)

CleanTexts ==
  {Static, Registered, Ragged, BadSum, NoCountry, NoAccount, NegativeChild, NegativeEnd}

StaticOnly == {Static}

SomeAmounts == {7, 15000, 1234567}

SomeFees ==
  {NoFee, [type |-> "fixed", value |-> 1000], [type |-> "percentage", value |-> 2],
   [type |-> "fixed", value |-> 999999], [type |-> "other", value |-> 5],
   [type |-> "other", value |-> 0]}

LargeFee == {[type |-> "fixed", value |-> 1000000]}

\* What PaymentsAskTheirAmount and PaymentsDoNotPanic suppose of the texts.
ASSUME ReadAlike ==
  \A t \in Texts :
    /\ Valid(t) => ParseTLV[t] = ParseTLV[TrimSpace(t)] /\ Once(ParseTLV[t], 1)
    /\ Panics[t] => Panics[TrimSpace(t)]
=============================================================================
