------------------------- MODULE MerchantQrisProofs -------------------------
(***************************************************************************)
(* That no payment is refused for its merchant's text, for any texts the   *)
(* admin may send: what the app's row holds was accepted, and so was the   *)
(* copy a call works on.  That the text of a payment names the payee of    *)
(* the copy, that the copy is one the app had while the call ran, and that *)
(* it asks for the amount and the fee of the call.                         *)
(***************************************************************************)
EXTENDS MerchantQris, QrisProofs

StoredValid == \A a \in Apps : merchant[a] # None => Valid(merchant[a])

CopyValid ==
  \A c \in Calls : call[c].pc # "misconfigured" /\ (call[c].pc = "build" => Valid(call[c].text))

Shape ==
  /\ merchant = [a \in Apps |-> merchant[a]]
  /\ call = [c \in Calls |-> call[c]]
  /\ \A c \in Calls :
       call[c] = [pc |-> call[c].pc, app |-> call[c].app, text |-> call[c].text,
                  amount |-> call[c].amount, fee |-> call[c].fee, qr |-> call[c].qr]

Inv == Shape /\ StoredValid /\ CopyValid

LEMMA InitInv == Init => Inv
  BY DEF Init, Inv, Shape, StoredValid, CopyValid

LEMMA AdminKeeps ==
  ASSUME Inv, NEW a \in Apps, CreateApp(a) \/ UpdateApp(a)
  PROVE  Inv'
<1>1. PICK t \in Texts : Valid(t) /\ merchant' = [merchant EXCEPT ![a] = t] /\ call' = call
  BY DEF CreateApp, UpdateApp, Accepted
<1>2. Shape'
  BY <1>1 DEF Inv, Shape
<1>3. StoredValid'
  BY <1>1 DEF Inv, Shape, StoredValid
<1>4. CopyValid'
  BY <1>1 DEF Inv, CopyValid
<1> QED
  BY <1>2, <1>3, <1>4 DEF Inv

LEMMA BeginKeeps ==
  ASSUME Inv, NEW c \in Calls, CreateBegin(c)
  PROVE  Inv'
<1>1. PICK a \in Apps, amount \in Amounts, fee \in Fees :
        /\ merchant[a] # None /\ merchant' = merchant
        /\ call' = [call EXCEPT ![c] = [pc |-> "build", app |-> a, text |-> merchant[a],
                                        amount |-> amount, fee |-> fee, qr |-> None]]
  BY DEF CreateBegin
<1>2. Shape'
  BY <1>1 DEF Inv, Shape
<1>3. Valid(merchant[a])
  BY <1>1 DEF Inv, StoredValid
<1>4. StoredValid'
  BY <1>1 DEF Inv, StoredValid
<1>5. CopyValid'
  BY <1>1, <1>3 DEF Inv, Shape, CopyValid
<1> QED
  BY <1>2, <1>4, <1>5 DEF Inv

LEMMA BuildKeeps ==
  ASSUME Inv, NEW c \in Calls, CreateBuild(c)
  PROVE  Inv'
<1>1. merchant' = merchant /\ Valid(call[c].text)
  BY DEF CreateBuild, Inv, CopyValid
<1> DEFINE Goes(to, qr) == call' = [call EXCEPT ![c].pc = to, ![c].qr = qr]
<1>2. PICK to, qr : to # "misconfigured" /\ to # "build" /\ Goes(to, qr)
  <2> DEFINE fee == Charged(call[c].fee)
  <2>1. Outcome(call[c].text, fee) \in {"panicked", "badfee", "built"}
    BY <1>1 DEF Outcome
  <2> QED BY <2>1 DEF CreateBuild
<1>3. call' = [call EXCEPT ![c].pc = to, ![c].qr = qr]
  BY <1>2
<1>4. Shape'
  BY <1>1, <1>3 DEF Inv, Shape
<1>5. StoredValid'
  BY <1>1 DEF Inv, StoredValid
<1>6. CopyValid'
  BY <1>2, <1>3 DEF Inv, Shape, CopyValid
<1> QED
  BY <1>4, <1>5, <1>6 DEF Inv

(* Create never answers "merchant qris misconfigured": the text an app has *)
(* was accepted by the same Validate when the admin stored it, and the     *)
(* call's copy of it stays accepted while the admin replaces it.           *)
THEOREM TextNeverRefused == Spec => []NeverMisconfigured
<1>1. Inv /\ [Next]_vars => Inv'
  <2> SUFFICES ASSUME Inv, [Next]_vars PROVE Inv'
    OBVIOUS
  <2>1. CASE UNCHANGED vars
    BY <2>1 DEF vars, Inv, Shape, StoredValid, CopyValid
  <2> QED BY <2>1, AdminKeeps, BeginKeeps, BuildKeeps DEF Next
<1>2. Inv => NeverMisconfigured
  BY DEF Inv, CopyValid, NeverMisconfigured
<1> QED
  BY InitInv, <1>1, <1>2, PTL DEF Spec

-----------------------------------------------------------------------------
(* The payee                                                               *)

\* What can be read of one element, with g for what can be read of its
\* children.
Part(g, e) ==
  IF Children(e) = <<>> THEN <<e>> ELSE <<[e EXCEPT !.value = <<>>]>> \o g[Children(e)]

LEMMA ReadableExists ==
  \E f : f = [es \in Elements |-> IF es = <<>> THEN <<>> ELSE Part(f, es[1]) \o f[Tail(es)]]
<1> DEFINE D == Elements
           V == Elements
           Body(g) == [es \in D |-> IF es = <<>> THEN <<>> ELSE Part(g, es[1]) \o g[Tail(es)]]
           Phi == [g \in [D -> V] |-> Body(g)]
           m == [es \in D |-> Weight[es]]
<1>1. ASSUME NEW es \in D, es # <<>>
      PROVE  /\ es[1] \in Element /\ Tail(es) \in D /\ Children(es[1]) \in D
             /\ m[Tail(es)] < m[es] /\ m[Children(es[1])] < m[es]
  <2>1. es[1] \in Element /\ Tail(es) \in D /\ es = <<es[1]>> \o Tail(es)
    BY <1>1, ConsSplit DEF Elements
  <2>2. Children(es[1]) \in D /\ Weight[Children(es[1])] <= Len(es[1].value)
    BY <2>1, ChildrenSound
  <2>3. Weight[es] = 1 + Len(es[1].value) + Weight[Tail(es)]
    BY <1>1, WeightDef, Zenon
  <2>4. Len(es[1].value) \in Nat /\ Weight[Tail(es)] \in Nat /\ Weight[Children(es[1])] \in Nat
    BY <2>1, <2>2, WeightType, TextByte DEF Element
  <2> QED BY <2>1, <2>2, <2>3, <2>4
<1>2. ASSUME NEW g \in [D -> V] PROVE Body(g) \in [D -> V]
  <2>1. <<>> \in V
    BY EmptyElements
  <2>2. ASSUME NEW es \in D, es # <<>> PROVE Part(g, es[1]) \o g[Tail(es)] \in V
    <3>1. es[1] \in Element /\ Tail(es) \in D /\ Children(es[1]) \in D
      BY <1>1, <2>2
    <3>2. [es[1] EXCEPT !.value = <<>>] \in Element
      BY <3>1, EmptyText DEF Element
    <3>3. <<es[1]>> \in V /\ <<[es[1] EXCEPT !.value = <<>>]>> \in V
      BY <2>1, <3>1, <3>2, ElementsCons
    <3>4. g[Tail(es)] \in V /\ g[Children(es[1])] \in V
      BY <3>1
    <3>5. Part(g, es[1]) \in V
      BY <3>3, <3>4, ElementsConcat, Zenon DEF Part
    <3> QED BY <3>4, <3>5, ElementsConcat, Zenon
  <2> HIDE DEF D, V, m
  <2> QED BY <2>1, <2>2
<1>3. \A g \in [D -> V] : Phi[g] = Body(g)
  OBVIOUS
<1>4. Descends(D, V, m, Phi)
  <2>1. V # {}
    BY EmptyElements
  <2>2. m \in [D -> Nat]
    BY WeightType
  <2>3. Phi \in [[D -> V] -> [D -> V]]
    BY <1>2
  <2>4. ASSUME NEW g \in [D -> V], NEW h \in [D -> V], NEW es \in D,
               \A e \in D : m[e] < m[es] => g[e] = h[e]
        PROVE  Phi[g][es] = Phi[h][es]
    <3>1. es # <<>> => g[Tail(es)] = h[Tail(es)] /\ Part(g, es[1]) = Part(h, es[1])
      BY <1>1, <2>4 DEF Part
    <3> HIDE DEF D, V, m
    <3> QED BY <1>3, <3>1
  <2> HIDE DEF Phi, m, D, V
  <2> QED BY <2>1, <2>2, <2>3, <2>4 DEF Descends
<1> HIDE DEF Phi, m, D, V, Body
<1>5. PICK f \in [D -> V] : f = Phi[f]
  BY <1>4, RecursionExists
<1>6. f = Body(f)
  BY <1>3, <1>5
<1> QED
  BY <1>6 DEF D, Body

LEMMA ReadableDef ==
  \A es \in Elements :
    Readable[es] = IF es = <<>> THEN <<>> ELSE Part(Readable, es[1]) \o Readable[Tail(es)]
<1>1. Readable = [es \in Elements |->
        IF es = <<>> THEN <<>> ELSE Part(Readable, es[1]) \o Readable[Tail(es)]]
  BY ReadableExists DEF Readable, Part, Elements
<1> QED
  BY <1>1, ZenonT(60)

LEMMA ReadableCons ==
  ASSUME NEW e \in Element, NEW es \in Elements
  PROVE  Readable[<<e>> \o es] = Part(Readable, e) \o Readable[es]
<1> DEFINE s == <<e>> \o es
<1>1. s \in Elements /\ s # <<>> /\ s[1] = e /\ Tail(s) = es
  BY ConsOf DEF Elements
<1> HIDE DEF s
<1>2. Readable[s] = Part(Readable, s[1]) \o Readable[Tail(s)]
  BY <1>1, ReadableDef, Zenon
<1> QED
  BY <1>1, <1>2 DEF s

LEMMA ReadableEmpty == Readable[<<>>] = <<>>
<1>1. <<>> \in Elements
  BY EmptyElements
<1> QED
  BY <1>1, ReadableDef, Zenon

\* What is read of an element after it was written is what was read before.
LEMMA PartRewritten ==
  ASSUME NEW e \in Element,
         Children(e) # <<>> => Readable[Mapped(Rewrite, Children(e))] = Readable[Children(e)]
  PROVE  Part(Readable, Rewrite[e]) = Part(Readable, e)
<1>1. CASE Children(e) = <<>>
  <2>1. Rewrite[e] = e
    BY <1>1, ChildrenReadBack
  <2> QED BY <2>1, Zenon
<1>2. CASE Children(e) # <<>>
  <2>1. Children(Rewrite[e]) = Mapped(Rewrite, Children(e))
    BY <1>2, ChildrenReadBack
  <2>2. Mapped(Rewrite, Children(e)) # <<>>
    <3>1. PICK ch \in Elements : ch = Children(e)
      BY ChildrenSound
    <3>2. 1 \in DOMAIN ch
      BY <1>2, <3>1 DEF Elements
    <3>3. 1 \in DOMAIN Mapped(Rewrite, ch)
      BY <3>2 DEF Mapped
    <3>4. 1 \notin DOMAIN <<>>
      OBVIOUS
    <3> QED BY <3>1, <3>3, <3>4, Zenon
  <2>3. [Rewrite[e] EXCEPT !.value = <<>>] = [e EXCEPT !.value = <<>>]
    <3>1. Rewrite[e] = [tag |-> e.tag, value |-> Written(e)]
      BY DEF Rewrite
    <3>2. e = [tag |-> e.tag, value |-> e.value]
      BY DEF Element
    <3>3. [Rewrite[e] EXCEPT !.value = <<>>] = [tag |-> e.tag, value |-> <<>>]
      BY <3>1, SMT
    <3>4. [e EXCEPT !.value = <<>>] = [tag |-> e.tag, value |-> <<>>]
      BY <3>2, SMT
    <3> QED BY <3>3, <3>4, Zenon
  <2>4. Part(Readable, Rewrite[e])
          = <<[Rewrite[e] EXCEPT !.value = <<>>]>> \o Readable[Children(Rewrite[e])]
    BY <2>1, <2>2, Zenon DEF Part
  <2>5. Part(Readable, e) = <<[e EXCEPT !.value = <<>>]>> \o Readable[Children(e)]
    BY <1>2, Zenon DEF Part
  <2> QED BY <1>2, <2>1, <2>3, <2>4, <2>5, Zenon
<1> QED
  BY <1>1, <1>2

(* buildTLVString, ParseTLV: what can be read of elements, children and    *)
(* all, is the same after they were written and read again.                *)
THEOREM ReadableRewritten == \A es \in Seq(Sound) : Readable[Mapped(Rewrite, es)] = Readable[es]
<1> DEFINE G == {es \in Elements : es \in Seq(Sound) => Readable[Mapped(Rewrite, es)] = Readable[es]}
           m == [es \in Elements |-> Weight[es]]
<1>1. ASSUME NEW es \in Elements, \A r \in Elements : m[r] < m[es] => r \in G
      PROVE  es \in G
  <2> SUFFICES ASSUME es \in Seq(Sound) PROVE Readable[Mapped(Rewrite, es)] = Readable[es]
    OBVIOUS
  <2>1. CASE es = <<>>
    BY <2>1, MapEmpty, Zenon
  <2>2. CASE es # <<>>
    <3>1. PICK e, rest : e = es[1] /\ rest = Tail(es)
      OBVIOUS
    <3>2. e \in Sound /\ rest \in Seq(Sound) /\ es = <<e>> \o rest
      BY <2>2, <3>1, ConsSplit, Zenon
    <3>3. e \in Element /\ rest \in Elements
      BY <3>2, SoundSeq DEF Sound
    <3>4. Weight[rest] < Weight[es] /\ Weight[Children(e)] < Weight[es]
      <4>1. Weight[es] = 1 + Len(e.value) + Weight[rest]
        BY <3>2, <3>3, WeightCons, Zenon
      <4>2. Len(e.value) \in Nat
        BY <3>3, TextByte DEF Element
      <4>3. Children(e) \in Elements /\ Weight[Children(e)] <= Len(e.value)
        BY <3>3, ChildrenSound
      <4>4. Weight[rest] \in Nat /\ Weight[Children(e)] \in Nat
        BY <3>3, <4>3, WeightType
      <4> QED BY <4>1, <4>2, <4>3, <4>4
    <3>5. Readable[Mapped(Rewrite, rest)] = Readable[rest]
      BY <1>1, <3>2, <3>3, <3>4
    <3>6. Readable[Mapped(Rewrite, Children(e))] = Readable[Children(e)]
      <4>1. Children(e) \in Elements /\ Children(e) \in Seq(Sound)
        BY <3>3, ChildrenSound
      <4> QED BY <1>1, <3>4, <4>1
    <3>7. Part(Readable, Rewrite[e]) = Part(Readable, e)
      BY <3>3, <3>6, PartRewritten
    <3>8. /\ Mapped(Rewrite, rest) \in Elements /\ Rewrite[e] \in Element
          /\ Mapped(Rewrite, <<e>> \o rest) = <<Rewrite[e]>> \o Mapped(Rewrite, rest)
      BY <3>3, RewriteType, RewriteCons
    <3>9. Readable[<<Rewrite[e]>> \o Mapped(Rewrite, rest)]
            = Part(Readable, Rewrite[e]) \o Readable[Mapped(Rewrite, rest)]
      BY <3>8, ReadableCons, Zenon
    <3>10. Readable[<<e>> \o rest] = Part(Readable, e) \o Readable[rest]
      BY <3>3, ReadableCons, Zenon
    <3> QED BY <3>2, <3>5, <3>7, <3>8, <3>9, <3>10, Zenon
  <2> QED BY <2>1, <2>2
<1>2. G = Elements
  <2>1. m \in [Elements -> Nat]
    BY WeightType
  <2>2. G \in SUBSET Elements
    OBVIOUS
  <2> HIDE DEF G, m
  <2> QED BY <1>1, <2>1, <2>2, MeasureInduction
<1> QED
  BY <1>2, SoundSeq

LEMMA ChargedFits ==
  ASSUME NEW amount \in Amounts, NEW fee \in Fees
  PROVE  Fitting(amount, Charged(fee))
<1>1. amount \in Nat /\ fee.value \in Nat
  BY MerchantAssumption DEF Fee
<1>2. Len(Decimal[amount]) <= 99
  <2>1. Len(Decimal[amount]) \in Nat /\ Len(Decimal[amount]) <= 19
    BY <1>1, DecimalType, TextByte, WidthAssumption
  <2> QED BY <2>1
<1>3. Len(General(Charged(fee).value)) <= 99
  <2>1. CASE fee.value = 0
    <3>1. General(0) = <<48>>
      <4>1. Decimal[0] = <<48>>
        BY DecimalSmall
      <4> QED BY <4>1, SMT DEF General
    <3>2. Charged(fee).value = 0
      BY <2>1 DEF Charged, NoFee
    <3>3. Len(<<48>>) <= 99
      OBVIOUS
    <3> QED BY <3>1, <3>2, <3>3, Zenon
  <2>2. CASE fee.value # 0
    <3>1. Charged(fee) = fee
      BY <2>2, Zenon DEF Charged
    <3>2. Len(General(fee.value)) <= 24
      BY WidthAssumption
    <3>3. Len(General(fee.value)) \in Nat
      BY <1>1, GeneralType, TextByte
    <3>4. Len(General(fee.value)) <= 99
      BY <3>2, <3>3
    <3> QED BY <3>1, <3>4, Zenon
  <2> QED BY <2>1, <2>2
<1>4. Charged(fee).value \in Nat
  BY <1>1 DEF Charged, NoFee
<1> QED
  BY <1>1, <1>2, <1>3, <1>4 DEF Fitting

(* Convert: whatever text the merchant has, and whatever amount and fee a  *)
(* call sends, the text that is made of it names the same payee.           *)
THEOREM ConvertKeepsPayee ==
  ASSUME NEW text \in Text, NEW amount \in Amounts, NEW fee \in Fees
  PROVE  Payee(Convert(text, amount, Charged(fee))) = Payee(text)
<1>1. PICK f : f = Charged(fee) /\ Fitting(amount, f)
  BY ChargedFits
<1>2. Covers(Terms)
  BY DEF Written6, Terms, Covers
<1>3. Passes(text, Convert(text, amount, f), Terms)
  BY <1>1, <1>2, ConvertPasses, Zenon
<1>4. Without(ParseTLV[text], Terms) \in Seq(Sound)
  BY ParseSound, WithoutSound
<1>5. Readable[Mapped(Rewrite, Without(ParseTLV[text], Terms))] = Readable[Without(ParseTLV[text], Terms)]
  BY <1>4, ReadableRewritten, Zenon
<1> QED
  BY <1>1, <1>3, <1>5, Zenon DEF Payee, Passes

-----------------------------------------------------------------------------
(* What a call works on                                                    *)

StoredText == \A a \in Apps : merchant[a] # None => merchant[a] \in Texts

\* A call that has begun works on a text that its app had meanwhile.
Works(x, texts) ==
  x.text \in texts \cap Texts /\ x.amount \in Amounts /\ x.fee \in Fees

CopyHeld ==
  /\ held = [c \in Calls |-> held[c]]
  /\ \A c \in Calls : call[c].pc \in {"build", "built", "panicked"} => Works(call[c], held[c])

\* What Convert makes of the copy, and how it may fail to.
Made(x) ==
  /\ x.pc = "built" => /\ x.qr = Convert(x.text, x.amount, Charged(x.fee))
                       /\ Valid(x.text) /\ ~Panics[x.text] /\ Charged(x.fee).type # "other"
  /\ x.pc = "panicked" => Panics[x.text] /\ ~Panics[TrimSpace(x.text)]

QrMade == \A c \in Calls : Made(call[c])

Origin == StoredText /\ CopyHeld /\ QrMade

LEMMA InitOrigin == Init => Origin
  BY DEF Init, Origin, StoredText, CopyHeld, QrMade, Made

LEMMA AdminKeepsOrigin ==
  ASSUME Inv, Origin, NEW a \in Apps, CreateApp(a) \/ UpdateApp(a)
  PROVE  Origin'
<1>1. PICK t \in Texts : merchant' = [merchant EXCEPT ![a] = t] /\ call' = call
  BY DEF CreateApp, UpdateApp
<1>2. StoredText'
  BY <1>1 DEF Inv, Shape, Origin, StoredText
<1>3. QrMade'
  BY <1>1 DEF Origin, QrMade
<1>4. CopyHeld'
  <2>1. CASE CreateApp(a)
    BY <1>1, <2>1 DEF CreateApp, Origin, CopyHeld
  <2>2. CASE UpdateApp(a)
    <3>1. PICK u : held' = [c \in Calls |->
            IF call[c].pc = "build" /\ call[c].app = a THEN held[c] \union {u} ELSE held[c]]
      BY <2>2 DEF UpdateApp
    <3>2. \A c \in Calls : held[c] \subseteq held'[c]
      BY <3>1
    <3>3. held' = [c \in Calls |-> held'[c]]
      BY <3>1
    <3>4. \A c \in Calls : Works(call[c], held[c]) => Works(call[c], held'[c])
      BY <3>2 DEF Works
    <3> QED BY <1>1, <3>3, <3>4 DEF Origin, CopyHeld
  <2> QED BY <2>1, <2>2
<1> QED
  BY <1>2, <1>3, <1>4 DEF Origin

LEMMA BeginKeepsOrigin ==
  ASSUME Inv, Origin, NEW c \in Calls, CreateBegin(c)
  PROVE  Origin'
<1>1. PICK a \in Apps, amount \in Amounts, fee \in Fees :
        /\ merchant[a] # None /\ merchant' = merchant
        /\ call' = [call EXCEPT ![c] = [pc |-> "build", app |-> a, text |-> merchant[a],
                                        amount |-> amount, fee |-> fee, qr |-> None]]
        /\ held' = [held EXCEPT ![c] = {merchant[a]}]
  BY DEF CreateBegin
<1>2. merchant[a] \in Texts
  BY <1>1 DEF Origin, StoredText
<1>3. StoredText'
  BY <1>1 DEF Origin, StoredText
<1>4. \A d \in Calls : d # c => call'[d] = call[d] /\ held'[d] = held[d]
  BY <1>1 DEF Inv, Shape, Origin, CopyHeld
<1>5. /\ call'[c] = [pc |-> "build", app |-> a, text |-> merchant[a],
                     amount |-> amount, fee |-> fee, qr |-> None]
      /\ held'[c] = {merchant[a]} /\ held' = [d \in Calls |-> held'[d]]
  BY <1>1 DEF Inv, Shape, Origin, CopyHeld
<1>6. Works(call'[c], held'[c]) /\ Made(call'[c])
  BY <1>2, <1>5 DEF Works, Made
<1>7. CopyHeld' /\ QrMade'
  BY <1>4, <1>5, <1>6 DEF Origin, CopyHeld, QrMade
<1> QED
  BY <1>3, <1>7 DEF Origin

LEMMA BuildKeepsOrigin ==
  ASSUME Inv, Origin, NEW c \in Calls, CreateBuild(c)
  PROVE  Origin'
<1> DEFINE x == call[c]
           fee == Charged(x.fee)
           outcome == Outcome(x.text, fee)
           qr == IF outcome = "built" THEN Convert(x.text, x.amount, fee) ELSE None
<1>1. x.pc = "build" /\ merchant' = merchant /\ held' = held
  BY DEF CreateBuild
<1>2. call' = [call EXCEPT ![c].pc = outcome, ![c].qr = qr]
  BY DEF CreateBuild
<1>3. Works(x, held[c]) /\ Valid(x.text)
  BY <1>1 DEF Origin, CopyHeld, Inv, CopyValid
<1>4. outcome = "panicked" => Panics[x.text] /\ ~Panics[TrimSpace(x.text)]
  <2>1. ~Panics[TrimSpace(x.text)]
    BY <1>3 DEF Valid
  <2> QED BY <1>3, <2>1 DEF Outcome, ValidatePanics
<1>5. outcome = "built" => /\ qr = Convert(x.text, x.amount, fee)
                           /\ Valid(x.text) /\ ~Panics[x.text] /\ fee.type # "other"
  BY <1>3 DEF Outcome
<1> HIDE DEF outcome, qr
<1>6. \A d \in Calls : d # c => call'[d] = call[d]
  BY <1>2 DEF Inv, Shape
<1>7. /\ call'[c].pc = outcome /\ call'[c].qr = qr
      /\ call'[c].text = x.text /\ call'[c].amount = x.amount /\ call'[c].fee = x.fee
  <2>1. PICK o, q : o = outcome /\ q = qr
    OBVIOUS
  <2>2. call' = [call EXCEPT ![c].pc = o, ![c].qr = q]
    BY <1>2, <2>1, Zenon
  <2>3. call'[c] = [pc |-> o, app |-> x.app, text |-> x.text,
                    amount |-> x.amount, fee |-> x.fee, qr |-> q]
    <3>1. PICK p, a, t, m, f, r :
            call[c] = [pc |-> p, app |-> a, text |-> t, amount |-> m, fee |-> f, qr |-> r]
      BY DEF Inv, Shape
    <3>2. c \in DOMAIN call
      BY DEF Inv, Shape
    <3>3. call'[c] = [[call[c] EXCEPT !.pc = o] EXCEPT !.qr = q]
      BY <2>2, <3>2
    <3> QED BY <3>1, <3>3
  <2> QED BY <2>1, <2>3
<1>8. Works(call'[c], held'[c])
  BY <1>1, <1>3, <1>7 DEF Works
<1>9. Made(call'[c])
  BY <1>4, <1>5, <1>7, Zenon DEF Made
<1>10. StoredText'
  BY <1>1 DEF Origin, StoredText
<1>11. CopyHeld' /\ QrMade'
  BY <1>1, <1>6, <1>8, <1>9 DEF Origin, CopyHeld, QrMade
<1> QED
  BY <1>10, <1>11 DEF Origin

LEMMA OriginHolds == Spec => [](Inv /\ Origin)
<1>1. Inv /\ Origin /\ [Next]_vars => (Inv /\ Origin)'
  <2> SUFFICES ASSUME Inv, Origin, [Next]_vars PROVE Inv' /\ Origin'
    OBVIOUS
  <2>1. CASE UNCHANGED vars
    BY <2>1 DEF vars, Inv, Shape, StoredValid, CopyValid, Origin, StoredText, CopyHeld, QrMade
  <2>2. CASE Next
    <3>1. ASSUME NEW a \in Apps, CreateApp(a) \/ UpdateApp(a) PROVE Inv' /\ Origin'
      BY <3>1, AdminKeeps, AdminKeepsOrigin
    <3>2. ASSUME NEW c \in Calls, CreateBegin(c) PROVE Inv' /\ Origin'
      BY <3>2, BeginKeeps, BeginKeepsOrigin
    <3>3. ASSUME NEW c \in Calls, CreateBuild(c) PROVE Inv' /\ Origin'
      BY <3>3, BuildKeeps, BuildKeepsOrigin
    <3> QED BY <2>2, <3>1, <3>2, <3>3 DEF Next
  <2> QED BY <2>1, <2>2
<1> QED
  BY InitInv, InitOrigin, <1>1, PTL DEF Spec

(* Create, UpdateApp, Convert: the text of a payment names, element by     *)
(* element, a payee that its app had while the call ran, although the call *)
(* works on a copy of the app's row and the admin may replace the row's    *)
(* text at any moment.                                                     *)
THEOREM QrNamesThePayee == Spec => []QrKeepsPayee
<1>1. Inv /\ Origin => QrKeepsPayee
  <2> SUFFICES ASSUME Origin, NEW c \in Calls, call[c].pc = "built"
      PROVE  \E t \in held[c] : Payee(call[c].qr) = Payee(t)
    BY DEF QrKeepsPayee
  <2>1. PICK x : x = call[c]
    OBVIOUS
  <2>2. x.text \in held[c] /\ x.text \in Text /\ x.amount \in Amounts /\ x.fee \in Fees
    BY <2>1, MerchantAssumption DEF Origin, CopyHeld, Works
  <2>3. x.qr = Convert(x.text, x.amount, Charged(x.fee))
    BY <2>1 DEF Origin, QrMade, Made
  <2>4. Payee(Convert(x.text, x.amount, Charged(x.fee))) = Payee(x.text)
    BY <2>2, ConvertKeepsPayee
  <2> QED BY <2>1, <2>2, <2>3, <2>4, Zenon
<1> QED
  BY <1>1, OriginHolds, PTL

\* A payment whose text the reader cannot get through: it can, once the white
\* space around the text is gone.
PanicsInSpaceOnly ==
  \A c \in Calls : call[c].pc = "panicked" =>
    Panics[call[c].text] /\ ~Panics[TrimSpace(call[c].text)]

(* Validate, Convert: Validate reads a text without the white space around *)
(* it and Convert reads it as it is stored.  That difference is the only   *)
(* one by which an accepted text can make a payment panic.                 *)
THEOREM PanicsInSpace == Spec => []PanicsInSpaceOnly
<1>1. Inv /\ Origin => PanicsInSpaceOnly
  BY DEF Origin, QrMade, Made, PanicsInSpaceOnly
<1> QED
  BY <1>1, OriginHolds, PTL

(* ParseTLV, Validate: where white space around a text does not hide from  *)
(* Validate what the reader cannot get through, which holds of every text  *)
(* without such space, no payment panics over its merchant's text.         *)
THEOREM PaymentsDoNotPanic ==
  ASSUME \A t \in Texts : Panics[t] => Panics[TrimSpace(t)]
  PROVE  Spec => []NeverPanics
<1>1. Inv /\ Origin => NeverPanics
  BY DEF Origin, CopyHeld, Works, QrMade, Made, NeverPanics
<1> QED
  BY <1>1, OriginHolds, PTL

-----------------------------------------------------------------------------
(* What the text of a payment asks for                                     *)

LEMMA PaddedDiffer ==
  /\ Padded(1) # Padded(2) /\ Padded(1) # Padded(3) /\ Padded(2) # Padded(3)
  /\ Padded(1) # <<>> /\ Padded(2) # <<>> /\ Padded(3) # <<>>
<1>1. 1 \in 0 .. 99 /\ 2 \in 0 .. 99 /\ 3 \in 0 .. 99 /\ 1 # 2 /\ 1 # 3 /\ 2 # 3 /\ 2 # 0
  OBVIOUS
<1>2. \A n \in 0 .. 99 : Len(Padded(n)) = 2 /\ IntOf(Padded(n)) = n
  BY PaddedReads
<1>3. Len(<<>>) = 0
  OBVIOUS
<1> QED
  BY <1>1, <1>2, <1>3, Zenon

\* From 1e+06 on, %g does not write plain digits.
InDigits(fee) == fee.type \in {"fixed", "percentage"} => fee.value < 1000000

LEMMA DigitsAsTheyAre ==
  ASSUME NEW fee, InDigits(fee), fee.type \in {"fixed", "percentage"}
  PROVE  General(fee.value) = Decimal[fee.value]
  BY SMT DEF InDigits, General

\* What QrPays asks of the fields of a text.
Fields(d, amount, fee) == d.method = "dynamic" /\ d.amount = Decimal[amount] /\ TipIs(d, fee)

\* What Parse makes of what is shown.
LEMMA ParseAsks ==
  ASSUME NEW qr, NEW amount, NEW fee, Chargeable(amount, fee), InDigits(fee),
         Shows(ParseTLV[qr], amount, fee)
  PROVE  Fields(Parse(qr), amount, fee)
<1>0. fee.type \in {"none", "fixed", "percentage"}
  BY Zenon DEF Chargeable
<1>1. PICK one, two, three :
        /\ one = Padded(1) /\ two = Padded(2) /\ three = Padded(3)
        /\ one # two /\ one # three /\ two # three
        /\ one # <<>> /\ two # <<>> /\ three # <<>>
  BY PaddedDiffer
<1>2. PICK v1, v54, v55, v56, v57 :
        /\ v1 = Find(ParseTLV[qr], 1) /\ v54 = Find(ParseTLV[qr], 54) /\ v55 = Find(ParseTLV[qr], 55)
        /\ v56 = Find(ParseTLV[qr], 56) /\ v57 = Find(ParseTLV[qr], 57)
  OBVIOUS
<1>3. PICK acc : Parse(qr) =
        [method |-> IF v1 = Padded(12) THEN "dynamic" ELSE "static",
         amount |-> v54,
         tip |-> CASE v55 = one -> "prompt"
                   [] v55 = two -> "fixed"
                   [] v55 = three -> "percentage"
                   [] OTHER -> "none",
         fixed |-> v56, percentage |-> v57, accounts |-> acc]
  BY <1>1, <1>2, Zenon DEF Parse
<1>4. /\ v1 = Padded(12) /\ v54 = Decimal[amount]
      /\ v55 = CASE fee.type = "none" -> <<>> [] fee.type = "fixed" -> two [] OTHER -> three
      /\ v56 = IF fee.type = "fixed" THEN General(fee.value) ELSE <<>>
      /\ v57 = IF fee.type = "percentage" THEN General(fee.value) ELSE <<>>
  BY <1>1, <1>2, Zenon DEF Shows
<1>5. PICK g : /\ fee.type \in {"fixed", "percentage"} => g = General(fee.value)
               /\ fee.type \in {"fixed", "percentage"} => g = Decimal[fee.value]
  BY DigitsAsTheyAre
<1>6. Parse(qr).method = "dynamic" /\ Parse(qr).amount = Decimal[amount]
  BY <1>3, <1>4
<1>7. Parse(qr).tip = fee.type
  BY <1>0, <1>1, <1>3, <1>4
<1>8. Parse(qr).fixed = IF fee.type = "fixed" THEN Decimal[fee.value] ELSE <<>>
  BY <1>0, <1>3, <1>4, <1>5
<1>9. Parse(qr).percentage = IF fee.type = "percentage" THEN Decimal[fee.value] ELSE <<>>
  BY <1>0, <1>3, <1>4, <1>5
<1> QED
  BY <1>6, <1>7, <1>8, <1>9, Zenon DEF Fields, TipIs

LEMMA OnceCounts ==
  ASSUME NEW es \in Elements, NEW n
  PROVE  Once(es, n) <=> Len(Only(es, Tag(n))) <= 1
<1>1. Cardinality({i \in DOMAIN es : es[i].tag = Tag(n)}) = Len(Only(es, Tag(n)))
  BY CountOnly
<1> QED
  BY <1>1, Zenon DEF Once

(* Create, Validate, Convert: the text of every payment is valid again and *)
(* asks for the amount and the fee of its call, each once and in plain     *)
(* digits, whatever amount and fee the merchant's text had, where the      *)
(* texts that Validate accepts have one method each and no white space     *)
(* around them that the reader takes for an element, and no fee is so      *)
(* large that %g writes it with an exponent.                               *)
THEOREM PaymentsAskTheirAmount ==
  ASSUME \A t \in Texts : Valid(t) => ParseTLV[t] = ParseTLV[TrimSpace(t)] /\ Once(ParseTLV[t], 1),
         \A fee \in Fees : InDigits(fee)
  PROVE  Spec => []QrPays
<1>1. Inv /\ Origin => QrPays
  <2> SUFFICES ASSUME Origin, NEW c \in Calls, call[c].pc = "built"
      PROVE  LET d == Parse(call[c].qr) IN
             /\ Valid(call[c].qr)
             /\ d.method = "dynamic"
             /\ d.amount = Decimal[call[c].amount]
             /\ TipIs(d, Charged(call[c].fee))
             /\ \A n \in {1, 54, 55, 56, 57, 63} : Once(ParseTLV[call[c].qr], n)
    BY Zenon DEF QrPays
  <2>1. PICK x : x = call[c]
    OBVIOUS
  <2>2. x.text \in Texts /\ x.text \in Text /\ x.amount \in Amounts /\ x.fee \in Fees
    BY <2>1, MerchantAssumption DEF Origin, CopyHeld, Works
  <2>3. /\ x.qr = Convert(x.text, x.amount, Charged(x.fee))
        /\ Valid(x.text) /\ ~Panics[x.text] /\ Charged(x.fee).type # "other"
    BY <2>1 DEF Origin, QrMade, Made
  <2>4. PICK fee : fee = Charged(x.fee) /\ Chargeable(x.amount, fee) /\ InDigits(fee)
    <3>1. Fitting(x.amount, Charged(x.fee))
      BY <2>2, ChargedFits
    <3>2. Charged(x.fee).type \in {"none", "fixed", "percentage"}
      BY <2>2, <2>3, MerchantAssumption DEF Fee, Charged, NoFee
    <3>3. InDigits(Charged(x.fee))
      <4>1. InDigits(x.fee)
        BY <2>2
      <4>2. InDigits(NoFee)
        BY DEF InDigits, NoFee
      <4> QED BY <4>1, <4>2, Zenon DEF Charged
    <3> QED BY <3>1, <3>2, <3>3, Zenon DEF Chargeable
  <2>5. PICK text, amount, qr :
          /\ text \in Text /\ text = x.text /\ amount = x.amount /\ qr = x.qr
          /\ Clean(text) /\ Once(ParseTLV[text], 1) /\ Chargeable(amount, fee)
          /\ qr = Convert(text, amount, fee)
    <3>1. Clean(x.text) /\ Once(ParseTLV[x.text], 1)
      BY <2>2, <2>3, Zenon DEF Clean
    <3> QED BY <2>2, <2>3, <2>4, <3>1, Zenon
  <2>6. PICK es \in Elements : es = ParseTLV[qr] /\ Valid(qr)
    <3>1. Valid(qr) /\ Converts(text, amount, fee, ParseTLV[qr])
      BY <2>5, CleanConverts, ZenonT(60)
    <3> QED BY <3>1, Zenon DEF Converts
  <2>7. Asks(text, amount, fee, es)
    <3>1. Clean(text) /\ Chargeable(amount, fee)
      BY <2>5, Zenon
    <3>2. Asks(text, amount, fee, ParseTLV[Convert(text, amount, fee)])
      BY <3>1, CleanAsks, Zenon
    <3> QED BY <2>5, <2>6, <3>2, Zenon
  <2>8. Fields(Parse(qr), amount, fee)
    <3>1. Shows(ParseTLV[qr], amount, fee)
      BY <2>6, <2>7, Zenon DEF Asks
    <3>2. Chargeable(amount, fee) /\ InDigits(fee)
      BY <2>4, <2>5, Zenon
    <3> QED BY <3>1, <3>2, ParseAsks, Zenon
  <2>9. Once(es, 1)
    <3>1. ParseTLV[text] \in Elements
      BY <2>5, ParseSound, SoundSeq, Zenon
    <3> QED BY <2>5, <2>7, <3>1, OnceCounts, Zenon DEF Asks
  <2>10. \A n \in {54, 55, 56, 57, 63} : Once(es, n)
    BY <2>7, OnceCounts DEF Asks
  <2>11. \A n \in {1, 54, 55, 56, 57, 63} : Once(es, n)
    BY <2>9, <2>10
  <2> QED BY <2>1, <2>4, <2>5, <2>6, <2>8, <2>11, Zenon DEF Fields
<1> QED
  BY <1>1, OriginHolds, PTL

-----------------------------------------------------------------------------
(* The checksum                                                            *)

(* Convert, CalculateCRC16, upperHex4: the four bytes at the end of every  *)
(* payment's text are the hexadecimal digits of the remainder of all that  *)
(* stands before them, whatever text, amount and fee it was made of.       *)
THEOREM ChecksumIsRemainder == Spec => []CrcIsRemainder
<1>1. Inv /\ Origin => CrcIsRemainder
  <2> SUFFICES ASSUME Origin, NEW c \in Calls, call[c].pc = "built"
      PROVE  LET qr == call[c].qr
                 n == Len(qr)
             IN /\ n >= 4 /\ \A k \in n - 3 .. n : qr[k] \in HexByte
                /\ FromHex(SubSeq(qr, n - 3, n)) = Remainder(SubSeq(qr, 1, n - 4))
    BY Zenon DEF CrcIsRemainder
  <2>1. PICK x : x = call[c]
    OBVIOUS
  <2>2. x.text \in Text /\ x.amount \in Amounts /\ x.fee \in Fees
    BY <2>1, MerchantAssumption DEF Origin, CopyHeld, Works
  <2>3. x.qr = Convert(x.text, x.amount, Charged(x.fee))
    BY <2>1 DEF Origin, QrMade, Made
  <2>4. PICK r \in Seq(Sound) : x.qr = Sealed(r)
    <3>1. Fitting(x.amount, Charged(x.fee))
      BY <2>2, ChargedFits
    <3>2. \E r \in Seq(Sound) : Convert(x.text, x.amount, Charged(x.fee)) = Sealed(r)
      BY <2>2, <3>1, ConvertWrites
    <3> QED BY <2>3, <3>2, Zenon
  <2>5. PICK qr : qr = call[c].qr /\ qr = Sealed(r)
    BY <2>1, <2>4, Zenon
  <2>6. Len(qr) = Len(BuildTLV[r]) + 8 /\ \A k \in Len(qr) - 3 .. Len(qr) : qr[k] \in HexByte
    BY <2>5, SealedChecks, Zenon
  <2>7. Len(qr) >= 4
    <3>1. Len(BuildTLV[r]) \in Nat
      BY SoundSeq, BuildType, TextByte
    <3> QED BY <2>6, <3>1
  <2>8. FromHex(SubSeq(qr, Len(qr) - 3, Len(qr))) = Remainder(SubSeq(qr, 1, Len(qr) - 4))
    BY <2>5, SealedRemainder, Zenon
  <2> QED BY <2>5, <2>6, <2>7, <2>8, Zenon
<1> QED
  BY <1>1, OriginHolds, PTL
=============================================================================
