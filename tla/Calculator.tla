----------------------------- MODULE Calculator -----------------------------
(***************************************************************************)
(* The calculator of both frontends: a fiat, a bitcoin and a satoshi field *)
(* that rewrite each other.  The conversions are the integer ones of       *)
(* frontend/shared, the two users of them the form of the native screen    *)
(* host and the three signals of the web page, which are given the same    *)
(* keystrokes.  Amounts are scaled: Decimals digits after the point of a   *)
(* bitcoin stand for eight, Cap for 21000000.                              *)
(***************************************************************************)
EXTENDS Integers, Sequences, SequencesExt

CONSTANTS Decimals,    \* fraction digits of a bitcoin
          Cap,         \* BTC_SUPPLY_CAP
          MaxSats,     \* the largest u64
          MaxFraction, \* fraction digits a fiat amount may have
          UsdPerBtc, YenPerBtc,
          BtcTexts, FiatTexts, SatsTexts,   \* what a user types
          MaxEdits     \* bound on the number of edits

VARIABLES form,    \* ScreenHost.calculator
          web,     \* the signals of the web page
          edits,   \* edits so far
          clean    \* every edit was a number so far

vars == <<form, web, edits, clean>>

None       == -1
SatsPerBtc == 10 ^ Decimals
CapSats    == Cap * SatsPerBtc

\* A typed number: digits before and after the point (None and <<>> when
\* there are none), white space before it, a comma for the point.
Text(w, f)  == [w |-> w, f |-> f, pad |-> FALSE, comma |-> FALSE]
Empty       == Text(None, <<>>)
One         == Text(1, <<>>)
IsNumber(t) == ~t.comma /\ (t.w # None \/ t.f # <<>>)

Value(digits) == FoldLeft(LAMBDA a, d : 10 * a + d, 0, digits)
DigitsOf(n, len) == [i \in 1..len |-> (n \div 10 ^ (len - i)) % 10]
AtLeast0(n) == IF n < 0 THEN 0 ELSE n

RoundsDown(numer, denom) == numer \div denom

div_round_half_up(numer, denom) ==
  numer \div denom + IF 2 * (numer % denom) >= denom THEN 1 ELSE 0
-----------------------------------------------------------------------------
(* Bitcoin texts.                                                          *)

\* Digits past the eighth are dropped; a short fraction is padded with zeros.
frac_as_sats(f) == Value([i \in 1..Decimals |-> IF i <= Len(f) THEN f[i] ELSE 0])

btc_to_sats(t) ==
  LET sats == AtLeast0(t.w) * SatsPerBtc + frac_as_sats(t.f)
  IN  IF IsNumber(t) /\ sats <= MaxSats THEN sats ELSE None

sats_to_btc(sats) ==
  Text(sats \div SatsPerBtc, DigitsOf(sats % SatsPerBtc, Decimals))

truncate_btc_decimals(t) ==
  IF t.comma \/ Len(t.f) <= Decimals THEN t
  ELSE [t EXCEPT !.f = SubSeq(t.f, 1, Decimals)]

\* The cap itself is let through with its fraction.
OnlyAboveCap(t) == ~t.pad /\ ~t.comma /\ t.w > Cap

\* White space is not a digit: a padded text never reaches the cap.
reaches_cap(t) == ~t.pad /\ ~t.comma /\ t.w >= Cap

cap_btc_supply(t) == IF reaches_cap(t) THEN Text(Cap, <<>>) ELSE t

\* Satoshis are clamped once more here, so padded text is capped as well.
shows_warning_when_entering_21m_btc(t) ==
  LET sats == AtLeast0(btc_to_sats(cap_btc_supply(t)))
  IN  [warning |-> reaches_cap(t), sats |-> IF sats > CapSats THEN CapSats ELSE sats]

\* A nine becomes a zero and nothing is carried.
DropsCarry(digits, f) ==
  IF f = <<>> \/ f[1] < 5 \/ digits = <<>> THEN digits
  ELSE [digits EXCEPT ![Len(digits)] = (@ + 1) % 10]

\* Rounds the digits of a satoshi field by hand: nines turn to zero and carry.
strips_decimals_from_satoshis_input(digits, f) ==
  LET carries == {i \in DOMAIN digits : digits[i] # 9}
      stop    == CHOOSE i \in carries : \A j \in carries : j <= i
      whole   == IF digits = <<>> THEN <<0>> ELSE digits
  IN  IF f = <<>> \/ f[1] < 5 THEN whole
      ELSE IF digits = <<>> THEN <<1>>
      ELSE IF carries = {} THEN <<1>> \o [i \in DOMAIN digits |-> 0]
      ELSE [i \in DOMAIN digits |-> IF i < stop THEN digits[i]
                                    ELSE IF i = stop THEN digits[i] + 1 ELSE 0]
-----------------------------------------------------------------------------
(* Fiat texts: cents of a dollar, whole yen.                               *)

sats_to_usd_cents(sats) == div_round_half_up(sats * UsdPerBtc * 100, SatsPerBtc)
sats_to_yen(sats)       == div_round_half_up(sats * YenPerBtc, SatsPerBtc)

sats_fiat(code, sats) == IF code = "USD" THEN sats_to_usd_cents(sats) ELSE sats_to_yen(sats)

\* The text of the field: no grouping, and whole dollars without cents.
fiat_input_text(code, sats) ==
  LET n == sats_fiat(code, sats)
  IN  IF code = "JPY" THEN Text(n, <<>>)
      ELSE Text(n \div 100, IF n % 100 = 0 THEN <<>> ELSE DigitsOf(n % 100, 2))

parse_decimal_units(t) ==
  IF IsNumber(t) /\ Len(t.f) <= MaxFraction
  THEN AtLeast0(t.w) * 10 ^ Len(t.f) + Value(t.f) ELSE None

\* usd_to_btc_and_sats and jpy_to_btc_and_sats: None when the text is no number.
fiat_to_sats(code, t) ==
  LET units == parse_decimal_units(t)
      rate  == IF code = "USD" THEN UsdPerBtc ELSE YenPerBtc
      sats  == div_round_half_up(units * SatsPerBtc, rate * 10 ^ Len(t.f))
  IN  IF units = None \/ sats > MaxSats THEN None ELSE sats

decimal_comma_to_dot(t) == [t EXCEPT !.comma = FALSE]
-----------------------------------------------------------------------------
(* The form of frontend/shared/src/form.rs.                                *)

with_amounts(f, fiat, btc, sats) ==
  [f EXCEPT !.fiat = fiat, !.btc = btc, !.sats = sats, !.shown = sats_fiat(f.code, sats)]

\* The satoshis are those of the text before the cap.
CapsLate(f, t) ==
  LET sats == AtLeast0(btc_to_sats(truncate_btc_decimals(t)))
  IN  with_amounts(f, fiat_input_text(f.code, sats), cap_btc_supply(truncate_btc_decimals(t)), sats)

enter_btc(f, t) ==
  LET btc  == cap_btc_supply(truncate_btc_decimals(t))
      sats == AtLeast0(btc_to_sats(btc))
  IN  with_amounts(f, fiat_input_text(f.code, sats), btc, sats)

\* No cap here; the caller decides what a text that is no number does.
enter_fiat(f, t) ==
  LET dotted == decimal_comma_to_dot(t)
      sats   == fiat_to_sats(f.code, dotted)
  IN  [ok |-> sats # None,
       form |-> with_amounts(f, dotted, sats_to_btc(AtLeast0(sats)), AtLeast0(sats))]

loaded_calculator(code) ==
  enter_btc([code |-> code, fiat |-> Empty, btc |-> Empty, sats |-> 0, shown |-> 0], One)

\* The field of the other currency is what is converted.
ConvertsFiat(f, code) ==
  enter_fiat(loaded_calculator(code), f.fiat).form

\* Only the currency changes; the fields keep their texts.
KeepsFiatText(f, code) == [f EXCEPT !.code = code]

\* Switching loads the form of the currency and enters the bitcoin text again.
choose_calculator_fiat(f, code) == enter_btc(loaded_calculator(code), f.btc)

Fields(f) == [code |-> f.code, fiat |-> f.fiat, btc |-> f.btc, sats |-> f.sats]
-----------------------------------------------------------------------------
Init ==
  /\ form = loaded_calculator("USD")
  /\ web = [code |-> "USD", fiat |-> Empty, btc |-> Empty, sats |-> None]
  /\ edits = 0
  /\ clean = FALSE     \* the web page starts with empty fields

Edit == edits < MaxEdits /\ edits' = edits + 1

EnterBtc(t) ==
  /\ Edit
  /\ form' = enter_btc(form, t)
  /\ web' = Fields(enter_btc(loaded_calculator(web.code), t))
  /\ clean' = TRUE

\* A text that is no number leaves the native form and clears the web fields.
EnterFiat(t) ==
  LET native == enter_fiat(form, t)
      page   == enter_fiat(loaded_calculator(web.code), t)
  IN  /\ Edit
      /\ form' = IF native.ok THEN native.form ELSE form
      /\ web' = IF page.ok THEN Fields(page.form)
                ELSE [web EXCEPT !.fiat = t, !.btc = Empty, !.sats = None]
      /\ clean' = native.ok

\* A text that is no number leaves the native form and is zero on the web.
EnterSats(n) ==
  /\ Edit
  /\ form' = IF n = None THEN form ELSE enter_btc(form, sats_to_btc(n))
  /\ web' = Fields(enter_btc(loaded_calculator(web.code), sats_to_btc(AtLeast0(n))))
  /\ clean' = (n # None)

Switch(code) ==
  /\ Edit
  /\ form' = choose_calculator_fiat(form, code)
  /\ web' = Fields(enter_btc(loaded_calculator(code), web.btc))
  /\ UNCHANGED clean

Next ==
  \/ \E t \in BtcTexts : EnterBtc(t)
  \/ \E t \in FiatTexts : EnterFiat(t)
  \/ \E n \in SatsTexts : EnterSats(n)
  \/ \E code \in {"USD", "JPY"} : Switch(code)

Spec == Init /\ [][Next]_vars
-----------------------------------------------------------------------------
TypeOK ==
  /\ form.sats \in 0..MaxSats
  /\ web.sats \in -1..MaxSats
  /\ form.code = web.code
  /\ clean \in BOOLEAN

\* The satoshi field is what the bitcoin field says, on both frontends and
\* after any edits: the fiat field's rounding goes through whole satoshis
\* (enter_fiat, sats_to_btc).  A bitcoin text that is no number says zero.
FieldsAgree ==
  /\ form.sats = AtLeast0(btc_to_sats(form.btc))
  /\ web.sats # None => web.sats = AtLeast0(btc_to_sats(web.btc))

\* Typed bitcoin never exceeds the issuance cap: 21000000 and a fraction is
\* past it too (reaches_cap compares whole digits with >=).  Typed here means
\* without white space before it, which no cap applies to.
CappedAsTyped ==
  \A t \in BtcTexts \cup {form.btc} :
    ~t.pad => /\ enter_btc(form, t).sats <= CapSats
              /\ shows_warning_when_entering_21m_btc(t).sats = enter_btc(form, t).sats

\* enter_btc's comment: "Set the BTC field, cap it at 21000000".
BtcCapped == \A t \in BtcTexts : enter_btc(form, t).sats <= CapSats

\* Switching the currency keeps the amount: the text of the bitcoin field has
\* all the digits of the satoshis, so nothing is lost on the way through it,
\* unless a fiat amount beyond the cap is cut to it.
SwitchKeepsAmount ==
  \A code \in {"USD", "JPY"} :
    form.sats <= CapSats => choose_calculator_fiat(form, code).sats = form.sats

\* Entering the fiat text that is shown shows the same amount again: a cent
\* and a yen are worth several satoshis, so rounding there and back is stable
\* (sats_to_usd_cents, sats_to_yen, div_round_half_up).
ShownFiatIsStable ==
  LET again == enter_fiat(form, fiat_input_text(form.code, form.sats))
  IN  again.ok /\ again.form.shown = form.shown

\* The two frontends show the same fields after the same keystrokes, as long
\* as the last amount typed was a number: the native host keeps one form and
\* the web page starts from a loaded one at every keystroke.
FrontendsAgree == clean => Fields(form) = web

\* The satoshi field is rounded to the nearest whole satoshi, carries over any
\* run of nines included (strips_decimals_from_satoshis_input).
SatsRounded ==
  \A t \in BtcTexts :
    LET digits == IF t.w = None THEN <<>> ELSE DigitsOf(t.w, 2)
        up     == IF t.f # <<>> /\ t.f[1] >= 5 THEN 1 ELSE 0
    IN  Value(strips_decimals_from_satoshis_input(digits, t.f)) = AtLeast0(t.w) + up
=============================================================================
