-------------------------------- MODULE Fixed8 --------------------------------
(***************************************************************************)
(* Fixed8::parse, the risk service's conversion of a decimal string to a    *)
(* 64-bit fixed-point number, one character per step as in its loop, and    *)
(* Fixed8::fromWhole.  The number of decimals (8) and the largest int64 are *)
(* parameters; intermediate values are the code's __int128, wide enough for *)
(* every value the loop lets pass.                                          *)
(***************************************************************************)
EXTENDS Integers, Sequences, SequencesExt

CONSTANTS Digits,    \* decimal digits that occur in texts
          Decimals,  \* digits after the point: 8 in the code
          MaxInt,    \* numeric_limits<int64_t>::max()
          MaxLength  \* bound: length of a text

\* What a module that instantiates this one assumes of the constants.
Fixed8Constants ==
  /\ Digits \subseteq 0..9
  /\ Decimals \in Nat \ {0} /\ MaxInt \in Nat /\ MaxLength \in Nat

\* A digit is its value; other characters get codes above the digits, and Other
\* stands for all that are no part of a number.
Plus == 10
Minus == 11
Dot == 12
Other == 13
Chars == Digits \cup {Plus, Minus, Dot, Other}
Texts == BoundedSeq(Chars, MaxLength)

MinInt   == -(MaxInt + 1)
\* Ten to the power of n.
Power(n) == LET p[k \in 0..n] == IF k = 0 THEN 1 ELSE 10 * p[k - 1] IN p[n]
SCALE    == Power(Decimals)
Fits(n)  == n \in MinInt..MaxInt
Nullopt  == [ok |-> FALSE, raw |-> 0]
Some(n)  == [ok |-> TRUE, raw |-> n]

VARIABLES text,            \* the argument
          pc, index,       \* control
          negative, whole, fraction, fractionScale,
          hasWholeDigit, decimalSeen, fractionDigits,
          result

number == <<whole, fraction, fractionScale, hasWholeDigit, decimalSeen, fractionDigits>>
vars   == <<text, pc, index, negative, number, result>>

\* The state in which the function is entered.
Enter ==
  /\ pc = "sign" /\ index = 1
  /\ negative = FALSE
  /\ whole = 0 /\ fraction = 0 /\ fractionScale = 10
  /\ hasWholeDigit = FALSE /\ decimalSeen = FALSE /\ fractionDigits = 0
  /\ result = Nullopt

Init == text \in Texts /\ Enter

Return(r) ==
  /\ pc' = "returned"
  /\ result' = r
  /\ UNCHANGED <<text, index, negative, number>>

Char == text[index]

\* Nothing to read, before or after the sign.
RefuseEmpty ==
  /\ pc = "sign"
  /\ \/ text = << >>
     \/ Len(text) = 1 /\ Char \in {Plus, Minus}
  /\ Return(Nullopt)

ReadSign ==
  /\ pc = "sign" /\ text # << >> /\ (Char \in {Plus, Minus} => Len(text) > 1)
  /\ negative' = (Char = Minus)
  /\ index' = IF Char \in {Plus, Minus} THEN 2 ELSE 1
  /\ pc' = "loop"
  /\ UNCHANGED <<text, number, result>>

\* A second point, or no digit.
RefuseCharacter ==
  /\ pc = "loop" /\ index <= Len(text)
  /\ \/ Char = Dot /\ decimalSeen
     \/ Char \in {Plus, Minus, Other}
  /\ Return(Nullopt)

ReadPoint ==
  /\ pc = "loop" /\ index <= Len(text) /\ Char = Dot /\ ~ decimalSeen
  /\ decimalSeen' = TRUE
  /\ index' = index + 1
  /\ UNCHANGED <<text, pc, negative, whole, fraction, fractionScale, hasWholeDigit,
                 fractionDigits, result>>

\* Mutant: the largest whole part is left out.
MaximumWholeLess == MaxInt \div SCALE - 1

\* The largest whole part the loop goes on with.
MaximumWhole == MaxInt \div SCALE + 1

ReadWholeDigit ==
  /\ pc = "loop" /\ index <= Len(text) /\ Char \in Digits /\ ~ decimalSeen
  /\ LET next == whole * 10 + Char IN
     IF next > MaximumWhole
     THEN Return(Nullopt)
     ELSE /\ whole' = next
          /\ hasWholeDigit' = TRUE
          /\ index' = index + 1
          /\ UNCHANGED <<text, pc, negative, fraction, fractionScale, decimalSeen,
                         fractionDigits, result>>

\* What a digit at the current decimal place counts.
PlaceValue == SCALE \div fractionScale

TooPrecise == fractionDigits >= Decimals

ReadFractionDigit ==
  /\ pc = "loop" /\ index <= Len(text) /\ Char \in Digits /\ decimalSeen
  /\ IF TooPrecise
     THEN Return(Nullopt)
     ELSE /\ fraction' = fraction + Char * PlaceValue
          /\ fractionScale' = fractionScale * 10
          /\ fractionDigits' = fractionDigits + 1
          /\ index' = index + 1
          /\ UNCHANGED <<text, pc, negative, whole, hasWholeDigit, decimalSeen, result>>

\* The sign, then the range check of the cast.
Signed(magnitude) ==
  LET scaled == IF negative THEN - magnitude ELSE magnitude IN
  IF Fits(scaled) THEN Some(scaled) ELSE Nullopt

Finish ==
  /\ pc = "loop" /\ index > Len(text)
  /\ Return(IF hasWholeDigit THEN Signed(whole * SCALE + fraction) ELSE Nullopt)

Next ==
  \/ RefuseEmpty \/ ReadSign \/ RefuseCharacter \/ ReadPoint
  \/ ReadWholeDigit \/ ReadFractionDigit \/ Finish

Spec == Init /\ [][Next]_vars

\* fromWhole: a whole number (a limit of the configuration) in fixed point.
FromWhole(value) == IF Fits(value * SCALE) THEN Some(value * SCALE) ELSE Nullopt
-----------------------------------------------------------------------------
(* Properties. *)

\* Every variable has its type: fraction and fractionScale stay within int64_t.
TypeOK ==
  /\ text \in Seq(Chars) /\ Len(text) <= MaxLength
  /\ pc \in {"sign", "loop", "returned"} /\ index \in 1..MaxLength + 1
  /\ negative \in BOOLEAN /\ hasWholeDigit \in BOOLEAN /\ decimalSeen \in BOOLEAN
  /\ whole \in 0..MaximumWhole /\ fraction \in 0..SCALE - 1
  /\ fractionDigits \in 0..Decimals /\ fractionScale = Power(fractionDigits + 1)
  /\ result \in [ok : BOOLEAN, raw : MinInt..MaxInt]

\* The text without its sign.
Signs   == {Plus, Minus}
Body    == IF text # << >> /\ text[1] \in Signs THEN Tail(text) ELSE text

\* The position of the first point of b (one behind the end if there is none), the
\* value of its digits from i to j, and whether these are digits.
Point(b) == CHOOSE i \in 1..Len(b) + 1 :
              /\ i = Len(b) + 1 \/ b[i] = Dot
              /\ \A j \in 1..i - 1 : b[j] # Dot
Value(b, i, j)   == LET v[n \in i - 1..j] == IF n = i - 1 THEN 0 ELSE 10 * v[n - 1] + b[n] IN v[j]
AreDigits(b, i, j) == \A n \in i..j : b[n] \in Digits

\* A number: digits, then possibly a point and up to Decimals digits.
WellFormed(b) ==
  /\ Point(b) > 1 /\ Len(b) - Point(b) <= Decimals
  /\ AreDigits(b, 1, Point(b) - 1) /\ AreDigits(b, Point(b) + 1, Len(b))

\* What a well-formed body denotes, in units of 1 / SCALE, and with its sign.
Magnitude(b) ==
  LET decimals == IF Point(b) > Len(b) THEN 0 ELSE Len(b) - Point(b)
  IN Value(b, 1, Point(b) - 1) * SCALE
     + (IF decimals = 0 THEN 0 ELSE Value(b, Point(b) + 1, Len(b)) * Power(Decimals - decimals))
Denoted == IF text[1] = Minus THEN - Magnitude(Body) ELSE Magnitude(Body)

\* A whole number, as the text of one without a point.
Whole == WellFormed(Body) /\ Point(Body) > Len(Body)

\* parse accepts exactly the well-formed texts whose value is an int64, the
\* smallest one included, and returns that value exactly: the cut-off of the
\* whole part in the loop never turns away a number the final check would take.
\* fromWhole agrees with it: a limit given as an integer and an order written as
\* text are compared in the same unit.
ParsesExactly == pc = "returned" =>
  /\ result = IF WellFormed(Body) /\ Fits(Denoted) THEN Some(Denoted) ELSE Nullopt
  /\ Whole /\ Fits(Denoted \div SCALE) => result = FromWhole(Denoted \div SCALE)

\* The characters of the body that the loop has behind it.
Read == IF text[1] \in Signs THEN index - 2 ELSE index - 1

\* What the loop has gathered from the first m characters of b, before a point and
\* behind one at d.
GatheredWhole(b, m) ==
  /\ AreDigits(b, 1, m) /\ whole = Value(b, 1, m) /\ (hasWholeDigit <=> m > 0)
  /\ fraction = 0 /\ fractionDigits = 0
GatheredFraction(b, m, d) ==
  /\ b[d] = Dot /\ AreDigits(b, 1, d - 1) /\ AreDigits(b, d + 1, m)
  /\ whole = Value(b, 1, d - 1) /\ (hasWholeDigit <=> d > 1)
  /\ fractionDigits = m - d /\ fractionDigits <= Decimals
  /\ fraction = Value(b, d + 1, m) * Power(Decimals - fractionDigits)
  /\ Value(b, d + 1, m) < Power(fractionDigits)

\* What every step relies on because of those before it.
IInv ==
  /\ pc = "sign" => index = 1 /\ ~ decimalSeen /\ whole = 0 /\ fraction = 0 /\ fractionDigits = 0
                    /\ ~ hasWholeDigit
  /\ pc = "loop" =>
       /\ text # << >> /\ (negative <=> text[1] = Minus)
       /\ Read \in 0..Len(Body)
       /\ Power(fractionDigits) * Power(Decimals - fractionDigits) = SCALE
       /\ ~ decimalSeen => GatheredWhole(Body, Read)
       /\ decimalSeen   => \E d \in 1..Read : GatheredFraction(Body, Read, d)
  /\ ParsesExactly
=============================================================================
