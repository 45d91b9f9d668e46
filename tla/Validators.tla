------------------------------ MODULE Validators ------------------------------
(***************************************************************************)
(* The checksum and structure validators of the PII recognizers            *)
(* (crates/pii/src/validators).                                            *)
(*                                                                         *)
(* A candidate is the text of a match as a sequence of numbers: a digit is *)
(* itself, a letter, whatever its case, is 10 for A up to 35 for Z.        *)
(* Separators are left out: the patterns allow them where the validators   *)
(* skip them.                                                              *)
(***************************************************************************)
EXTENDS Integers, Sequences, FiniteSets

Verdict(passes) == IF passes THEN "valid" ELSE "invalid"

IsDigit(c) == c < 10
IsLetter(c) == c >= 10
AllDigits(s) == \A i \in DOMAIN s : IsDigit(s[i])
LetterOrdinal(c) == c - 9

(* collect_digits, without its count. *)
DigitsOf(s) ==
  LET out[i \in 0..Len(s)] ==
        IF i = 0 THEN <<>> ELSE IF IsDigit(s[i]) THEN Append(out[i - 1], s[i]) ELSE out[i - 1]
  IN out[Len(s)]

Total(s) ==
  LET sum[i \in 0..Len(s)] == IF i = 0 THEN 0 ELSE sum[i - 1] + s[i]
  IN sum[Len(s)]

(* Digits with cyclic weights; products summed as they are or by their     *)
(* digits.                                                                 *)
DigitSum(n) == n \div 10 + (n % 10)
Weight(w, i) == w[((i - 1) % Len(w)) + 1]
Weighted(s, w) == Total([i \in DOMAIN s |-> s[i] * Weight(w, i)])
CrossWeighted(s, w) == Total([i \in DOMAIN s |-> DigitSum(s[i] * Weight(w, i))])

-----------------------------------------------------------------------------
(* The Luhn family. *)

(* Mutant: a doubled digit is not reduced. *)
DoubledPlain(n) == 2 * n
Doubled(n) == IF 2 * n > 9 THEN 2 * n - 9 ELSE 2 * n

(* Every second digit from the right is doubled. *)
LuhnPasses(s) ==
  Total([i \in DOMAIN s |-> IF (Len(s) - i) % 2 = 0 THEN s[i] ELSE Doubled(s[i])]) % 10 = 0

Luhn(c) == LET d == DigitsOf(c) IN Verdict(Len(d) \in 12..19 /\ LuhnPasses(d))
LuhnSinCan(c) == LET d == DigitsOf(c) IN Verdict(Len(d) = 9 /\ LuhnPasses(d))

NpiPrefix == <<8, 0, 8, 4, 0>>
Degenerate(d) == \A i \in 1..9 : d[i] = d[1]
NpiUsa(c) ==
  LET d == DigitsOf(c) IN Verdict(Len(d) = 10 /\ ~Degenerate(d) /\ LuhnPasses(NpiPrefix \o d))

-----------------------------------------------------------------------------
(* Weighted sums. *)

AbaRoutingUsa(c) ==
  LET d == DigitsOf(c) IN Verdict(Len(d) = 9 /\ Weighted(d, <<3, 7, 1>>) % 10 = 0)

(* The remainder 1 would need the check digit 10: no such number exists. *)
Mod11NhsGbr(c) ==
  LET d == DigitsOf(c)
      rest == Weighted(SubSeq(d, 1, 9), <<10, 9, 8, 7, 6, 5, 4, 3, 2>>) % 11
  IN Verdict(Len(d) = 10 /\ rest # 1 /\ d[10] = (11 - rest) % 11)

MedicalLicenseUsaDea(c) ==
  LET d == DigitsOf(SubSeq(c, 3, Len(c)))
  IN Verdict(Len(d) = 7 /\ (2 * (d[2] + d[4] + d[6]) + d[1] + d[3] + d[5]) % 10 = d[7])

LifetimePhysicianNumberDeu(c) ==
  LET d == DigitsOf(c)
  IN Verdict(Len(d) = 9 /\ d[7] = (10 - (Weighted(SubSeq(d, 1, 6), <<4, 9>>) % 10)) % 10)

HealthInsuranceDeu(c) ==
  LET ordinal == LetterOrdinal(c[1])
      body == <<ordinal \div 10, ordinal % 10>> \o SubSeq(c, 2, 9)
  IN Verdict(Len(c) = 10 /\ IsLetter(c[1]) /\ AllDigits(SubSeq(c, 2, 10))
             /\ CrossWeighted(body, <<1, 2>>) % 10 = c[10])

BirthDay(c) == 10 * c[3] + c[4]
BirthMonth(c) == 10 * c[5] + c[6]
SocialSecurityDeu(c) ==
  LET ordinal == LetterOrdinal(c[9])
      body == SubSeq(c, 1, 8) \o <<ordinal \div 10, ordinal % 10>> \o SubSeq(c, 10, 11)
  IN Verdict(Len(c) = 12 /\ AllDigits(SubSeq(c, 1, 8) \o SubSeq(c, 10, 12)) /\ IsLetter(c[9])
             /\ BirthDay(c) \in 1..31 \cup 51..81 /\ BirthMonth(c) \in 1..12
             /\ CrossWeighted(body, <<2, 1, 2, 5, 7, 1, 2, 1, 2, 1, 2, 1>>) % 10 = c[12])

-----------------------------------------------------------------------------
(* The machine-readable zone. *)

IcaoCheck(c) == IsDigit(c[9]) /\ Weighted(SubSeq(c, 1, 8), <<7, 3, 1>>) % 10 = c[9]
Ambiguous == {10, 11, 13, 14, 18, 24, 26, 28, 30}   \* A B D E I O Q S U
IcaoMrz9(c) == Verdict(Len(c) = 9 /\ (\A i \in 1..8 : c[i] \notin Ambiguous) /\ IcaoCheck(c))

(* The format before 2010, a T and eight digits, has no check digit. *)
LegacyIdCard(c) == c[1] = 29 /\ AllDigits(SubSeq(c, 2, 9))
IdCardDeu(c) ==
  IF Len(c) = 9 /\ LegacyIdCard(c) THEN "unknown" ELSE Verdict(Len(c) = 9 /\ IcaoCheck(c))

-----------------------------------------------------------------------------
(* Remainders carried from digit to digit. *)

(* mod97: a letter stands for the two digits of its value. *)
Mod97(s) ==
  LET rest[i \in 0..Len(s)] ==
        IF i = 0 THEN 0
        ELSE (rest[i - 1] * (IF IsDigit(s[i]) THEN 10 ELSE 100) + s[i]) % 97
  IN rest[Len(s)]
Iban(c) == Verdict(Len(c) \in 15..34 /\ Mod97(SubSeq(c, 5, Len(c)) \o SubSeq(c, 1, 4)) = 1)

(* ISO 7064 mod 11, 10. *)
IsoProduct(d) ==
  LET product[i \in 0..10] ==
        IF i = 0 THEN 10
        ELSE LET total == (d[i] + product[i - 1]) % 10
             IN (2 * (IF total = 0 THEN 10 ELSE total)) % 11
  IN product[10]
MoreThanThrice(d) == \E n \in 0..9 : Cardinality({i \in 1..10 : d[i] = n}) > 3
TaxIdDeu(c) ==
  LET d == DigitsOf(c)
  IN Verdict(Len(d) = 11 /\ d[1] # 0 /\ ~MoreThanThrice(d) /\ d[11] = (11 - IsoProduct(d)) % 10)

-----------------------------------------------------------------------------
(* Reserved values. *)

SsnUsa(c) ==
  LET d == DigitsOf(c)
      area == 100 * d[1] + 10 * d[2] + d[3]
  IN Verdict(Len(d) = 9 /\ area \notin {0, 666} /\ area < 900
             /\ SubSeq(d, 4, 5) # <<0, 0>> /\ SubSeq(d, 6, 9) # <<0, 0, 0, 0>>)

EinPrefixes == 1..6 \cup 10..16 \cup 20..27 \cup 30..48 \cup 50..68 \cup 71..77 \cup 80..88 \cup 90..95 \cup {98, 99}
EinPrefixUsa(c) ==
  LET d == DigitsOf(c) IN Verdict(Len(d) = 9 /\ 10 * d[1] + d[2] \in EinPrefixes)

MedicalPracticeIdDeu(c) ==
  LET d == DigitsOf(c)
  IN IF Len(d) = 9 /\ \E i \in 1..9 : d[i] # 0 THEN "unknown" ELSE "invalid"
=============================================================================
