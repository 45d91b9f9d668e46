----------------------------- MODULE Recognizers -----------------------------
(***************************************************************************)
(* The built-in PII recognizers (crates/pii/src/recognizers), and what the *)
(* analyzer makes of a text that one match covers whole: pattern,          *)
(* validator, boost by a keyword, floor (recognizers/mod.rs, context.rs,   *)
(* analyzer.rs).                                                           *)
(*                                                                         *)
(* A text is a run of digits and capital letters, which the patterns look  *)
(* into, or is written in a format of which only the name is kept: one     *)
(* with other characters or with capitals and small letters told apart,    *)
(* and one whose letters and digits a long alternation or table lists (an  *)
(* MBI, a UK postcode or plate). Scores are in hundredths. A word of a     *)
(* key, or of a text, is the entity whose keyword it is; keywords that are *)
(* no single word never equal one and are left out. So is the order of the *)
(* registry: it decides only which placeholder a text gets.                *)
(***************************************************************************)
EXTENDS Validators

Digit == 0..9
Letter == 10..35
Alnum == Digit \cup Letter
Rep(S, n) == [i \in 1..n |-> S]
Digits(lo, hi) == {Rep(Digit, n) : n \in lo..hi}
Lettered(n, lo, hi) == {Rep(Letter, n) \o Rep(Digit, k) : k \in lo..hi}

(* A text as a match of its whole: in what format, its digits and letters, *)
(* what a parser or a table says of it, and the words just before it.      *)
Run(chars) == [format |-> "run", chars |-> chars, sound |-> TRUE, near |-> {}]
Written(format, chars, sound) == [format |-> format, chars |-> chars, sound |-> sound, near |-> {}]

Pattern(score, forms) == [score |-> score, forms |-> forms, formats |-> {}]
Format(score, formats) == [score |-> score, forms |-> {}, formats |-> formats]
Matches(p, t) ==
  \/ t.format \in p.formats
  \/ t.format = "run" /\ \E f \in p.forms : Len(f) = Len(t.chars) /\ \A i \in DOMAIN f : t.chars[i] \in f[i]

(* Recognizer::new with its with_category, with_validator and with_context. *)
Recognizer(entity, category, validator, keywords, patterns) ==
  [entity |-> entity, category |-> category, validator |-> validator, keywords |-> keywords, patterns |-> patterns]
Plain(entity, category, patterns) == Recognizer(entity, category, "Noop", FALSE, patterns)
Supported(entity, category, patterns) == Recognizer(entity, category, "Noop", TRUE, patterns)
Checked(entity, category, validator, patterns) == Recognizer(entity, category, validator, TRUE, patterns)

-----------------------------------------------------------------------------
(* generic *)
email == Supported("EMAIL_ADDRESS", "personal", {Format(50, {"email"})})
date_of_birth == Supported("DATE_OF_BIRTH", "personal", {Format(5, {"iso date", "dmy date", "mdy date"})})
credit_card == Checked("CREDIT_CARD", "financial", "Luhn",
  {Pattern(30, {<<{1}>> \o Rep(Digit, n) : n \in 13..16} \cup {<<{3, 4, 6}>> \o Rep(Digit, n) : n \in 12..16}
               \cup {<<{5}, 0..5>> \o Rep(Digit, n) : n \in 11..15})})
iban == Checked("IBAN_CODE", "financial", "Iban",
  {Pattern(50, {Rep(Letter, 2) \o Rep(Digit, 2) \o Rep(Alnum, n) : n \in 11..30})})
cvv == Plain("CVV", "financial", {Pattern(30, Digits(3, 4))})
phone_number == Supported("PHONE_NUMBER", "contact",
  {Pattern(40, {<<{0}, {0}, 1..9>> \o Rep(Digit, n) : n \in 7..14}), Format(40, {"+ phone"})})
ip_address == Checked("IP_ADDRESS", "network", "Parsed", {Format(60, {"ipv4", "ipv6"})})
url == Supported("URL", "network", {Format(50, {"url"})})
mac_address == Supported("MAC_ADDRESS", "network", {Format(50, {"mac"})})
api_key_strong == Plain("API_KEY", "digital-identity",
  {Format(60, {"AWS access", "GitHub PAT", "Stripe live", "Google API", "OpenAI"})})
api_key_aws_secret == Plain("API_KEY", "digital-identity", {Format(30, {"AWS secret"})})
jwt_token == Recognizer("JWT_TOKEN", "digital-identity", "Parsed", FALSE, {Format(30, {"jwt"})})
private_key == Recognizer("PRIVATE_KEY", "digital-identity", "Parsed", FALSE, {Format(60, {"pem"})})
password_hash == Plain("PASSWORD_HASH", "digital-identity", {Format(70, {"modular crypt"})})
crypto == Checked("CRYPTO", "crypto", "Crypto", {Format(50, {"bitcoin", "ethereum"})})

(* usa *)
ssn_usa == Checked("US_SSN", "government", "SsnUsa", {Pattern(60, Digits(9, 9))})
routing_number_usa == Checked("ROUTING_NUMBER_US", "financial", "AbaRoutingUsa", {Pattern(40, Digits(9, 9))})
bank_account_usa == Supported("BANK_ACCOUNT_US", "financial", {Pattern(5, Digits(8, 17))})
itin_usa == Supported("ITIN", "government",
  {Pattern(50, {<<{9}, Digit, Digit>> \o g \o Rep(Digit, 4) :
                  g \in {<<{7}, Digit>>, <<{8}, 0..8>>, <<{9}, 0..2>>, <<{9}, 4..9>>}})})
tax_id_ein_usa == Recognizer("TAX_ID_EIN", "government", "EinPrefixUsa", FALSE, {Format(50, {"ein"})})
passport_usa == Supported("PASSPORT_US", "government", {Pattern(5, Digits(9, 9)), Pattern(10, Lettered(1, 8, 8))})
npi_usa == Checked("NPI_US", "government", "NpiUsa",
  {Pattern(10, {<<1..2>> \o Rep(Digit, 9)}), Format(40, {"npi separated"})})
mbi_usa == Supported("MBI_US", "government", {Format(30, {"mbi"}), Format(50, {"mbi dashed"})})
DeaLetters == Letter \ {18, 23, 24, 26, 31, 32, 34, 35}   \* no I N O Q V W Y Z
medical_license_usa == Checked("MEDICAL_LICENSE_US", "government", "MedicalLicenseUsaDea",
  {Pattern(40, {<<DeaLetters, Letter \cup {9}>> \o Rep(Digit, 7)})})
driver_license_usa == Supported("DRIVER_LICENSE_US", "government",
  {Pattern(30, Lettered(1, 1, 14) \cup Lettered(1, 18, 18) \cup Lettered(2, 2, 7)
               \cup {Rep(Digit, 2) \o Rep(Letter, 3) \o Rep(Digit, n) : n \in 5..6}
               \cup {<<Letter>> \o Rep(Digit, 6) \o <<{27}>>, Rep(Letter, 2) \o Rep(Digit, 6) \o <<Letter>>,
                     Rep(Digit, 8) \o Rep(Letter, 2), Rep(Digit, 3) \o Rep(Letter, 2) \o Rep(Digit, 4),
                     <<Letter, Digit, Letter, Digit, Letter>>}
               \cup {Rep(Digit, n) \o <<Letter>> : n \in 7..9}),
   Pattern(1, Digits(6, 14) \cup Digits(16, 16))})

(* can, eur, gbr *)
sin_can == Checked("SIN_CA", "government", "LuhnSinCan", {Pattern(40, Digits(9, 9))})
vat_number_eur == Recognizer("VAT_NUMBER", "government", "VatTable", FALSE,
  {Pattern(40, {Rep(Letter, 2) \o Rep(Alnum, n) : n \in 7..12})})
bank_account_gbr == Supported("BANK_ACCOUNT_UK", "financial", {Pattern(5, Digits(8, 10))})
sort_code_gbr == Supported("SORT_CODE_UK", "financial", {Pattern(5, Digits(6, 6))})
nhs_number_gbr == Checked("NHS_NUMBER", "government", "Mod11NhsGbr", {Pattern(40, Digits(10, 10))})
nino_gbr == Supported("NINO_UK", "government", {Format(40, {"nino"})})
passport_gbr == Supported("PASSPORT_UK", "government", {Pattern(10, Lettered(2, 7, 7))})
driving_licence_gbr == Supported("DRIVING_LICENCE_UK", "government", {Format(50, {"uk driving licence"})})
postcode_gbr == Supported("POSTCODE_UK", "contact", {Format(10, {"uk postcode"})})
vehicle_registration_gbr == Supported("VEHICLE_REGISTRATION_UK", "government",
  {Format(30, {"uk plate current"}), Format(20, {"uk plate prefix"}), Format(15, {"uk plate suffix"})})

(* deu; the postcodes 01000 and 99999 are not told apart *)
IcaoLetters == {12, 15, 16, 17} \cup 19..23 \cup {25, 27, 29} \cup 31..35
IcaoForm == <<IcaoLetters>> \o Rep(Digit \cup IcaoLetters, 7) \o <<Digit>>
BirthDays == {<<{0}, 1..9>>, <<1..2, Digit>>, <<{3}, 0..1>>, <<{5}, 1..9>>, <<6..7, Digit>>, <<{8}, 0..1>>}
BirthMonths == {<<{0}, 1..9>>, <<{1}, 0..2>>}
commercial_register_deu == Supported("COMMERCIAL_REGISTER_DE", "government", {Format(50, {"handelsregister"})})
driving_licence_deu == Supported("DRIVING_LICENCE_DE", "government",
  {Pattern(35, {Rep(Letter, 2) \o Rep(Digit, 8) \o <<Alnum>>})})
health_insurance_deu == Checked("HEALTH_INSURANCE_DE", "government", "HealthInsuranceDeu", {Pattern(30, Lettered(1, 9, 9))})
id_card_deu == Checked("ID_CARD_DE", "government", "IdCardDeu",
  {Pattern(40, {IcaoForm}), Pattern(50, {<<{29}>> \o Rep(Digit, 8)})})
license_plate_deu == Supported("LICENSE_PLATE_DE", "government",
  {Format(30, {"kennzeichen", "kennzeichen, umlaut"}), Format(20, {"kennzeichen"})})
lifetime_physician_number_deu == Checked("LIFETIME_PHYSICIAN_NUMBER_DE", "government", "LifetimePhysicianNumberDeu",
  {Pattern(30, Digits(9, 9))})
medical_practice_id_deu == Checked("MEDICAL_PRACTICE_ID_DE", "government", "MedicalPracticeIdDeu",
  {Pattern(20, Digits(9, 9))})
passport_deu == Checked("PASSPORT_DE", "government", "IcaoMrz9", {Pattern(40, {IcaoForm})})
postcode_deu == Supported("POSTCODE_DE", "contact",
  {Pattern(5, {<<{0}, 1..9>> \o Rep(Digit, 3), <<1..9>> \o Rep(Digit, 4)})})
social_security_deu == Checked("SOCIAL_SECURITY_DE", "government", "SocialSecurityDeu",
  {Pattern(50, {Rep(Digit, 2) \o d \o m \o Rep(Digit, 2) \o <<Letter>> \o Rep(Digit, 3) :
                  d \in BirthDays, m \in BirthMonths}),
   Pattern(30, {Rep(Digit, 8) \o <<Letter>> \o Rep(Digit, 3)})})
tax_id_deu == Checked("TAX_ID_DE", "government", "TaxIdDeu", {Pattern(50, {<<1..9>> \o Rep(Digit, 10)})})
tax_number_deu == Supported("TAX_NUMBER_DE", "government",
  {Pattern(50, {<<{0}, 1..9>> \o Rep(Digit, 11), <<{1}, 0..6>> \o Rep(Digit, 11)}),
   Format(40, {"steuernummer 3/3/5"}), Format(20, {"steuernummer"})})

all == {
  email, credit_card, iban, ip_address, url, phone_number, crypto, ssn_usa, mac_address, bank_account_gbr,
  date_of_birth, sort_code_gbr, routing_number_usa, cvv, itin_usa, tax_id_ein_usa, nhs_number_gbr, nino_gbr,
  passport_gbr, passport_usa, sin_can, vat_number_eur, api_key_strong, api_key_aws_secret, jwt_token,
  private_key, password_hash, medical_license_usa, bank_account_usa, driver_license_usa, mbi_usa, npi_usa,
  driving_licence_gbr, postcode_gbr, vehicle_registration_gbr, medical_practice_id_deu,
  commercial_register_deu, driving_licence_deu, health_insurance_deu, id_card_deu, license_plate_deu,
  lifetime_physician_number_deu, passport_deu, postcode_deu, social_security_deu, tax_id_deu, tax_number_deu}
Categories == {r.category : r \in all}

-----------------------------------------------------------------------------
(* Analyzer::from_config: unset, or a category without a recognizer, gives *)
(* the whole registry.                                                     *)
FromConfig(categories) ==
  LET kept == {r \in all : r.category \in categories}
  IN IF categories = {} \/ \E c \in categories : \A r \in kept : r.category # c THEN all ELSE kept

(* Validator::validate.  Parsed, and for a wallet the checksum, is what a  *)
(* library says; for a VAT number, a table of countries and lengths.       *)
Validate(validator, t) ==
  CASE validator = "Noop" -> "unknown"
    [] validator \in {"Parsed", "VatTable"} -> Verdict(t.sound)
    [] validator = "Crypto" -> IF t.format = "ethereum" THEN "unknown" ELSE Verdict(t.sound)
    [] validator = "AbaRoutingUsa" -> AbaRoutingUsa(t.chars)
    [] validator = "EinPrefixUsa" -> EinPrefixUsa(t.chars)
    [] validator = "HealthInsuranceDeu" -> HealthInsuranceDeu(t.chars)
    [] validator = "Iban" -> Iban(t.chars)
    [] validator = "IcaoMrz9" -> IcaoMrz9(t.chars)
    [] validator = "IdCardDeu" -> IdCardDeu(t.chars)
    [] validator = "LifetimePhysicianNumberDeu" -> LifetimePhysicianNumberDeu(t.chars)
    [] validator = "Luhn" -> Luhn(t.chars)
    [] validator = "LuhnSinCan" -> LuhnSinCan(t.chars)
    [] validator = "MedicalLicenseUsaDea" -> MedicalLicenseUsaDea(t.chars)
    [] validator = "MedicalPracticeIdDeu" -> MedicalPracticeIdDeu(t.chars)
    [] validator = "Mod11NhsGbr" -> Mod11NhsGbr(t.chars)
    [] validator = "NpiUsa" -> NpiUsa(t.chars)
    [] validator = "SocialSecurityDeu" -> SocialSecurityDeu(t.chars)
    [] validator = "SsnUsa" -> SsnUsa(t.chars)
    [] validator = "TaxIdDeu" -> TaxIdDeu(t.chars)

(* ContextSettings::default, MAX_SCORE, and the redactor's own floor. *)
SimilarityFactor == 35
BoostFloor == 40
MinScore == 40
MaxScore == 100

(* build_result: a pattern's match that does not fail the validator. *)
Matching(r, t) == {p \in r.patterns : Matches(p, t)}
Accepts(r, t) == Matching(r, t) # {} /\ Validate(r.validator, t) # "invalid"
Results(t, enabled) ==
  UNION {{[by |-> r, score |-> IF Validate(r.validator, t) = "valid" THEN MaxScore ELSE p.score] :
            p \in Matching(r, t)} : r \in {r \in enabled : Accepts(r, t)}}

(* Mutant: the boost without its floor. *)
BoostedOnly(score) == IF score + SimilarityFactor > MaxScore THEN MaxScore ELSE score + SimilarityFactor
(* boost_score *)
Boosted(score) ==
  LET raw == score + SimilarityFactor
  IN IF raw < BoostFloor THEN BoostFloor ELSE IF raw > MaxScore THEN MaxScore ELSE raw

(* boost_one: a keyword in the text before the match or on the key path. *)
Named(entity, t, context) == entity \in t.near \/ \E k \in DOMAIN context : context[k] = entity
FinalScore(res, t, context) ==
  IF res.score < MaxScore /\ res.by.keywords /\ Named(res.by.entity, t, context) THEN Boosted(res.score) ELSE res.score

(* analyze_with_context, before overlaps are resolved. *)
Analyze(t, context, enabled) == {res \in Results(t, enabled) : FinalScore(res, t, context) >= MinScore}
=============================================================================
