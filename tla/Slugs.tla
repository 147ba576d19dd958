-------------------------------- MODULE Slugs --------------------------------
(***************************************************************************)
(* Slugs, given and drawn (packages/shared/src/slug.ts and base62.ts). A   *)
(* character is an integer: a base62 digit, or Hyphen, Underscore, Other.  *)
(***************************************************************************)
EXTENDS Integers, Sequences, FiniteSets

CONSTANTS
  Base,                      \* BASE62_ALPHABET.length
  Bytes,                     \* how many a byte can be, 256
  MinLength, MaxLength,      \* of a custom slug
  DrawnLength,               \* DEFAULT_SLUG_LENGTH
  UpperOf,                   \* the digits that are capitals, and their small letters
  Reserved,                  \* RESERVED_SLUGS
  MaxNumber                  \* bound: the numbers encoded

ASSUME SlugsConstants ==
  /\ Base \in Nat \ {0, 1} /\ Bytes \in Nat /\ MaxNumber \in Nat
  /\ MaxLength \in Nat /\ {MinLength, DrawnLength} \subseteq 1..MaxLength

Hyphen == -1
Underscore == -2
Other == -3

Digits == 0..Base - 1
SlugChars == Digits \cup {Hyphen, Underscore}

isWellFormedSlug(slug) ==
  Len(slug) \in 1..MaxLength /\ \A i \in DOMAIN slug : slug[i] \in SlugChars

LowerCase(slug) ==
  [i \in DOMAIN slug |-> IF slug[i] \in DOMAIN UpperOf THEN UpperOf[slug[i]] ELSE slug[i]]

ASSUME ReservedInSmallLetters == \A word \in Reserved : LowerCase(word) = word

isReservedSlug(slug) == LowerCase(slug) \in Reserved

\* The first rule that is broken.
validateCustomSlug(slug) ==
  IF Len(slug) < MinLength THEN "too-short"
  ELSE IF Len(slug) > MaxLength THEN "too-long"
  ELSE IF \E i \in DOMAIN slug : slug[i] \notin SlugChars THEN "invalid-characters"
  ELSE IF slug[1] \notin Digits \/ slug[Len(slug)] \notin Digits
    THEN "leading-or-trailing-separator"
  ELSE IF isReservedSlug(slug) THEN "reserved" ELSE "valid"

-----------------------------------------------------------------------------
\* The n-th member of a set of positions.
Nth(positions, n) ==
  CHOOSE i \in positions : Cardinality({j \in positions : j <= i}) = n

UnbiasedCeiling == Bytes - (Bytes % Base)

\* Mutant: no byte is discarded.
DrawnOfAll(bytes, length) == [i \in 1..length |-> bytes[i] % Base]

\* The slug of the bytes drawn, a buffer after another; shorter than it should be if they
\* do not suffice, and more are drawn.
generateSlug(bytes, length) ==
  LET unbiased == {i \in DOMAIN bytes : bytes[i] < UnbiasedCeiling}
      drawn == Cardinality(unbiased)
  IN [n \in 1..(IF drawn < length THEN drawn ELSE length) |-> bytes[Nth(unbiased, n)] % Base]

\* The digits of a number, the last the least.
encodeBase62(n) ==
  LET digits[k \in 0..MaxNumber] ==
        IF k = 0 THEN <<>> ELSE Append(digits[k \div Base], k % Base)
  IN IF n = 0 THEN <<0>> ELSE digits[n]

decodeBase62(slug) ==
  LET value[i \in 0..Len(slug)] == IF i = 0 THEN 0 ELSE value[i - 1] * Base + slug[i]
  IN value[Len(slug)]

=============================================================================
