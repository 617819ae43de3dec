SPECIFICATION CryptoSpec
CONSTANTS
  p1 = p1
  p2 = p2
  p3 = p3
  Parties = {p1, p2, p3}
  Damaged = Damaged
  Nothing = Nothing
  MaxEph = 4
  FieldRadix = 7
  FieldFold = 3
  A24 = 4
  WordBits = 10
  Scalars = {0, 8, 77, 1234, 8191, 9999, 16383, 32767}
  Points = {1, 2, 5, 9, 77, 128, 16379, 16380, 16382, 16383, 20000}
  Primes <- SomePrimes
  MacRadix = 3
  MacFold = 3
  ByteBits = 3
  MacKeys <- SomeKeys
  MaxBlocks = 3
  MaxLen = 3
  Block = 2
  Word = 4
  MaxMessage = 9
  MaxKey = 3
INVARIANTS
  AnswersAuthentic
  MatchedPair
  KeysNameTheExchange
  IntactAccepted
  Computes
  TagIsPolynomial
  OpensOnlySealed
  DigestsMatch
CHECK_DEADLOCK FALSE
