\* Fields, groups and pairings of crypto/bls12381 and crypto/bn256 on small primes.
SPECIFICATION Spec
INVARIANTS
  FieldsAgree
  
  MapsIntoSubgroup
  PairingAgrees
  WordsAgree
CHECK_DEADLOCK FALSE
