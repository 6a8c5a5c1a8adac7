\* Both models: every sorted table of up to three hashes and every target; every base,
\* up to five attempts, so that the nonce reaches its second byte.  Every difficulty.
SPECIFICATION FairSpec
CONSTANTS
  BitsPerByte = 2
  BytesPerHash = 2
  MaxTable = 3
  Digests <- FourDigests
  NonceBytes = 2
  MaxNonce = 5
INVARIANTS TypeOK MinedIffSolved NoInputRepeated WholeBytesNotMissed
PROPERTIES RoundEnds
CHECK_DEADLOCK FALSE
