\* Four timeouts, then one late response, then nothing goes wrong again.
SPECIFICATION FairSpec
CONSTANTS
  Expires = 60
  NonceLife = 6
  MaxLost = 4
  MaxLate = 1
  MaxRejects = 0
  MaxIgnored = 0
PROPERTIES StaysRegistered
