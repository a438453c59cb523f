\* Losses, rejections, chatter, and one response that may come at any later
\* time; the PBX takes a nonce for 70 s.
SPECIFICATION FairSpec
CONSTANTS
  Expires = 60
  NonceLife = 14
  MaxLost = 5
  MaxLate = 1
  MaxRejects = 1
  MaxIgnored = 1
INVARIANTS TypeOK RefreshBeforeExpiry
PROPERTIES ActsOnItsOwnAnswers StaysRegistered
