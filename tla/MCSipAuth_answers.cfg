\* Challenges in every form, and where the PBX may state the expiry it grants.
\* The attempt ends.
CHECK_DEADLOCK FALSE
SPECIFICATION AttemptSpec
CONSTANTS
  Challenges <- SomeChallenges
  Oks <- HeaderGrants
  Numbers <- SomeNumbers
  LowerCase <- Spellings
  Configured <- ThreeThousandSixHundred
  Hosts <- TwoHosts
INVARIANTS ChallengeIsAnswered GrantIsUnderstood
