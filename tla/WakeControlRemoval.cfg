SPECIFICATION FairSpec
CONSTANTS
  Browsers = {owner}
  Passwords = {blank, default, secret, guess}
  owner = owner
  guest = guest
  stranger = stranger
  secret = secret
  guess = guess
  Blank = blank
  Default = default
  Knows <- KnownPasswords
  NoHash = nohash
  Absent = absent
  MaxLogins = 2
  Hold = 2
PROPERTIES RemovalEndsSession
