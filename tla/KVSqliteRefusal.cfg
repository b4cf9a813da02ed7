SPECIFICATION Spec
CONSTANTS
  Clients = {c1}
  Particles = {p}
  Keys <- OneCase
  Values <- TwoBytes
  ListPrefixes <- Empty
  Bytes <- MCBytes
  Length <- MCLength
  HasPrefix <- MCHasPrefix
  Like <- MCLike
  Quota = 5
  Absent = Absent
PROPERTIES RefusalIsJustified
