SPECIFICATION FairSpec
CONSTANTS
  i1 = i1
  i2 = i2
  program = program
  plain = plain
  cut = cut
  headless = headless
  foreign = foreign
  None = None
  Images = {i1, i2}
  Files = {program, plain, cut, headless, foreign}
  BlockEntries = 3
  Info <- FileInfo
  Hash <- MCHash
INVARIANTS
  TypeOK
  NothingKept
  DirectoryWhole
  Balanced
  MembersRight
  ElementsApart
  ScopesRight
  SymbolsRight
PROPERTIES
  CallsReturn
