CONSTANTS
  MaxIcons = 1
  Defaults <- MCDefaults
  Names <- MCNames
  Folders <- MCFolders
  Places <- MCPlaces
  Words = {"", "a", "b", "Desktop", "hello.txt", "DIR", "TERM", "FILE", "0", "30"}
  Numerals = {"0", "30"}
  Looks = {1, 2}
  FirstLook = 1
  Greeted <- MCGreeted
  Watched <- MCWatched
  Texts = {"t"}
  Buffer = 0
  MaxSent = 2
SPECIFICATION Spec
INVARIANTS TypeOK  LookKept
PROPERTIES TextsKept
