SPECIFICATION UiSpec
CONSTANTS
  Watched = {lean, tool}
  Unwatched = {generator}
  MaxEdits = 2
  NoBuild = NoBuild
INVARIANTS
  StaleOnlyIfMissed
PROPERTIES
  ServedNeverOlder
  NoticedIsServed
CHECK_DEADLOCK FALSE
