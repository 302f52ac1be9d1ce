CONSTANTS
  Persons = 4
  Door = {d1, d2}
  Exit = Exit
  Tour = Tour
  Nobody = Nobody
  MUSEUM_CAP = 3
  TOUR_CAP = 2
  MaxStarts = 1
SPECIFICATION FairSpec
INVARIANTS
  TypeOK
  MuseumInv
  NotOvercrowded
  TourMatchesQueue
  FullTourStarts
  CalledOnce
PROPERTIES
  LeavesUnlessJoining
CHECK_DEADLOCK FALSE
