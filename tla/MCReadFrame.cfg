CONSTANTS
  BufSize = 5
  MaxBody = 2
  MaxFilm = 2
  Films <- SmallFilms
SPECIFICATION Spec
INVARIANTS
  TypeOK
  FramesInOrder
  EndAfterLast
