\* Two polls at a time; a canvas is replaced once.
SPECIFICATION FairSpec
CONSTANTS
  Class = {"fallen", "staff"}
  MaxPolls = 2
  MaxRebuilds = 1
INVARIANTS
  TypeOK
  CanvasShowsLastText
  BorderTellsBoxes
PROPERTIES
  OneEmptyAnswerKeepsBoxes
  OverlayReachesPage
CHECK_DEADLOCK TRUE
