SPECIFICATION Spec
CONSTANTS
  course = course
  chapter = chapter
  problem = problem
  video = video
  h1 = h1
  h2 = h2
  Blocks = {course, chapter, problem, video}
  Root = course
  Leaves = {problem, video}
  Withheld = {problem}
  InitialChildren <- MCInitialChildren
  Handlers = {h1, h2}
  MaxVersions = 4
  OverlapVersions = 2
SYMMETRY Symmetry
INVARIANTS WellFormed EditsKept PublishedAsInSource
CHECK_DEADLOCK FALSE
