CONSTANTS
  p1 = p1
  p2 = p2
  t1 = t1
  t2 = t2
  t3 = t3
  t4 = t4
  media = media
  image = image
  Processes = {p1, p2}
  Threads = {t1, t2, t3, t4}
  Process <- Factories
  Pid <- Pids
  Names = {media, image}
  MIN_PORT = 3
  MAX_PORT = 5
  NoThread = NoThread
  Builds = {t1}
  Pushes = {t2, t3, t4}
  Media = {media}
  Images = {image}
  Artifact <- Works
  CommandsFail = TRUE
  Crashes = {p2}
SPECIFICATION Spec
INVARIANTS OneAtATime MarkerMeansWhole UploadsWhole
PROPERTIES ThreadsEnd
