\* A content of a text, a video and a quiz; a program of two steps, one required and
\* one added late and revised; two tickets.  Two requests of each kind under way.
SPECIFICATION UserSpec
CONSTANTS
  OpenPages = {"content", "program", "tickets"}
  text = text
  video = video
  test = test
  NoItem = NoItem
  NoRow = NoRow
  Items <- MCItems
  Position <- MCPosition
  Quizzes = {test}
  Played = {video}
  Sequential = TRUE
  TimeLimited = TRUE
  Questions = 2
  MaxAttempts = 2
  MaxPosts = 2
  Steps = {form, late}
  Required = {form}
  LateSteps = {late}
  Revised = {late}
  NoStep = NoStep
  ActionSlots = {t1, t2}
  TicketIds = {t1, t2}
  NoTicket = NoTicket
  MaxTicketCalls = 2
CHECK_DEADLOCK FALSE
SYMMETRY Alike
CONSTRAINT UnheardAlone
INVARIANTS
  UserTypeOK
  InOrder
  CompletedMeansAll
  PageNeverAhead
  OneSubmission
  CompletedMeansDone
  ShownIsDone
  ClosedHasTime
