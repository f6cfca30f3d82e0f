\* The six pages with two organisations; two handlers that wait, but one of the items,
\* the catalogue and the users.
SPECIFICATION AdminSpec
CONSTANTS
  OpenPages = {"contents", "items", "programs", "catalogue", "grants", "users"}
  ContentIds = {c1, c2}
  Firms = {f1, f2}
  Public = Public
  Nil = Nil
  FirstRows <- MCFirstRows
  MaxTasks = 2
  Courses = {c1, c2}
  NoCourse = NoCourse
  ItemIds = {i1, i2}
  Missing = Missing
  MaxFiles = 2
  MaxChores = 1
  ProgramIds = {p1}
  NoProgram = NoProgram
  Units = {c1, c2}
  Summarised = 0
  MaxJobs = 2
  Tenants = {f1, f2}
  Members = {c1}
  GrantIds = {i1, i2}
  Unset = Unset
  AnyRole = AnyRole
  MaxAdminCalls = 2
  Companies = {f1, f2}
  NoCompany = NoCompany
  DocIds = {i1, i2}
  NoDoc = NoDoc
  MaxDocCalls = 1
  Employers = {f1, f2}
  NoEmployer = NoEmployer
  Unsent = Unsent
  UserIds = {c1}
  NoUser = NoUser
  MaxErrands = 1
SYMMETRY Alike
CONSTRAINT FewChanges
ACTION_CONSTRAINT HandledAtOnce
INVARIANTS
  AdminTypeOK
  AudienceInOrg
  SavedIsShown
