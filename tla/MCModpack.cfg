SPECIFICATION Spec
CONSTANTS
  Names <- MCNames
  Projects <- MCProjects
  NoProject = NoProject
  SlugOf <- MCSlugOf
  SidOf <- MCSidOf
  RawOf <- MCRawOf
  TitleOf <- MCTitleOf
  Slugify <- MCSlugify
  Api <- MCApi
  Packs = {"r"}
  DepsOf <- MCDepsOf
  Files <- MCFiles
  MaxRelease = 2
  MaxCommands = 2
INVARIANT EdgesAfterInstall
INVARIANT CleanRemoval
PROPERTY LossOnlyByConsent
PROPERTY ImportKeepsExisting
CHECK_DEADLOCK FALSE
