SPECIFICATION Spec
CONSTANTS
  Repos <- MCRepos
  Source <- MCSource
  Releases <- MCReleases
  PrimaryName <- MCPrimaryName
  Metalinks <- MCMetalinks
INVARIANTS FetchedIsComplete LoadAfterFetch LoadMatches MirrorsTried
PROPERTY PrimariesOutliveMirrors
