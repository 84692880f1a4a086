\* Two processes at a time, any number of them one after the other; one edit, while there
\* is one release; two installers of one data directory,
\* and a source that changes once.
CONSTANTS
  s1 = s1
  s2 = s2
  t1 = t1
  i1 = i1
  i2 = i2
  c1 = c1
  c2 = c2
  None = None
  NoData = NoData
  Slots <- Slots2
  Installers = {i1, i2}
  Targets = {t1}
  MaxDataSet = 2
  Identities <- MCIdentities
  MaxEdits = 1
  AgentRuns <- MCAgentRuns
  RetrievalRuns <- MCRetrievalRuns
SPECIFICATION PipelineSpec
INVARIANTS PointerAttested WorkersAdmitted
PROPERTIES PublishedKept ImplementsTrust InstalledWhole
SYMMETRY Symmetry
CONSTRAINT OneReleaseEdited
