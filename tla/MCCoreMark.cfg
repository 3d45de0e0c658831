SPECIFICATION Spec
CONSTANTS
  Args <- MCArgs
  Builds <- MCBuilds
INVARIANTS SortIsStable Restored KernelsStayInBlocks KnownRunsValidate
PROPERTY Ends
