CONSTANT Zips <- LongerZips
SPECIFICATION Spec
INVARIANT EmptyIdsFail
