SPECIFICATION Spec
INVARIANTS DefinitionsHold ChangesAreJudged ChoicesAreGoverned
CHECK_DEADLOCK FALSE
