SPECIFICATION Spec
CONSTANT Executables <- PlainExecutables
INVARIANTS
  TypeOK
  TestsAgree
  PathsExercised
  ArrangedFailuresHappen
CHECK_DEADLOCK FALSE
