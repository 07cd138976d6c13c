SPECIFICATION Spec
CONSTANT Executables <- PlainExecutables
INVARIANT EverySubCallFails
CHECK_DEADLOCK FALSE
