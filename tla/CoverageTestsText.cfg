SPECIFICATION Spec
CONSTANT Executables <- PlainExecutables
INVARIANT AssertionsHold
CHECK_DEADLOCK FALSE
