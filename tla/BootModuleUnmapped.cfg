SPECIFICATION Spec
INVARIANT ModuleReadable
CHECK_DEADLOCK FALSE
