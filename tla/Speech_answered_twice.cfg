SPECIFICATION Spec
INVARIANT AnsweredOnce
CHECK_DEADLOCK FALSE
