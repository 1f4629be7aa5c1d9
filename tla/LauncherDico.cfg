SPECIFICATION Spec
INVARIANT ConfiguredBeforeInstance
