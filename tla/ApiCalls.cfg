SPECIFICATION CallSpec
INVARIANTS ResourcesExact FailureIsReported
