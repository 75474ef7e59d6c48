\* One worker and everything that may change between two of its statements.
CONSTANTS
  Provider <- MCProvider
  Builtin <- MCBuiltin
  Unstable = {"search"}
  Executed = {1}
  Rules <- MCRules
  TaskId = {1, 2}
  Worker = {w1}
  Input <- MCInput
  Kind = {"create", "submit", "cancel", "archive", "duplicate", "rerun"}
  Profiles <- MCProfiles
  Faulty = TRUE
  MaxVersions = 2
SPECIFICATION Spec
INVARIANTS SnapshotsAreImmutable
PROPERTIES CreationsArePermitted LifecycleIsFollowed
