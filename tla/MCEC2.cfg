CONSTANTS
  Kinds = {"ebs", "s3", "snapshot_ebs", "snapshot_s3"}
  Limit <- Twice
  CallsFail = TRUE
SPECIFICATION Spec
INVARIANTS ImageHasData TidyUnlessSlips RecordedUnlessSlips
PROPERTIES InstanceEnds
