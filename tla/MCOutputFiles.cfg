SPECIFICATION Spec
CONSTANTS
  post = post
  batch = batch
  job = job
  Posts = {post}
  Batches = {batch}
  S3Jobs = {job}
  Uploads <- MCUploads
  Sends <- MCSends
  Stem <- MCStem
  Size <- MCSize
  Combined = "batch"
  MaxArchive = 0
  MaxTotal = 2
  MaxCount = 2
  MaxAge = 0
  MaxStore = 1
  MinAge = 1
  MaxNow = 1
  MaxPasses = 1
  None = None
CHECK_DEADLOCK FALSE
INVARIANTS
  DeliveredIsOwn
  AbortLeavesNothing
  OnlyCutUploadLeft
  LockHolderGoesOn
PROPERTIES
  BudgetUntilSpent
