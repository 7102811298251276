SPECIFICATION UploadFairSpec
CONSTANTS
  Payloads = {p1, p2, p3, p4}
  Persisted = {p1, p2, p3}
  Capacity = 3
  MemoryLimit = 2
  RetryPeriodically = TRUE
  WritesTear = TRUE
  Garbage = Garbage
  EmptyPayload = EmptyPayload
  p1 = p1
  p2 = p2
  p3 = p3
  p4 = p4
INVARIANTS UploadsAccounted
PROPERTIES ClearedAfterUpload StoredUploaded
