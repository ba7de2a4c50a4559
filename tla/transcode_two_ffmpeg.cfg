SPECIFICATION HlsSpec
CONSTANTS
  Media = {m1}
  HlsJobs = {h1, h2, h3}
  NoHls = NoHls
  NoMedium = NoMedium
  MaxConcurrent = 1
INVARIANTS
  OneFFmpegPerMedia
