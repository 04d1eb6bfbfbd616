\* Payloads of up to 5 bytes in chunks of 1 to 3, thresholds below, at and above one,
\* and every mode.  Sizes and thresholds may be left at zero.
\* Headers are scaled down with the payloads, or no payload would be worth compressing.
CONSTANTS
  Byte = {0, 1}
  Payloads <- MCPayloads
  Options <- MCOptions
  ChunkSize = 3
  MinCompress = 2
  Slack = 1
  HeaderLength = 1
  ChunkCap = 4
  MaxInt32 = 13
  None = None
  DictCap = 3
  Window = 2
  MaxSize = 5
  PrefixCap = 5
SPECIFICATION PSpec
INVARIANTS
  RoundTrip
  SizeIsBodyLength
