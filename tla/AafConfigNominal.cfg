\* Every key of CfgCB with a changed value (and junk for the tx rate and
\* sparse mode) over supported and unsupported rates and bit depths, int and
\* float, one and two channels.  The configuration ends with a role chosen,
\* after which only tx or rx change the session (AafTalker, AafListener).
CONSTANTS
  AudioRates = {44100, 48000, 22050}
  AudioTypes = {"int", "float"}
  AudioBitDepths = {16, 24, 32, 8}
  AudioChannels = {1, 2}
  CfgTexts <- NominalTexts
SPECIFICATION Spec
INVARIANT TypeOK SizesAsSpecified MaxDataSizeCovers HeaderRoundTrip
CHECK_DEADLOCK FALSE
