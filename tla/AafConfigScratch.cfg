\* An eight-channel int16 listener at 192 kHz and the default 4000 packets/s
\* (48 frames per packet), configured with one packet of redundancy.
CONSTANTS
  AudioRates = {48000, 192000}
  AudioTypes = {"int"}
  AudioBitDepths = {16}
  AudioChannels = {2, 8}
  CfgTexts <- ScratchTexts
SPECIFICATION Spec
INVARIANT ScratchHoldsQueueFrame
CHECK_DEADLOCK FALSE
