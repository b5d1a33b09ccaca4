\* A stereo int16 session at 48 kHz whose .ini file sets the transmit rate to 0.
CONSTANTS
  AudioRates = {48000}
  AudioTypes = {"int"}
  AudioBitDepths = {16}
  AudioChannels = {2}
  CfgTexts <- ZeroTexts
SPECIFICATION Spec
INVARIANT NoDivisionByZero
CHECK_DEADLOCK FALSE
