CONSTANTS
  Rates = {48000, 96000}
  Default = 48000
  Nominal <- MCNominal
  Off = Off
  MAX_RESTART = 2
  Commands = {"ts"}
  MaxCommands = 1
  MaxFaults = 2
SPECIFICATION Spec
INVARIANT ConfirmedStopStays
