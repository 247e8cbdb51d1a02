CONSTANTS
  Rates = {48000, 96000}
  Default = 48000
  Nominal <- MCNominal
  Off = Off
  MAX_RESTART = 2
  Commands = {"ts", "xr", "tr", "tf", "ar", "ap"}
  MaxCommands = 2
  MaxFaults = 3
SPECIFICATION FairSpec
INVARIANTS AudibleIsRunning QualifiedIsAudible RatesAgree AttemptsBounded
PROPERTY Settles
