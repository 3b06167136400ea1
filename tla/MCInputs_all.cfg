SPECIFICATION MCSpec
CONSTANTS
  Newline = newline
  Space = space
  Letter = letter
  MaxLineBytes = 3
  ChunkSize = 3
  MaxBytes = 9
  Inputs <- StartInputs
  Addresses = {"tls port", "other port", "no port"}
  Pins = {"pin A", "pin B", "other cert"}
  Trusted = {"pin B", "other cert"}
  Numbers <- StartNumbers
  Digits = 2
  HalfWord = 2
  Texts <- TargetTexts
INVARIANTS LinesDelivered LimitOnLines PinEnforced SwitchesFailSafe
  SharesAreBelowTarget
\* a job that was read, or a program that ended, goes no further here
CHECK_DEADLOCK FALSE
