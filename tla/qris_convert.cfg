SPECIFICATION Spec
CONSTANTS
  app1 = app1  call1 = call1
  None = None
  Apps = {app1}
  Calls = {call1}
  Texts <- CleanTexts
  Amounts <- SomeAmounts
  Fees <- SomeFees
INVARIANTS
  QrPays
  QrKeepsPayee
  NeverMisconfigured
  NeverPanics
  CrcIsRemainder
