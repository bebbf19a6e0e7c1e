SPECIFICATION Spec
CONSTANTS
  app1 = app1  call1 = call1
  None = None
  Apps = {app1}
  Calls = {call1}
  Texts <- StaticOnly
  Amounts <- SomeAmounts
  Fees <- LargeFee
INVARIANT QrPays
