SPECIFICATION Spec
CONSTANTS
  TxMAX = 1
  RxMAX = 2
  Lens = {0, 1, 2}
  Clearable = {"CON"}
  MaxTx = 2
  MaxRx = 3
INVARIANTS TxNeverOverrun RxNeverOverread SendMatchesCompletion ConnectTimeoutIsOwn
PROPERTIES ImplementsStreamSocket CallsReturn
