SPECIFICATION Spec
CONSTANTS
  TxMAX = 1
  RxMAX = 1
  Lens = {1}
  Clearable = {"CON"}
  MaxTx = 1
  MaxRx = 1
PROPERTY RecvKeepsReceivedData
