SPECIFICATION Spec
CONSTANTS
  RxMAX = 24
  Sizes = {0, 2, 4}
  Lens = {0, 1, 2}
  MaxFrame = 3
  Garbage = {0, 1, 2, 5}
  MaxDatagrams = 3
INVARIANTS InStepWithHeaders RemainderOfReported SendtoOutcomeIsOwn
PROPERTIES ImplementsDatagramSocket DatagramCallsReturn
