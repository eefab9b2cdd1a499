SPECIFICATION Spec
CONSTANTS
  MaxPacketId = 2
  MaxHandlers = 1
  PublishQoS = {0, 1, 2}
  UpMax = 1
  DownMax = 2
INVARIANTS  ReplyIsOwn PingUnderWay
PROPERTY MqttCallsReturn
