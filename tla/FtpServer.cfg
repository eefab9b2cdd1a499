SPECIFICATION Spec
CONSTANT PasvPorts = 2
INVARIANTS PassivePortAnnounced BannerFirst
PROPERTY ControlReopens
