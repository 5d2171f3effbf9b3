SPECIFICATION FairSpec
CONSTANTS
  a1 = a1
  a2 = a2
  NoAddress = NoAddress
  Address <- TwoAddresses
  SERVER_IP = NoAddress
  SENSOR_READ_INTERVAL = 2
  RETRY_INTERVAL = 3
  SyncInterval = 3
  DISCOVER_TIMEOUT = 1
  DISPLAY_ON = 1
  POLLS = 1
  MaxAwake = 1
INVARIANTS TypeOK MeasuredInTime SleepsOffline
PROPERTIES UploadsResume
