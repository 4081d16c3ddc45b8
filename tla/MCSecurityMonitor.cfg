SPECIFICATION SecuritySpec
CONSTANTS
  Configs <- MCConfigs
  TenMinutes = 2
  AlertThreshold = 3
  MaxIncidents = 2
  MaxUpdates = 2
  MaxFaults = 2
  w1 = w1
  w2 = w2
  Writers = {w1, w2}
  AuditLines = 2
  AuditBackups = 2
  MaxEvents = 8
  MaxShort = 2
  Sections = {"monitor", "audit"}
INVARIANT IncidentsClosed
INVARIANT RecoveryIsNews
PROPERTY WatermarksSound
PROPERTY FirstUpdateKept
PROPERTY VouchedFor
INVARIANT LinksVerify
