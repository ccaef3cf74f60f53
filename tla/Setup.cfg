SPECIFICATION Spec
CONSTANTS
  SSID = {"s1", "s2"}
  MAX_CREDENTIAL_COUNT = 2
  LEVEL = {20, 300}
  MILLIS = {60000, 3600000}
  MINUTES = {60, 71613}
  MaxActs = 3
  MaxForms = 2
  MaxFaults = 1
INVARIANTS
  AcceptedInv
  CredentialsKept
  SettingsLive
