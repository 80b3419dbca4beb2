SPECIFICATION Spec
CONSTANTS
  Settings <- SettingChoices
  Default <- DefaultSetting
  WsSetting <- Socket
  InFlight = 1
  MaxOps = 1
INVARIANTS TypeOK UserBurst SocketBurst IpBurst RefusedForCause
