SPECIFICATION Spec
CONSTANTS
  Volumes <- MCVolumes
  Snapshots = {5, 6}
  Passwords <- MCPasswords
  NoPassword = NoPassword
INVARIANTS RightKey MountsIfItCan AskedOnlyIfNeeded
CHECK_DEADLOCK FALSE
