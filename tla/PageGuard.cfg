SPECIFICATION Spec
CONSTANTS
  Threads = {t1, t2}
  LastPage = 3
  DevicePages <- MCDevicePages
  Ranges <- MCWholeMemory
  Options <- MCOptions
  MaxVersion = 2
  MaxRestores = 1
  Api = Api
  Nobody = Nobody
SYMMETRY MCSymmetry
INVARIANTS
  TypeOK
  NoWriteMissed
  WritesSurvive
  DeviceWritesAreRead
  NoTrapUnderTheLock
PROPERTIES
  SubmitCapturesEarlierWrites
