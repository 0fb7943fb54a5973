SPECIFICATION BootSpec
CONSTANTS
  MAX_PCI_BUS = 2
  MAX_DEVICE_PER_PCI_BUS = 2
  MAX_FUNC_PER_DEVICE = 3
  MAX_BAR = 6
  DeviceKinds <- MCDeviceKinds
  Leftovers <- MCLeftovers
  MemUppers <- MCMemUppers
  Cards <- MCCards
  MAX_DRIVERS = 265
INVARIANTS
  ReadyWhenEnabled
  ScanTrue
