CONSTANTS
  Half = 8
  Throws = Throws
  Garbage = Garbage
  NoArray = NoArray
  AddressOf <- MCAddressOf
  Payloads <- MCPayloads
SPECIFICATION Spec
INVARIANTS
  NothingMissing
  RegistersAsSent
  TokenEchoed
  WellFormedEnqueued
