\* One connection, buffers of two, more publications than they hold.
CONSTANTS
  Clients = {c1}
  Routes = {r1}
  Buses = {b1}
  SendBufferSize = 2
  PublishBufferSize = 2
  MaxPublish = 3
  MaxReads = 4
SPECIFICATION FairSpec
INVARIANTS NoStaleSubscriber PanicNeedsEviction
PROPERTIES ImplementsDelivery ReadersGetThrough
CHECK_DEADLOCK FALSE
