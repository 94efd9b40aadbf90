\* Three senders share two permits of a mailbox whose trace keeps two entries, so one of
\* them can be blocked and entries are lost; another fiber closes the actor.
SPECIFICATION FairSpec
CONSTANTS
  s1 = s1
  s2 = s2
  s3 = s3
  c1 = c1
  Senders = {s1, s2, s3}
  Closers = {c1}
  MailboxCapacity = 2
  TraceCapacity = 2
  MaxSequence = 2
INVARIANTS
  PermitConservation
  FifoDelivery
  SnapshotFaithful
PROPERTIES
  WaitingServed
  ImplementsContract
