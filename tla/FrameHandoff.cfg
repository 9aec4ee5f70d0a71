SPECIFICATION Spec
CONSTANT MaxFrame = 3
INVARIANTS
  TypeOK
  SlotExclusive
  ShownIntact
  NothingLeaks
  MappedIsReferenced
PROPERTIES
  ShownOnceInOrder
  CallsReturn
  ImplementsMailbox
  MailboxServed
