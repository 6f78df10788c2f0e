\* A bot and a person share a session: pause, handoffs, takeovers and expiry.
SPECIFICATION FairSpec
CONSTANTS
  Ids = {"bot", "ann", "anonymous"}
  Clients <- BotAndPerson
  DefaultActor <- Anonymous
  NoActor = NoActor
  NoLease = NoLease
  Handoffs = {h1, h2}
  MaxTTL = 1
  MaxEpoch = 3
INVARIANT PauseIsAnswerable
PROPERTIES PersonKeepsPen LeaseEndAudited HandoverHolds
PROPERTIES ImplementsWriterLease DeadHolderLosesPen
