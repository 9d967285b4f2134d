SPECIFICATION FairSpec
CONSTANTS
  MaxId = 6
INVARIANTS TypeOK NoDangling DeleteFinds
PROPERTIES ImplementsSet PollEnds
