\* A report of the command line torn by inserts, bookings, a claim and the clock.
SPECIFICATION Spec
CONSTANTS
  K = 2
  Monthly <- Ceilings
  Month = 6
  NetNew = {"feature"}
  Maintenance = {"fix"}
  Similar <- CloseTopics
  SampleLimit = 2
  KTenants = 2
  Fact <- Rows
  Events <- Opportunities
  Principals <- People
  OrgOf <- Registry
  Home = "eu"
  MaxNow = 8
INVARIANTS
  
  
  WindowsPartition
  SummaryIsOrderFree
  RankIsFair
PROPERTIES
  OverStaysOver
