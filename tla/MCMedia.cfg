CONSTANTS
  j1 = j1
  j2 = j2
  c1 = c1
  c2 = c2
  Jobs <- MCJobs
  Callers <- MCCallers
  Order <- MCOrder
  ImageConfigured <- MCImageConfigured
  Offers <- MCOffers
  MaxActive = 1
  SubmitPermits = 1
  StatusPermits = 1
  DownloadPermits = 1
  ImagePermits = 1
  MaxDownloads = 2
SPECIFICATION MediaSpec
SYMMETRY MCSymmetry
CHECK_DEADLOCK TRUE
INVARIANTS
  PaidOnce
  PhaseTrue
  InputsCarried
