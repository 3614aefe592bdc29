SPECIFICATION MCSpec
CONSTANTS
  Callers = {"run", "search"}
  Users = {"run", "search"}
  Runner = "run"
  Processes = {1, 2}
  Homes <- MCHomes
  Paths = {"p", "q"}
  Odd = {"q"}
  Blocks = 2
  MaxRedirects = 1
  MaxRuns = 1
  MaxFaults = 1
INVARIANTS ModelWhole  
PROPERTIES CallsEnd
