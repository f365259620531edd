SPECIFICATION SummarySpec
CONSTANTS
  v1 = v1
  v2 = v2
  v3 = v3
  a1 = a1
  a2 = a2
  Vups <- ThreeVups
  Agents <- TwoAgents
  AgentOf <- TwoTogether
  MaxStatus = 2
  MaxPhase = 2
  MaxCount = 4
INVARIANTS
  CountsExact
  HostsExact
