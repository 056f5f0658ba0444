SPECIFICATION FairSpec
CONSTANTS
  a = a b = b c = c d = d
  sampler = sampler console = console
  Bus <- Line
  Root = b
  Caller = {sampler, console}
  Nobody = Nobody
  Faults = {"loss"}
PROPERTIES EachCallAnswered
