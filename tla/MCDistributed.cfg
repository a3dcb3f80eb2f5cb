CONSTANTS
  Local = here
  Remotes = {there}
  Notes = {n1}
  BundleOf <- MCBundleOf
  Displayed = {n1}
  Distributable = {b1}
  Options = {TRUE}
  MaxVersion = 2
  MaxQueue = 2
  Faults = {"switch", "death"}
  here = here
  there = there
  n1 = n1
  n2 = n2
  b1 = b1
  b2 = b2
SPECIFICATION FairSpec
INVARIANTS  ToldIsListed
 
