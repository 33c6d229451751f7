\* Lines of all kinds, cut by TCP in every way.
CONSTANTS
  Root <- MCRoot
  Here <- MCHere
  Listing <- MCListing
  Regular <- MCRegular
  MaxListed = 1024
  Alphabet <- MCAlphabet
  Calls <- MCCalls
  Instances = {1, 2}
  LineSize = 9
  MaxCalls = 3
SPECIFICATION FairSpec
INVARIANTS TypeOK RunsWhatIsSent ArgumentsAreTheWords 
   
 
