\* Keys one at a time and a pasted line, with a history of two commands.
CONSTANTS
  Root <- MCRoot
  Here <- MCHere
  Listing <- MCListing
  Regular <- MCRegular
  MaxListed = 1024
  Alphabet <- MCAlphabet
  Letters <- MCLetters
  Commands <- MCCommands
  Cwd <- MCCwd
  Sessions <- MCSessions
  Online = 2
  Packets <- MCPackets
  Digits = {2}
  HistorySize = 2
  LineSize = 5
  MaxCount = 3
SPECIFICATION Spec
INVARIANTS TypeOK ShowsTheLine ArrowsStayInside CachedCommandFits
 
