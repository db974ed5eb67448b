\* Seven revisions, two re-vendors and one crash or edit of a citation.
SPECIFICATION PinsSpec
CONSTANTS
  MaxVendors = 2
  MaxMishaps = 1
  Word       <- MCWord
  Upstream   <- MCUpstream
  First      <- MCFirst
  FirstCites <- MCFirstCites
INVARIANT InsertionsAreFollowed
PROPERTY RevendorKeepsItsText
ACTION_CONSTRAINT ShortlyRecited
