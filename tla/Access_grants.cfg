SPECIFICATION Spec
CONSTANTS
  ann = ann
  bob = bob
  phone = phone
  share = share
  d1 = d1
  d2 = d2
  Guests = {ann, bob}
  Phones = {phone}
  Shares = {share}
  Devices = {d1, d2}
  Link <- MCLink
  Full = {share}
  Watchers = {phone}
  Subscribers = {ann}
  Tickets = {1}
  Expiring = {d1}
  MaxDevices = 2
  MaxCodes = 1
  MaxBlips = 1
  None = None
INVARIANT NoTicketOfRevoked
PROPERTIES SubsDieWithRevoke FeedsAreCut AskersLearn
CHECK_DEADLOCK FALSE
