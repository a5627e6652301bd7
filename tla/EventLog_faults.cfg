SPECIFICATION Spec
CONSTANTS
  Events = {a, p}
  Prompts = {p}
  Notices = {n}
  MaxStops = 2
  Races = {"slow", "dbfail", "notice"}
PROPERTY KeepsJournal
CHECK_DEADLOCK FALSE
