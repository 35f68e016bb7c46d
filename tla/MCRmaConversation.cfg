\* One agent and one customer write, two requests at a time, over two windows.
SPECIFICATION Spec
CONSTANTS
  Staff = {agente}
  Customers = {cliente}
  Consultation = {}
  Requests = {r1, r2}
  None = None
  Inbox = TRUE
  WINDOW = 2
  MaxWrites = 2
INVARIANTS Announced SentIsShown
PROPERTIES Heard
CHECK_DEADLOCK FALSE
