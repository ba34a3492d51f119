SPECIFICATION Spec
CONSTANTS
  p1 = p1  p2 = p2
  Slots = {p1, p2}
  Boards = {p1, p2}
  BoardOf <- MCBoardOf
  Status = {"todo", "done"}  FirstStatus = "todo"
  Dates = {1}  NoDate = 0
  ChecklistSize = 1
  Faults = {"error", "lost"}
  MaxTasks = 3  MaxRequests = 3
INVARIANT ChecklistOnce
