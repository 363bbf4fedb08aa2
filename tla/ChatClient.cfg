CONSTANTS
  prompt = prompt
  test = test
  Client = {prompt, test}
  Prompts = {prompt}
  MaxLines = 2
  MaxStarts = 2
SPECIFICATION Spec
INVARIANTS TypeOK  InOrder
PROPERTY Answered
CHECK_DEADLOCK FALSE
