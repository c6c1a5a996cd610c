SPECIFICATION Spec
CONSTANTS
  Names = {"ann", "bob"}
  Passwords = {"x", "y"}
  MaxRows = 2
  MaxChanges = 2
PROPERTIES
  AnsweredFromDatabase
