SPECIFICATION FairSpec
CONSTANTS
  Commands = {"enter-text", "select-native", "select-custom", "click-element", "navigate", "set-filter-click", "set-filter-dropdown", "set-filter-classic", "report-inline", "report-editor", "move-widget", "enter-edit-mode", "save-dashboard"}
  \* Nothing, one label, one that the first is part of, and an unrelated one.
  Labels = {{}, {"north"}, {"north", "east"}, {"south"}}
  Earlier = {"start"}
  NoLabel = {"no label"}
  MaxToasts = 1
INVARIANTS
  ResultIsHonest
  FailureIsUndone
PROPERTIES
  InvocationEnds
CHECK_DEADLOCK FALSE
