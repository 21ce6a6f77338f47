\* Two reorganisations: a query may meet the logs of two removed blocks.
CONSTANTS
  MaxChanges = 2
  MaxHeight = 2
  MaxForks = 2
SPECIFICATION Spec
INVARIANTS ChangesMatchTheirHash SettledBlockIsReturned SettledMessagesAreReturned
