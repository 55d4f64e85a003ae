SPECIFICATION Spec
CONSTANTS
  Listing <- MCListing
  Topics <- MCTopics
  MaxDelivered = 2
  Expense <- MCExpense
  MaxPapers = 2
  MaxCost = 4
INVARIANTS OneEntryPerPaper LongestPrefix IdentifiersUnique
PROPERTIES RepeatsChangeNothing ArxivNamesSettle
