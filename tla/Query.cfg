SPECIFICATION Spec
CONSTANTS
  NotText = NotText
  NotCallable = NotCallable
  Docs <- MCDocs
  Queries <- MCQueries
  Predicates <- MCPredicates
  MaxDocs = 2
INVARIANTS
  FindMeans
  OperatorLaws
