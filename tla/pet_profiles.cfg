SPECIFICATION Spec
CONSTANTS
  Pets = {p1}
  NoPet = NoPet
  NoPetId = NoPetId
  Owners = {o1, o2}
  Texts = {t1}
  NoText = NoText
  Weights = {0, 4, 4000, 1000000}
  Requests = {q1, q2}
  MaxVersion = 4
  Faults = {"db", "crash"}
INVARIANTS
  PetVersionsAreChanges
  PetAnswersAreStored
PROPERTIES
  ProfileImplemented
