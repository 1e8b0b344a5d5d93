SPECIFICATION Spec
CONSTANTS
  Slots = {s1, s2}
  FirstCapacity = 2
  MaxConnected = 5
  Disciplines <- mcDisciplines
INVARIANTS EmissionIsExact NoBadUse
