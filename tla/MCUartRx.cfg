SPECIFICATION Spec
CONSTANT Size = 4
INVARIANTS
  TypeOK
  ExactUntilTorn
