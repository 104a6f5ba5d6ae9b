SPECIFICATION Spec
CONSTANT Size = 4
INVARIANT EmptyMeansDrained
