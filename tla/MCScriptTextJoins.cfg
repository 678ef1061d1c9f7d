CONSTANT Trees <- Joins
SPECIFICATION Spec
INVARIANT TextDeterminesTree
