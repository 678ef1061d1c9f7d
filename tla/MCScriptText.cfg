CONSTANT Trees <- Seeds
SPECIFICATION MCSpec
INVARIANT ReadsBack
