SPECIFICATION Spec
CONSTANT Conns = {c1, c2}
SYMMETRY ConnSymmetry
INVARIANT RunningServerListens
