\* Is the class there when exit destroys it?
SPECIFICATION Spec
INVARIANT ClassRemovedOnce
