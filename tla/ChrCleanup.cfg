\* Does a failed insmod clean up?
SPECIFICATION Spec
INVARIANT CleansUpOnError
