\* One host, every sequence of commands.
SPECIFICATION Spec
INVARIANTS TypeOK LeftStaysOut
PROPERTY OwnDaemonStopped
