CONSTANT MaxSockets = 3
SPECIFICATION Spec
INVARIANT SocketStaysOpen
PROPERTY MainServed
