SPECIFICATION Spec
PROPERTY InterruptStopsProxy
