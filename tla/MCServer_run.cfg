SPECIFICATION Spec
CONSTANTS
    localhost = localhost  example = example  p8080 = p8080  p8443 = p8443
    Host = {localhost, example}
    Port = {p8080, p8443}
    MaxIds = 4
INVARIANTS ServedAsConfigured SocketForEachPort HeapReturned
CHECK_DEADLOCK FALSE
