CONSTANTS
    Users = {root, user}
    EnvAdmin = root
    Requests = {r1, r2}
SPECIFICATION Spec
PROPERTY AdminIsKept
