SPECIFICATION SilentServerSpec
CONSTANTS
    Conns = {c1, c2}
PROPERTIES StopsInTheEnd
