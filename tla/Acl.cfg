SPECIFICATION Spec
CONSTANTS
    Users = {2, 3}
    Groups = {1, 2}
    Types = {"VM", "HOST"}
    Oids = {1, 2}
    Asked <- MCAsked
    Default <- MCDefault
    INT_MAX = 3
CHECK_DEADLOCK FALSE
INVARIANTS AuthorizedIsGranted ListedIsUsable
