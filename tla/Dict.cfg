SPECIFICATION Spec
CONSTANTS
    Names <- MCNames
    Hash <- MCHash
    TblSz = 2
    Assoc = 1
    SegSize = 2
    OvflSegSize = 2
INVARIANTS TypeOK NoAbort InCapacity EnteredOnce IndInv
PROPERTIES ImplementsSymbolTable Returns
